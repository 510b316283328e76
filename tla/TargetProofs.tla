---------------------------- MODULE TargetProofs ----------------------------
(***************************************************************************)
(* Proofs about the commands that put the pool into other programs.        *)
(*                                                                         *)
(* The targets Pi and Prime, for every pool, every number of commands,     *)
(* files and providers, and every bound:                                   *)
(*   HarnessTypeCorrect      every variable keeps to its type;             *)
(*   TargetsCompose          a displaced login is kept until it is put     *)
(*                           back, an uninstall restores, and handoffs     *)
(*                           walk the pool without early repeats.          *)
(*                                                                         *)
(* The argument: while the commands are given one after the other one of   *)
(* them runs, on the file that the local state owns, and what it has yet   *)
(* to record is known from where it is; a displaced login is in the backup *)
(* for as long as AIM is in its place.                                     *)
(*                                                                         *)
(* The rebalance of OpenClaw, for every number of agents and labels, every *)
(* headroom, every assignment at the start and every edit of the config:   *)
(*   RebalanceCloses         when it ends well the gateway can consume     *)
(*                           what is assigned and nothing else;            *)
(*   RebalanceMovesSessions  and the sessions follow their agents;         *)
(*   RebalancesSettle        a plan made again moves nobody;               *)
(*   RebalancesReach         all of it.                                    *)
(*                                                                         *)
(* The argument: each step settles what it is for, for the agents it has   *)
(* done, and no later step or event outside undoes it; the gateway runs    *)
(* what was settled, since it was restarted or nothing was changed.        *)
(*                                                                         *)
(* The planner, for every demand, headroom and set of eligible labels:     *)
(*   EverySubjectPlaced      every subject gets an eligible label;         *)
(*   PlanSettles             a plan of a plan is the plan.                 *)
(*                                                                         *)
(* The argument: the sums and the placing are functions that exist for     *)
(* every number, or there would be a least one for which they do not; once *)
(* every subject has an eligible label the order is by demand alone, so    *)
(* each subject meets the same placing again, and its label of the first   *)
(* time, which was the best or was kept, is kept.                          *)
(*                                                                         *)
(* The Hermes fleet, for every number of homes, labels and jobs:           *)
(*   FleetTypeCorrect        every variable keeps to its type;             *)
(*   FleetIsServed           a job that ends well, and that nobody has     *)
(*                           disturbed, has served every home.             *)
(*                                                                         *)
(* The argument: the planner gives a home an eligible label; a home that a *)
(* job has not to write is served already, or it was written by the job.   *)
(***************************************************************************)
EXTENDS OpenclawSync, HarnessTarget, HermesFleet, TLAPS, FiniteSetTheorems, WellFoundedInduction

(* Every nonempty set of numbers has a least one. *)
Smaller == {r \in Nat \X Nat : r[1] < r[2]}

LEMMA LeastNumber ==
    ASSUME NEW S \in SUBSET Nat, S # {}
    PROVE  \E n \in S : \A m \in S : n <= m
<1>1. OpToRel(<, Nat) = Smaller
  BY DEF OpToRel, Smaller
<1>2. IsWellFoundedOn(Smaller, Nat)
  BY <1>1, NatLessThanWellFounded
<1>3. PICK n \in S : \A m \in S : ~(<<m, n>> \in Smaller)
  BY <1>2, WFMin
<1>4. n \in Nat
  OBVIOUS
<1>5. ASSUME NEW m \in S, m < n PROVE FALSE
  <2>1. <<m, n>> \in Nat \X Nat /\ <<m, n>>[1] < <<m, n>>[2]
    BY <1>4, <1>5
  <2> QED  BY <1>3, <2>1 DEF Smaller
<1>6. \A m \in S : m \in Nat /\ ~(m < n)
  BY <1>5
<1> QED  BY <1>4, <1>6

-----------------------------------------------------------------------------
(* The planner: what it is given, what it chooses, and a plan that is repeated. *)

(* Of the members of a finite set, in an order where any two compare, one is first. *)
LEMMA LeastMember ==
    ASSUME NEW C, IsFiniteSet(C), C # {}, NEW R,
           \A a, b \in C : <<a, b>> \in R \/ <<b, a>> \in R,
           \A a, b, c \in C : <<a, b>> \in R /\ <<b, c>> \in R => <<a, c>> \in R
    PROVE  \E a \in C : \A b \in C : <<a, b>> \in R
<1> DEFINE Above(a) == {b \in C : ~(<<a, b>> \in R)}
           Sizes == {Cardinality(Above(a)) : a \in C}
<1>1. \A a \in C : IsFiniteSet(Above(a)) /\ Cardinality(Above(a)) \in Nat
  BY FS_Subset, FS_CardinalityType
<1> HIDE DEF Above
<1>2. Sizes \in SUBSET Nat /\ Sizes # {}
  BY <1>1
<1>3. PICK n \in Sizes : \A m \in Sizes : n <= m
  BY <1>2, LeastNumber
<1>4. PICK a \in C : n = Cardinality(Above(a))
  BY <1>3
<1>5. ASSUME NEW b \in C, ~(<<a, b>> \in R) PROVE FALSE
  <2>1. Above(b) \subseteq Above(a) /\ b \in Above(a) /\ b \notin Above(b)
    BY <1>4, <1>5 DEF Above
  <2>2. IsFiniteSet(Above(a)) /\ IsFiniteSet(Above(b))
    BY <1>1, <1>4, <1>5
  <2>3. Cardinality(Above(b)) < Cardinality(Above(a))
    BY <1>1, <1>4, <1>5, <2>1, <2>2, FS_Subset
  <2>4. Cardinality(Above(a)) <= Cardinality(Above(b))
    BY <1>3, <1>4, <1>5
  <2> QED  BY <1>1, <1>4, <1>5, <2>3, <2>4
<1> QED  BY <1>4, <1>5

(* The sums, which are recursive over the sets. *)
IsSum(f, S, w) == f = [T \in SUBSET S |-> IF T = {} THEN 0
                          ELSE w[CHOOSE x \in T : TRUE] + f[T \ {CHOOSE x \in T : TRUE}]]

LEMMA SumExists == ASSUME NEW S, IsFiniteSet(S), NEW w PROVE \E f : IsSum(f, S, w)
<1> DEFINE One(T) == CHOOSE x \in T : TRUE
           Small(n) == {T \in SUBSET S : Cardinality(T) <= n}
           Sum(f, n) == f = [T \in Small(n) |-> IF T = {} THEN 0 ELSE w[One(T)] + f[T \ {One(T)}]]
           Bad == {n \in Nat : ~(\E f : Sum(f, n))}
<1>1. \A T \in SUBSET S : IsFiniteSet(T) /\ Cardinality(T) \in Nat
  BY FS_Subset, FS_CardinalityType
<1>2. \A T \in SUBSET S : T # {} => One(T) \in T /\ T \ {One(T)} \in SUBSET S
                            /\ Cardinality(T \ {One(T)}) = Cardinality(T) - 1
  BY <1>1, FS_RemoveElement
<1> HIDE DEF One
<1>3. \E f : Sum(f, 0)
  <2>1. \A T \in Small(0) : T = {}
    BY <1>1, FS_EmptySet
  <2>2. Sum([T \in Small(0) |-> 0], 0)
    BY <2>1
  <2> QED  BY <2>2
<1>4. ASSUME NEW n \in Nat, NEW g, Sum(g, n) PROVE \E f : Sum(f, n + 1)
  <2> DEFINE f == [T \in Small(n + 1) |-> IF T = {} THEN 0 ELSE w[One(T)] + g[T \ {One(T)}]]
  <2>1. ASSUME NEW T \in Small(n + 1), T # {} PROVE f[T \ {One(T)}] = g[T \ {One(T)}]
    <3> DEFINE U == T \ {One(T)}
    <3>1. U \in Small(n) /\ U \in Small(n + 1)
      BY <1>1, <1>2, <2>1
    <3>2. f[U] = IF U = {} THEN 0 ELSE w[One(U)] + g[U \ {One(U)}]
      BY <3>1
    <3>3. g[U] = IF U = {} THEN 0 ELSE w[One(U)] + g[U \ {One(U)}]
      BY <1>4, <3>1
    <3> QED  BY <3>2, <3>3
  <2>2. f = [T \in Small(n + 1) |-> IF T = {} THEN 0 ELSE w[One(T)] + f[T \ {One(T)}]]
    BY <2>1
  <2> QED  BY <2>2
<1> HIDE DEF Sum
<1>5. Bad = {}
  <2> SUFFICES ASSUME Bad # {} PROVE FALSE
    OBVIOUS
  <2>1. PICK n \in Bad : \A m \in Bad : n <= m
    BY LeastNumber
  <2>2. n # 0 /\ n - 1 \in Nat /\ n - 1 \notin Bad
    BY <1>3, <2>1
  <2>3. \E f : Sum(f, (n - 1) + 1)
    BY <1>4, <2>2
  <2> QED  BY <2>1, <2>3
<1>6. PICK f : Sum(f, Cardinality(S))
  BY <1>1, <1>5
<1>7. Small(Cardinality(S)) = SUBSET S
  BY FS_Subset, <1>1
<1>8. IsSum(f, S, w)
  BY <1>6, <1>7 DEF Sum, One, IsSum
<1> QED  BY <1>8

LEMMA SumTyped ==
    ASSUME NEW S, IsFiniteSet(S), NEW w, \A s \in S : w[s] \in Nat, NEW sum, IsSum(sum, S, w)
    PROVE  /\ sum[S] \in Nat
           /\ S # {} /\ (\A s \in S : w[s] > 0) => sum[S] > 0
<1> DEFINE One(T) == CHOOSE x \in T : TRUE
           Odd == {T \in SUBSET S : ~(sum[T] \in Nat)}
           Sizes == {Cardinality(T) : T \in Odd}
<1>1. \A T \in SUBSET S : IsFiniteSet(T) /\ Cardinality(T) \in Nat
  BY FS_Subset, FS_CardinalityType
<1>2. \A T \in SUBSET S : T # {} => One(T) \in T /\ T \ {One(T)} \in SUBSET S
                            /\ Cardinality(T \ {One(T)}) = Cardinality(T) - 1
  BY <1>1, FS_RemoveElement
<1>3. sum[{}] = 0
  BY DEF IsSum
<1>4. \A T \in SUBSET S : T # {} => sum[T] = w[One(T)] + sum[T \ {One(T)}]
  BY DEF IsSum
<1> HIDE DEF One
<1>5. ASSUME NEW T \in Odd PROVE T # {} /\ T \ {One(T)} \in Odd
  <2>1. T # {}
    BY <1>3, <1>5
  <2>2. One(T) \in S /\ T \ {One(T)} \in SUBSET S
    BY <1>2, <2>1, <1>5
  <2>3. sum[T] = w[One(T)] + sum[T \ {One(T)}] /\ w[One(T)] \in Nat
    BY <1>4, <2>1, <2>2, <1>5
  <2>4. sum[T \ {One(T)}] \in Nat => sum[T] \in Nat
    BY <2>3
  <2> QED  BY <2>1, <2>2, <2>4, <1>5
<1>6. Odd = {}
  <2> SUFFICES ASSUME Odd # {} PROVE FALSE
    OBVIOUS
  <2>1. \A T \in Odd : T \in SUBSET S
    OBVIOUS
  <2> HIDE DEF Odd
  <2>2. Sizes \in SUBSET Nat /\ Sizes # {}
    BY <1>1, <2>1
  <2>3. PICK n \in Sizes : \A m \in Sizes : n <= m
    BY <2>2, LeastNumber
  <2>4. PICK T \in Odd : n = Cardinality(T)
    BY <2>3
  <2>5. T # {} /\ T \ {One(T)} \in Odd
    BY <1>5
  <2>6. Cardinality(T \ {One(T)}) = n - 1 /\ n \in Nat /\ Cardinality(T \ {One(T)}) \in Sizes
    BY <1>1, <1>2, <2>1, <2>4, <2>5
  <2> QED  BY <2>3, <2>6
<1>7. sum[S] \in Nat
  BY <1>6
<1>8. ASSUME S # {}, \A s \in S : w[s] > 0 PROVE sum[S] > 0
  <2>1. sum[S] = w[One(S)] + sum[S \ {One(S)}] /\ One(S) \in S /\ S \ {One(S)} \in SUBSET S
    BY <1>2, <1>4, <1>8
  <2>2. sum[S \ {One(S)}] \in Nat
    BY <1>6, <2>1
  <2>3. w[One(S)] \in Nat /\ w[One(S)] > 0
    BY <1>8, <2>1
  <2> QED  BY <2>1, <2>2, <2>3
<1> QED  BY <1>7, <1>8

LEMMA TotalTyped ==
    ASSUME NEW S, IsFiniteSet(S), NEW w, \A s \in S : w[s] \in Nat
    PROVE  /\ Total(S, w) \in Nat
           /\ S # {} /\ (\A s \in S : w[s] > 0) => Total(S, w) > 0
<1> DEFINE sum == CHOOSE f : IsSum(f, S, w)
<1>1. Total(S, w) = sum[S]
  BY DEF Total, MapThenFoldSet, IsSum
<1>2. IsSum(sum, S, w)
  BY SumExists
<1> HIDE DEF sum
<1> QED  BY <1>1, <1>2, SumTyped

LEMMA QuotientTyped == ASSUME NEW n \in Nat, NEW d \in Nat \ {0} PROVE n \div d \in Nat
  OBVIOUS

LEMMA RoundedTyped == ASSUME NEW n \in Nat, NEW d \in Nat \ {0} PROVE Rounded(n, d) \in Nat
  BY QuotientTyped, 2 * n + d \in Nat, 2 * d \in Nat \ {0} DEF Rounded

LEMMA DemandTyped ==
    ASSUME NEW tok, IsFiniteSet(DOMAIN tok), \A s \in DOMAIN tok : tok[s] \in Nat
    PROVE  DemandWeights(tok) \in [DOMAIN tok -> Nat]
<1> DEFINE seen == {s \in DOMAIN tok : tok[s] > 0}
           mean == IF seen = {} THEN 100 ELSE Rounded(100 * Total(seen, tok), Cardinality(seen))
<1>1. IsFiniteSet(seen) /\ Cardinality(seen) \in Nat /\ (seen # {} => Cardinality(seen) # 0)
  BY FS_Subset, FS_CardinalityType, FS_EmptySet
<1>2. Total(seen, tok) \in Nat
  BY <1>1, TotalTyped
<1>3. mean \in Nat
  BY <1>1, <1>2, RoundedTyped, 100 * Total(seen, tok) \in Nat
<1>4. DemandWeights(tok) = [s \in DOMAIN tok |->
                             IF tok[s] > 0 THEN 100 * tok[s] ELSE IF mean < 100 THEN 100 ELSE mean]
  BY DEF DemandWeights
<1> HIDE DEF mean
<1> QED  BY <1>3, <1>4

(* What the planner is given. *)
PlanInput(labels, give, short, weights) ==
    /\ IsFiniteSet(labels) /\ labels # {} /\ labels \subseteq Nat
    /\ \A l \in labels : give[l] \in Nat \ {0} /\ short[l] \in Nat
    /\ IsFiniteSet(DOMAIN weights) /\ DOMAIN weights \subseteq Nat
    /\ \A s \in DOMAIN weights : weights[s] \in Nat

CandidateRecord ==
    [label : Nat, left : Nat \ {0}, projected : Nat, count : Nat, overflow : Nat]

LEMMA CandidateTyped ==
    ASSUME NEW labels, NEW give, NEW short, NEW weights, PlanInput(labels, give, short, weights),
           NEW l \in labels, NEW weight \in Nat, NEW placed, DOMAIN placed \subseteq DOMAIN weights
    PROVE  /\ Candidate(l, weight, labels, give, weights, placed) \in CandidateRecord
           /\ Candidate(l, weight, labels, give, weights, placed).label = l
<1> DEFINE on == {s \in DOMAIN placed : placed[s] = l}
           all == Total(labels, give)
           projected == Total(on, weights) + weight
           share == give[l] * Total(DOMAIN weights, weights)
           over == IF projected * all > share THEN Rounded(projected * all - share, all) ELSE 0
<1>1. on \subseteq DOMAIN weights /\ IsFiniteSet(on) /\ Cardinality(on) \in Nat
  BY FS_Subset, FS_CardinalityType DEF PlanInput
<1>2. Total(on, weights) \in Nat /\ Total(DOMAIN weights, weights) \in Nat
  BY <1>1, TotalTyped DEF PlanInput
<1>3. all \in Nat \ {0}
  <2>1. IsFiniteSet(labels) /\ labels # {} /\ \A x \in labels : give[x] \in Nat /\ give[x] > 0
    BY DEF PlanInput
  <2>2. all \in Nat /\ all > 0
    BY <2>1, TotalTyped
  <2> QED  BY <2>2
<1> HIDE DEF on, all
<1>4. projected \in Nat
  BY <1>2
<1>5. share \in Nat
  BY <1>2 DEF PlanInput
<1>6. over \in Nat
  <2> HIDE DEF projected, share
  <2>1. projected * all \in Nat
    BY <1>3, <1>4
  <2>2. projected * all > share => projected * all - share \in Nat
    BY <2>1, <1>5
  <2> QED  BY <1>3, <2>2, RoundedTyped
<1>7. Candidate(l, weight, labels, give, weights, placed)
        = [label |-> l, left |-> give[l], projected |-> projected, count |-> Cardinality(on), overflow |-> over]
  BY DEF Candidate, on, all
<1> HIDE DEF projected, over
<1> QED  BY <1>1, <1>4, <1>6, <1>7 DEF PlanInput, CandidateRecord

(* Ratios of demand to headroom compare as numbers do. *)
LEMMA RatioOrder ==
    ASSUME NEW p \in Nat, NEW q \in Nat, NEW r \in Nat,
           NEW l \in Nat \ {0}, NEW m \in Nat \ {0}, NEW k \in Nat \ {0},
           p * m <= q * l, q * k <= r * m
    PROVE  /\ p * k <= r * l
           /\ p * k = r * l => p * m = q * l /\ q * k = r * m
<1>1. (p * m) * k <= (q * l) * k
  BY p * m \in Nat, q * l \in Nat
<1>2. (q * k) * l <= (r * m) * l
  BY q * k \in Nat, r * m \in Nat
<1>3. m * (p * k) = (p * m) * k /\ m * (r * l) = (r * m) * l /\ (q * l) * k = (q * k) * l
  OBVIOUS
<1>4. m * (p * k) <= m * (r * l)
  BY <1>1, <1>2, <1>3
<1>5. ASSUME NEW x \in Nat, NEW y \in Nat, m * x <= m * y PROVE x <= y
  BY <1>5
<1>6. ASSUME NEW x \in Nat, NEW y \in Nat, NEW n \in Nat \ {0}, x * n = y * n PROVE x = y
  BY <1>6
<1>7. p * k <= r * l
  BY <1>4, <1>5, p * k \in Nat, r * l \in Nat
<1>8. ASSUME p * k = r * l PROVE p * m = q * l /\ q * k = r * m
  <2>1. (p * m) * k = (q * l) * k /\ (q * k) * l = (r * m) * l
    BY <1>1, <1>2, <1>3, <1>8
  <2> QED  BY <2>1, <1>6, p * m \in Nat, q * l \in Nat, q * k \in Nat, r * m \in Nat
<1> QED  BY <1>7, <1>8

LEMMA PreferredCompares ==
    ASSUME NEW a \in CandidateRecord, NEW b \in CandidateRecord, NEW short,
           short[a.label] \in Nat, short[b.label] \in Nat
    PROVE  Preferred(a, b, short) \/ Preferred(b, a, short)
<1>1. a.projected * b.left \in Nat /\ b.projected * a.left \in Nat
  BY DEF CandidateRecord
<1> QED  BY <1>1 DEF Preferred, CandidateRecord

LEMMA PreferredTransitive ==
    ASSUME NEW a \in CandidateRecord, NEW b \in CandidateRecord, NEW c \in CandidateRecord, NEW short,
           short[a.label] \in Nat, short[b.label] \in Nat, short[c.label] \in Nat,
           Preferred(a, b, short), Preferred(b, c, short)
    PROVE  Preferred(a, c, short)
<1> DEFINE ab == a.projected * b.left   ba == b.projected * a.left
           bc == b.projected * c.left   cb == c.projected * b.left
           ac == a.projected * c.left   ca == c.projected * a.left
<1>1. /\ ab \in Nat /\ ba \in Nat /\ bc \in Nat /\ cb \in Nat /\ ac \in Nat /\ ca \in Nat
  BY DEF CandidateRecord
<1>2. ASSUME ab <= ba, bc <= cb PROVE ac <= ca /\ (ac = ca => ab = ba /\ bc = cb)
  <2> DEFINE p == a.projected   q == b.projected   r == c.projected
             l == a.left   m == b.left   k == c.left
  <2>1. /\ p \in Nat /\ q \in Nat /\ r \in Nat
        /\ l \in Nat \ {0} /\ m \in Nat \ {0} /\ k \in Nat \ {0}
    BY DEF CandidateRecord
  <2>2. p * m <= q * l /\ q * k <= r * m
    BY <1>2
  <2> HIDE DEF p, q, r, l, m, k
  <2>3. p * k <= r * l /\ (p * k = r * l => p * m = q * l /\ q * k = r * m)
    BY <2>1, <2>2, RatioOrder
  <2> QED  BY <2>3 DEF p, q, r, l, m, k
<1>3. /\ a.overflow \in Nat /\ b.overflow \in Nat /\ c.overflow \in Nat
      /\ a.left \in Nat /\ b.left \in Nat /\ c.left \in Nat
      /\ a.count \in Nat /\ b.count \in Nat /\ c.count \in Nat
      /\ a.label \in Nat /\ b.label \in Nat /\ c.label \in Nat
  BY DEF CandidateRecord
<1> DEFINE Rest(x, y) == \/ x.left > y.left
                         \/ /\ x.left = y.left
                            /\ \/ short[x.label] > short[y.label]
                               \/ /\ short[x.label] = short[y.label]
                                  /\ \/ x.count < y.count
                                     \/ x.count = y.count /\ x.label <= y.label
<1>4. /\ a.overflow < b.overflow \/ (a.overflow = b.overflow /\ (ab < ba \/ (ab = ba /\ Rest(a, b))))
      /\ b.overflow < c.overflow \/ (b.overflow = c.overflow /\ (bc < cb \/ (bc = cb /\ Rest(b, c))))
  BY DEF Preferred
<1>5. Rest(a, b) /\ Rest(b, c) => Rest(a, c)
  BY <1>3
<1> HIDE DEF Rest, ab, ba, bc, cb, ac, ca
<1>6. a.overflow < c.overflow \/ (a.overflow = c.overflow /\ (ac < ca \/ (ac = ca /\ Rest(a, c))))
  <2>1. CASE a.overflow < b.overflow \/ b.overflow < c.overflow
    BY <1>3, <1>4, <2>1
  <2>2. CASE a.overflow = b.overflow /\ b.overflow = c.overflow
    <3>1. ab <= ba /\ bc <= cb
      BY <1>1, <1>3, <1>4, <2>2
    <3>2. ac < ca \/ ac = ca
      BY <1>1, <1>2, <3>1
    <3>3. ac = ca => Rest(a, c)
      BY <1>1, <1>2, <1>3, <1>4, <1>5, <2>2, <3>1
    <3> QED  BY <2>2, <3>2, <3>3
  <2> QED  BY <1>3, <1>4, <2>1, <2>2
<1> QED  BY <1>6 DEF Preferred, Rest, ac, ca

(* Of the candidates one is preferred to all. *)
LEMMA BestCandidate ==
    ASSUME NEW C, IsFiniteSet(C), C # {}, C \subseteq CandidateRecord, NEW short,
           \A a \in C : short[a.label] \in Nat
    PROVE  \E a \in C : \A b \in C : Preferred(a, b, short)
<1> DEFINE R == {p \in C \X C : Preferred(p[1], p[2], short)}
<1>1. \A a, b \in C : <<a, b>> \in R <=> Preferred(a, b, short)
  OBVIOUS
<1> HIDE DEF R
<1>2. \A a, b \in C : <<a, b>> \in R \/ <<b, a>> \in R
  BY <1>1, PreferredCompares
<1>3. \A a, b, c \in C : <<a, b>> \in R /\ <<b, c>> \in R => <<a, c>> \in R
  <2> SUFFICES ASSUME NEW a \in C, NEW b \in C, NEW c \in C, <<a, b>> \in R, <<b, c>> \in R
               PROVE  <<a, c>> \in R
    OBVIOUS
  <2>1. Preferred(a, b, short) /\ Preferred(b, c, short)
    BY <1>1
  <2>2. Preferred(a, c, short)
    BY <2>1, PreferredTransitive
  <2> QED  BY <1>1, <2>2
<1>4. PICK a \in C : \A b \in C : <<a, b>> \in R
  BY <1>2, <1>3, LeastMember
<1> QED  BY <1>1, <1>4

(* The next subject to be placed is one of those that are left. *)
LEMMA NextIsLeft ==
    ASSUME NEW S, IsFiniteSet(S), S # {}, S \subseteq Nat, NEW labels, NEW weights, NEW current,
           \A s \in S : weights[s] \in Nat
    PROVE  /\ NextPlanned(S, labels, weights, current) \in S
           /\ \A t \in S : Earlier(NextPlanned(S, labels, weights, current), t, labels, weights, current)
<1> DEFINE E(a, b) == Earlier(a, b, labels, weights, current)
           R == {p \in S \X S : E(p[1], p[2])}
<1>1. \A a, b \in S : <<a, b>> \in R <=> E(a, b)
  OBVIOUS
<1>2. \A a, b \in S : E(a, b) \/ E(b, a)
  BY DEF Earlier
<1>3. \A a, b, c \in S : E(a, b) /\ E(b, c) => E(a, c)
  <2> SUFFICES ASSUME NEW a \in S, NEW b \in S, NEW c \in S, E(a, b), E(b, c) PROVE E(a, c)
    OBVIOUS
  <2>1. /\ a \in Nat /\ b \in Nat /\ c \in Nat
        /\ weights[a] \in Nat /\ weights[b] \in Nat /\ weights[c] \in Nat
    OBVIOUS
  <2> QED  BY <2>1 DEF Earlier
<1> HIDE DEF R, E
<1>4. PICK a \in S : \A b \in S : <<a, b>> \in R
  BY <1>1, <1>2, <1>3, LeastMember
<1>5. \E s \in S : \A t \in S : E(s, t)
  BY <1>1, <1>4
<1>6. /\ NextPlanned(S, labels, weights, current) \in S
      /\ \A t \in S : E(NextPlanned(S, labels, weights, current), t)
  BY <1>5 DEF NextPlanned, E
<1> QED  BY <1>6 DEF E

(* The planner chooses among the eligible labels. *)
LEMMA SelectionEligible ==
    ASSUME NEW labels, NEW give, NEW short, NEW weights, PlanInput(labels, give, short, weights),
           NEW current, NEW s \in DOMAIN weights, NEW placed, DOMAIN placed \subseteq DOMAIN weights
    PROVE  Selection(s, placed, labels, give, short, weights, current) \in labels
<1> DEFINE cand == [l \in labels |-> Candidate(l, weights[s], labels, give, weights, placed)]
           C == {Candidate(l, weights[s], labels, give, weights, placed) : l \in labels}
           best == CHOOSE a \in C : \A b \in C : Preferred(a, b, short)
           kept == \E c \in C : c.label = current[s]
                                   /\ KeepsCurrent(c, best, weights[s], labels, give, weights)
<1>1. Selection(s, placed, labels, give, short, weights, current)
        = IF kept THEN current[s] ELSE best.label
  BY DEF Selection
<1>2. ASSUME NEW l \in labels
      PROVE  /\ Candidate(l, weights[s], labels, give, weights, placed) \in CandidateRecord
             /\ Candidate(l, weights[s], labels, give, weights, placed).label = l
  <2>1. weights[s] \in Nat
    BY DEF PlanInput
  <2> QED  BY <2>1, CandidateTyped
<1>3. \A c \in C : c \in CandidateRecord /\ c.label \in labels
  BY <1>2
<1>4. IsFiniteSet(C) /\ C # {}
  <2>1. cand \in [labels -> C] /\ \A c \in C : \E l \in labels : cand[l] = c
    OBVIOUS
  <2> HIDE DEF cand, C
  <2>2. cand \in Surjection(labels, C)
    BY <2>1 DEF Surjection
  <2>3. IsFiniteSet(labels) /\ labels # {}
    BY DEF PlanInput
  <2>4. \A l \in labels : cand[l] \in C
    BY <2>1
  <2> QED  BY <2>2, <2>3, <2>4, FS_Surjection
<1> HIDE DEF C
<1>5. \E a \in C : \A b \in C : Preferred(a, b, short)
  BY <1>3, <1>4, BestCandidate DEF PlanInput
<1>6. best \in C
  BY <1>5
<1> HIDE DEF best
<1>7. best.label \in labels
  BY <1>3, <1>6
<1>8. kept => current[s] \in labels
  BY <1>3
<1> QED  BY <1>1, <1>7, <1>8

(* The planner places every subject, on an eligible label. *)
PlacedNext(placed, labels, give, short, weights, current) ==
    LET s == NextPlanned(DOMAIN weights \ DOMAIN placed, labels, weights, current)
    IN  [t \in DOMAIN placed \cup {s} |->
            IF t = s THEN Selection(s, placed, labels, give, short, weights, current)
            ELSE placed[t]]

IsPlacing(f, n, labels, give, short, weights, current) ==
    f = [m \in 0..n |-> IF m = 0 THEN [t \in {} |-> 0]
                        ELSE PlacedNext(f[m - 1], labels, give, short, weights, current)]

LEMMA PlacingExists ==
    ASSUME NEW N \in Nat, NEW labels, NEW give, NEW short, NEW weights, NEW current
    PROVE  \E f : IsPlacing(f, N, labels, give, short, weights, current)
<1> DEFINE Next(p) == PlacedNext(p, labels, give, short, weights, current)
           Is(f, n) == IsPlacing(f, n, labels, give, short, weights, current)
           Bad == {n \in Nat : ~(\E f : Is(f, n))}
<1>1. \A f, n : Is(f, n) <=> f = [m \in 0..n |-> IF m = 0 THEN [t \in {} |-> 0] ELSE Next(f[m - 1])]
  BY DEF IsPlacing
<1> HIDE DEF Next, Is
<1>2. \E f : Is(f, 0)
  <2> DEFINE f == [m \in 0..0 |-> [t \in {} |-> 0]]
  <2>1. f = [m \in 0..0 |-> IF m = 0 THEN [t \in {} |-> 0] ELSE Next(f[m - 1])]
    <3>1. \A m \in 0..0 : m = 0
      OBVIOUS
    <3> QED  BY <3>1
  <2>2. Is(f, 0)
    BY <1>1, <2>1
  <2> QED  BY <2>2
<1>3. ASSUME NEW n \in Nat, NEW g, Is(g, n) PROVE \E f : Is(f, n + 1)
  <2> DEFINE f == [m \in 0..(n + 1) |-> IF m = 0 THEN [t \in {} |-> 0] ELSE Next(g[m - 1])]
  <2>1. g = [m \in 0..n |-> IF m = 0 THEN [t \in {} |-> 0] ELSE Next(g[m - 1])]
    BY <1>1, <1>3
  <2>2. ASSUME NEW m \in 0..(n + 1), m # 0 PROVE f[m - 1] = g[m - 1]
    <3>1. m - 1 \in 0..n /\ m - 1 \in 0..(n + 1)
      BY <2>2
    <3>2. g[m - 1] = IF m - 1 = 0 THEN [t \in {} |-> 0] ELSE Next(g[m - 1 - 1])
      BY <2>1, <3>1
    <3> QED  BY <3>1, <3>2
  <2>3. f = [m \in 0..(n + 1) |-> IF m = 0 THEN [t \in {} |-> 0] ELSE Next(f[m - 1])]
    BY <2>2
  <2>4. Is(f, n + 1)
    BY <1>1, <2>3
  <2> QED  BY <2>4
<1>4. Bad = {}
  <2> SUFFICES ASSUME Bad # {} PROVE FALSE
    OBVIOUS
  <2>1. PICK n \in Bad : \A m \in Bad : n <= m
    BY LeastNumber
  <2>2. n # 0 /\ n - 1 \in Nat /\ n - 1 \notin Bad
    BY <1>2, <2>1
  <2>3. \E f : Is(f, (n - 1) + 1)
    BY <1>3, <2>2
  <2> QED  BY <2>1, <2>3
<1> QED  BY <1>4 DEF Is

LEMMA PlacingTyped ==
    ASSUME NEW labels, NEW give, NEW short, NEW weights, PlanInput(labels, give, short, weights),
           NEW current, NEW f, NEW N, N = Cardinality(DOMAIN weights),
           IsPlacing(f, N, labels, give, short, weights, current)
    PROVE  /\ \A n \in 0..N : DOMAIN f[n] \subseteq DOMAIN weights
           /\ \A n \in 1..N : NextPlanned(DOMAIN weights \ DOMAIN f[n - 1], labels, weights, current)
                                 \in DOMAIN weights \ DOMAIN f[n - 1]
           /\ f[N] \in [DOMAIN weights -> labels]
<1> DEFINE Good(n) == /\ DOMAIN f[n] \subseteq DOMAIN weights
                      /\ Cardinality(DOMAIN f[n]) = n
                      /\ f[n] \in [DOMAIN f[n] -> labels]
           Bad == {n \in 0..N : ~Good(n)}
<1>1. N \in Nat /\ IsFiniteSet(DOMAIN weights) /\ DOMAIN weights \subseteq Nat
  BY FS_CardinalityType DEF PlanInput
<1>2. f[0] = [t \in {} |-> 0]
  BY <1>1 DEF IsPlacing
<1>3. \A n \in 1..N : f[n] = PlacedNext(f[n - 1], labels, give, short, weights, current)
  BY <1>1 DEF IsPlacing
<1>4. Good(0)
  BY <1>2, FS_EmptySet
<1>5. ASSUME NEW n \in 1..N, Good(n - 1)
      PROVE  NextPlanned(DOMAIN weights \ DOMAIN f[n - 1], labels, weights, current)
                \in DOMAIN weights \ DOMAIN f[n - 1]
  <2> DEFINE rest == DOMAIN weights \ DOMAIN f[n - 1]
  <2>1. IsFiniteSet(rest) /\ rest \subseteq Nat /\ \A x \in rest : weights[x] \in Nat
    BY <1>1, FS_Subset DEF PlanInput
  <2>2. rest # {}
    BY <1>5
  <2> QED  BY <2>1, <2>2, NextIsLeft
<1>6. ASSUME NEW n \in 1..N, Good(n - 1) PROVE Good(n)
  <2> DEFINE p == f[n - 1]
             s == NextPlanned(DOMAIN weights \ DOMAIN p, labels, weights, current)
             l == Selection(s, p, labels, give, short, weights, current)
  <2>1. s \in DOMAIN weights \ DOMAIN p
    BY <1>5, <1>6
  <2>2. l \in labels
    BY <1>6, <2>1, SelectionEligible
  <2>3. f[n] = [t \in DOMAIN p \cup {s} |-> IF t = s THEN l ELSE p[t]]
    BY <1>3 DEF PlacedNext
  <2>4. IsFiniteSet(DOMAIN p)
    BY <1>1, <1>6, FS_Subset
  <2>5. s \notin DOMAIN p /\ Cardinality(DOMAIN p) = n - 1
    BY <1>6, <2>1
  <2> HIDE DEF s, l
  <2>6. Cardinality(DOMAIN p \cup {s}) = n
    <3> HIDE DEF p
    <3>1. Cardinality(DOMAIN p \cup {s}) = Cardinality(DOMAIN p) + 1
      BY <2>4, <2>5, FS_AddElement
    <3> QED  BY <2>5, <3>1
  <2> QED  BY <1>6, <2>1, <2>2, <2>3, <2>6
<1>7. \A n \in 0..N : Good(n)
  <2> HIDE DEF Good
  <2> SUFFICES ASSUME Bad # {} PROVE FALSE
    OBVIOUS
  <2>1. Bad \in SUBSET Nat
    BY <1>1
  <2>2. PICK n \in Bad : \A m \in Bad : n <= m
    BY <2>1, LeastNumber
  <2>3. n \in 1..N /\ n - 1 \in 0..N /\ n - 1 \notin Bad
    BY <1>1, <1>4, <2>2
  <2> QED  BY <1>6, <2>2, <2>3
<1>8. \A n \in 1..N : n - 1 \in 0..N
  BY <1>1
<1>9. Good(N)
  BY <1>1, <1>7
<1>10. DOMAIN f[N] = DOMAIN weights
  BY <1>1, <1>9, FS_Subset
<1> QED  BY <1>5, <1>7, <1>8, <1>9, <1>10

(* The planner puts every subject on an eligible label. *)
THEOREM EverySubjectPlaced ==
    ASSUME NEW labels, NEW give, NEW short, NEW weights, PlanInput(labels, give, short, weights),
           NEW current
    PROVE  PlanAssignments(labels, give, short, weights, current) \in [DOMAIN weights -> labels]
<1> DEFINE N == Cardinality(DOMAIN weights)
           f == CHOOSE g : IsPlacing(g, N, labels, give, short, weights, current)
<1>1. PlanAssignments(labels, give, short, weights, current) = f[N]
  BY DEF PlanAssignments, IsPlacing, PlacedNext
<1>2. N \in Nat
  BY FS_CardinalityType DEF PlanInput
<1>3. IsPlacing(f, N, labels, give, short, weights, current)
  BY <1>2, PlacingExists
<1> HIDE DEF f
<1> QED  BY <1>1, <1>3, PlacingTyped

(* Once every subject has an eligible label, the order of planning is that of demand. *)
LEMMA NextIsSame ==
    ASSUME NEW S, IsFiniteSet(S), S # {}, S \subseteq Nat, NEW labels, NEW weights, NEW c, NEW d,
           \A s \in S : weights[s] \in Nat /\ c[s] \in labels /\ d[s] \in labels
    PROVE  NextPlanned(S, labels, weights, c) = NextPlanned(S, labels, weights, d)
<1> DEFINE x == NextPlanned(S, labels, weights, c)
           y == NextPlanned(S, labels, weights, d)
<1>1. x \in S /\ y \in S /\ Earlier(x, y, labels, weights, c) /\ Earlier(y, x, labels, weights, d)
  BY NextIsLeft
<1> HIDE DEF x, y
<1>2. x = y
  BY <1>1 DEF Earlier
<1> QED  BY <1>2 DEF x, y

(* What was selected for a subject is selected again. *)
LEMMA SelectionAgain ==
    ASSUME NEW labels, NEW give, NEW short, NEW weights, NEW s, NEW placed, NEW c, NEW d,
           d[s] = c[s] \/ d[s] = Selection(s, placed, labels, give, short, weights, c)
    PROVE  Selection(s, placed, labels, give, short, weights, d)
             = Selection(s, placed, labels, give, short, weights, c)
<1> DEFINE C == {Candidate(l, weights[s], labels, give, weights, placed) : l \in labels}
           best == CHOOSE a \in C : \A b \in C : Preferred(a, b, short)
           Kept(l) == \E k \in C : k.label = l /\ KeepsCurrent(k, best, weights[s], labels, give, weights)
<1>1. /\ Selection(s, placed, labels, give, short, weights, c) = IF Kept(c[s]) THEN c[s] ELSE best.label
      /\ Selection(s, placed, labels, give, short, weights, d) = IF Kept(d[s]) THEN d[s] ELSE best.label
  BY DEF Selection
<1> HIDE DEF Kept, best
<1> QED  BY <1>1

LEMMA PlacedStays ==
    ASSUME NEW labels, NEW give, NEW short, NEW weights, NEW current, NEW f, NEW N \in Nat,
           IsPlacing(f, N, labels, give, short, weights, current),
           \A n \in 1..N : NextPlanned(DOMAIN weights \ DOMAIN f[n - 1], labels, weights, current)
                              \notin DOMAIN f[n - 1],
           NEW n \in 0..N, NEW s \in DOMAIN f[n]
    PROVE  s \in DOMAIN f[N] /\ f[N][s] = f[n][s]
<1> DEFINE Lost == {m \in 0..N : n <= m /\ ~(s \in DOMAIN f[m] /\ f[m][s] = f[n][s])}
<1>1. Lost = {}
  <2> SUFFICES ASSUME Lost # {} PROVE FALSE
    OBVIOUS
  <2>1. Lost \in SUBSET Nat
    OBVIOUS
  <2>2. PICK m \in Lost : \A k \in Lost : m <= k
    BY <2>1, LeastNumber
  <2>3. m # n /\ m \in 1..N /\ m - 1 \in 0..N /\ n <= m - 1
    BY <2>2
  <2>4. s \in DOMAIN f[m - 1] /\ f[m - 1][s] = f[n][s]
    BY <2>2, <2>3
  <2>5. f[m] = PlacedNext(f[m - 1], labels, give, short, weights, current)
    BY <2>3 DEF IsPlacing
  <2>6. s # NextPlanned(DOMAIN weights \ DOMAIN f[m - 1], labels, weights, current)
    BY <2>3, <2>4
  <2>7. s \in DOMAIN f[m] /\ f[m][s] = f[m - 1][s]
    BY <2>4, <2>5, <2>6 DEF PlacedNext
  <2> QED  BY <2>2, <2>4, <2>7
<1> QED  BY <1>1

(* A plan that is made again, from the labels that it gave or was made from, is the *)
(* same plan, once every subject had an eligible label.                             *)
THEOREM PlanSettles ==
    ASSUME NEW labels, NEW give, NEW short, NEW weights, PlanInput(labels, give, short, weights),
           NEW c, NEW d, \A s \in DOMAIN weights :
             /\ c[s] \in labels
             /\ d[s] \in {c[s], PlanAssignments(labels, give, short, weights, c)[s]}
    PROVE  PlanAssignments(labels, give, short, weights, d) = PlanAssignments(labels, give, short, weights, c)
<1> DEFINE N == Cardinality(DOMAIN weights)
           f == CHOOSE h : IsPlacing(h, N, labels, give, short, weights, c)
           g == CHOOSE h : IsPlacing(h, N, labels, give, short, weights, d)
<1>1. /\ PlanAssignments(labels, give, short, weights, c) = f[N]
      /\ PlanAssignments(labels, give, short, weights, d) = g[N]
  BY DEF PlanAssignments, IsPlacing, PlacedNext
<1>2. N \in Nat /\ IsFiniteSet(DOMAIN weights) /\ DOMAIN weights \subseteq Nat
      /\ \A s \in DOMAIN weights : weights[s] \in Nat
  BY FS_CardinalityType DEF PlanInput
<1>3. /\ IsPlacing(f, N, labels, give, short, weights, c)
      /\ IsPlacing(g, N, labels, give, short, weights, d)
  BY <1>2, PlacingExists
<1> HIDE DEF f, g
<1>4. /\ \A n \in 0..N : DOMAIN f[n] \subseteq DOMAIN weights
      /\ \A n \in 1..N : NextPlanned(DOMAIN weights \ DOMAIN f[n - 1], labels, weights, c)
                            \in DOMAIN weights \ DOMAIN f[n - 1]
      /\ f[N] \in [DOMAIN weights -> labels]
  BY <1>3, PlacingTyped
<1> HIDE DEF N
<1>5. \A s \in DOMAIN weights : c[s] \in labels /\ d[s] \in labels /\ d[s] \in {c[s], f[N][s]}
  BY <1>1, <1>4
<1>6. ASSUME NEW n \in 1..N, f[n - 1] = g[n - 1] PROVE f[n] = g[n]
  <2> DEFINE p == f[n - 1]
             rest == DOMAIN weights \ DOMAIN p
             s == NextPlanned(rest, labels, weights, c)
             l == Selection(s, p, labels, give, short, weights, c)
  <2>1. s \in rest
    BY <1>4
  <2>2. /\ f[n] = PlacedNext(p, labels, give, short, weights, c)
        /\ g[n] = PlacedNext(p, labels, give, short, weights, d)
    BY <1>2, <1>3, <1>6 DEF IsPlacing
  <2>3. IsFiniteSet(rest) /\ rest \subseteq DOMAIN weights
    BY <1>2, FS_Subset
  <2>4. NextPlanned(rest, labels, weights, d) = s
    <3> HIDE DEF rest
    <3>1. rest # {} /\ rest \subseteq Nat
      BY <1>2, <2>1, <2>3
    <3>2. \A x \in rest : weights[x] \in Nat /\ c[x] \in labels /\ d[x] \in labels
      BY <1>2, <1>5, <2>3
    <3> QED  BY <2>3, <3>1, <3>2, NextIsSame
  <2>5. f[n] = [t \in DOMAIN p \cup {s} |-> IF t = s THEN l ELSE p[t]]
    BY <2>2 DEF PlacedNext
  <2>6. g[n] = [t \in DOMAIN p \cup {s} |->
                   IF t = s THEN Selection(s, p, labels, give, short, weights, d) ELSE p[t]]
    BY <2>2, <2>4 DEF PlacedNext
  <2>7. f[N][s] = l
    <3>1. s \in DOMAIN f[n] /\ f[n][s] = l
      BY <2>5
    <3>2. \A k \in 1..N : NextPlanned(DOMAIN weights \ DOMAIN f[k - 1], labels, weights, c)
                            \notin DOMAIN f[k - 1]
      BY <1>4
    <3>3. n \in 0..N
      BY <1>2
    <3> HIDE DEF s, l, p
    <3> QED  BY <1>2, <1>3, <3>1, <3>2, <3>3, PlacedStays
  <2>8. s \in DOMAIN weights
    BY <2>1
  <2> HIDE DEF s, p, rest
  <2>9. d[s] = c[s] \/ d[s] = Selection(s, p, labels, give, short, weights, c)
    BY <1>5, <2>7, <2>8
  <2>10. Selection(s, p, labels, give, short, weights, d) = l
    BY <2>9, SelectionAgain
  <2> QED  BY <2>5, <2>6, <2>10
<1>7. f[0] = g[0]
  BY <1>2, <1>3 DEF IsPlacing
<1> DEFINE Bad == {n \in 0..N : f[n] # g[n]}
<1>8. Bad = {}
  <2> SUFFICES ASSUME Bad # {} PROVE FALSE
    OBVIOUS
  <2>1. Bad \in SUBSET Nat
    BY <1>2
  <2>2. PICK n \in Bad : \A m \in Bad : n <= m
    BY <2>1, LeastNumber
  <2>3. n \in 1..N /\ n - 1 \in 0..N /\ n - 1 \notin Bad
    BY <1>2, <1>7, <2>2
  <2> QED  BY <1>6, <2>2, <2>3
<1>9. f[N] = g[N]
  BY <1>2, <1>8
<1> QED  BY <1>1, <1>9

-----------------------------------------------------------------------------
(* Pi and Prime: the types, and what a command knows. *)

Ops == {"none", "use", "uninstall", "run", "rotate"}
Steps == {"idle", "select", "turn", "install", "put", "look", "remove", "unlink", "save",
          "launch", "hand"}
Place == Path \cup {Nowhere}
Entry == [kind : {"none", "native", "aim"}, of : Nat]
RootRecord == [label : Nat, past : Seq(Nat)]
WalkRecord == [past : Seq(Nat), among : SUBSET Labels(RootProvider)]
CmdRecord ==
    [pc : Steps, op : Ops, want : [Provider -> {"keep", "off", "use"}],
     chosen : [Provider -> Nat], env : Place, at : Place, turn : Provider,
     ready : [Provider -> SUBSET Nat], root : RootRecord, found : Nat, seen : BOOLEAN,
     wrote : BOOLEAN]

HarnessTypeOK ==
    /\ auth \in [Path -> [Provider -> Entry]]
    /\ lock \in [Path -> Command \cup {Nobody}]
    /\ backup \in [Provider -> Nat]
    /\ owned \in Place
    /\ ready \in [Provider -> SUBSET Nat] /\ \A p \in Provider : ready[p] \subseteq Labels(p)
    /\ root \in RootRecord
    /\ cmd \in [Command -> CmdRecord]
    /\ events \in Nat /\ born \in Nat
    /\ held \in [Provider -> [of : Nat, at : Place]]
    /\ calm \in BOOLEAN /\ whole \in BOOLEAN
    /\ walk \in WalkRecord

(* A command that has taken the turn of a provider and has not ended it. *)
AtWork == {"install", "put", "look", "remove", "unlink"}

(* What a command knows from its earlier steps: it has a file of its own, the *)
(* lock of it before it writes, and what it hands on is a choice of its root.   *)
CommandInv(c) ==
    /\ cmd[c].pc # "idle" => cmd[c].at \in Path /\ cmd[c].env \in Path
    /\ cmd[c].pc = "put" => lock[cmd[c].at] = c
    /\ cmd[c].pc \in {"install", "put"} => cmd[c].want[cmd[c].turn] # "off"
    /\ cmd[c].pc \in {"select", "hand"} => cmd[c].ready[RootProvider] \subseteq Labels(RootProvider)
    /\ cmd[c].pc \in {"select", "hand"} => ~cmd[c].wrote
    /\ cmd[c].pc = "select" /\ cmd[c].op = "rotate" => cmd[c].want[RootProvider] = "use"
    /\ cmd[c].pc = "hand" =>
         /\ cmd[c].chosen[RootProvider] # cmd[c].root.label
         /\ cmd[c].chosen[RootProvider] \in
              Choices(RootProvider, cmd[c].ready[RootProvider], cmd[c].root.label, cmd[c].root.past)

(* A lock is held by the command that is about to write the file. *)
LockInv == \A f \in Path, c \in Command : lock[f] = c => cmd[c].pc = "put" /\ cmd[c].at = f

(* As long as the commands are given one after the other one of them runs, and *)
(* the local state owns its file or none.                                       *)
Alone == \A c, d \in Command : cmd[c].pc # "idle" /\ cmd[d].pc # "idle" => c = d

OwnedInv(c) == cmd[c].pc # "idle" => owned \in {cmd[c].at, Nowhere}

(* An entry of AIM is in the file that the local state owns, or the command that *)
(* wrote it has yet to say so.                                                   *)
Writing(c) == cmd[c].pc \notin {"idle", "launch"} /\ cmd[c].wrote

FoundInv ==
    \A f \in Path, p \in Provider :
        auth[f][p].kind = "aim" => f = owned \/ \E c \in Command : Writing(c) /\ cmd[c].at = f

(* A login that was displaced is in the backup, and AIM in its place. *)
HeldInv ==
    \A p \in Provider : held[p] # NotHeld =>
        /\ held[p].at \in Path /\ auth[held[p].at][p].kind = "aim"
        /\ backup[p] = held[p].of

(* What the command has undone; and the login it moves is in the backup first. *)
Restored(c, q) == held[q] = NotHeld /\ auth[cmd[c].at][q].kind # "aim"

DoneInv(c) ==
    LET me == cmd[c] IN
    /\ me.pc = "put" /\ auth[me.at][me.turn].kind = "native" =>
          backup[me.turn] = auth[me.at][me.turn].of
    /\ me.pc = "remove" => me.found = backup[me.turn]
    /\ me.pc = "unlink" => Restored(c, me.turn)
    /\ \A q \in Provider :
          me.want[q] = "off" /\ (me.pc = "save" \/ (me.pc \in AtWork /\ q < me.turn)) => Restored(c, q)

(* All this holds as long as no command begins beside another, and the rest of it *)
(* as long as none stops before its record.                                       *)
CalmInv ==
    calm => /\ Alone
            /\ \A c \in Command : OwnedInv(c)
            /\ whole => FoundInv /\ HeldInv /\ \A c \in Command : DoneInv(c)

(* The walk is the end of the history that the root keeps. *)
WalkInv ==
    LET past == root.past   n == Len(root.past)   m == Len(walk.past) IN
    /\ m \in 1..n
    /\ root.label = past[n]
    /\ \A i \in 1..m : walk.past[i] = past[n - m + i]

-----------------------------------------------------------------------------
LEMMA ProvidersOrdered ==
    /\ Provider \subseteq Nat /\ 1 \in Provider
    /\ \A p \in Provider : p >= 1 /\ p \in Nat
    /\ \A p \in Provider : Labels(p) \subseteq Nat /\ 1 \in Labels(p)
BY ConstantsAssumption DEF Provider, Labels

(* Turn goes on to the first provider, from p on, that the command is for; *)
(* or to the end.                                                          *)
TurnTaken(c, p, me, x) ==
    /\ x.pc \in {"save", "look", "install"}
    /\ x.op = me.op /\ x.want = me.want /\ x.chosen = me.chosen /\ x.env = me.env
    /\ x.at = me.at /\ x.wrote = me.wrote /\ x.ready = me.ready /\ x.root = me.root
    /\ x.pc = "install" => me.want[x.turn] # "off"
    /\ \A q \in Provider :
          me.want[q] = "off" /\ q >= p => x.pc # "save" /\ x.turn <= q

LEMMA TurnTo ==
    ASSUME NEW c \in Command, NEW p \in Nat, cmd \in [Command -> CmdRecord],
           NEW me \in CmdRecord, me.want = cmd[c].want, Turn(c, p, me)
    PROVE  \E x \in CmdRecord : cmd' = [cmd EXCEPT ![c] = x] /\ TurnTaken(c, p, me, x)
<1> DEFINE later == {q \in Provider : q >= p /\ cmd[c].want[q] # "keep"}
           first == CHOOSE q \in later : \A r \in later : q <= r
           on == [me EXCEPT !.turn = first, !.seen = FALSE, !.found = 0,
                            !.pc = IF cmd[c].want[first] = "off" THEN "look" ELSE "install"]
           over == [me EXCEPT !.pc = "save"]
<1>1. CASE later = {}
  <2>1. cmd' = [cmd EXCEPT ![c] = over]
    BY <1>1 DEF Turn, Step
  <2>2. over \in CmdRecord
    BY DEF CmdRecord, Steps
  <2>3. TurnTaken(c, p, me, over)
    BY <1>1 DEF CmdRecord, TurnTaken
  <2> QED  BY <2>1, <2>2, <2>3
<1>2. CASE later # {}
  <2>1. cmd' = [cmd EXCEPT ![c] = on]
    BY <1>2 DEF Turn, Step
  <2>2. first \in later /\ \A r \in later : first <= r
    <3>1. later \in SUBSET Nat
      BY ProvidersOrdered
    <3> HIDE DEF later
    <3> QED  BY <1>2, <3>1, LeastNumber
  <2>3. on \in CmdRecord
    <3>1. first \in Provider
      BY <2>2
    <3> HIDE DEF first
    <3> QED  BY <3>1 DEF CmdRecord, Steps
  <2>4. TurnTaken(c, p, me, on)
    <3>1. \A q \in Provider : me.want[q] = "off" /\ q >= p => q \in later
      OBVIOUS
    <3>2. first \in Provider /\ me.want[first] = cmd[c].want[first]
      BY <2>2
    <3> HIDE DEF later, first
    <3> QED  BY <2>2, <3>1, <3>2 DEF CmdRecord, TurnTaken
  <2> QED  BY <2>1, <2>3, <2>4
<1> QED  BY <1>1, <1>2

LEMMA IdleTyped == Idle \in CmdRecord /\ Idle.pc = "idle"
BY ProvidersOrdered DEF Idle, CmdRecord, Ops, Steps, Place, RootRecord

(* What a command asks for. *)
LEMMA RequestsTyped ==
    ASSUME NEW r \in Requests
    PROVE  /\ r.op \in Ops /\ r.want \in [Provider -> {"keep", "off", "use"}]
           /\ r.op = "rotate" => r.want[RootProvider] = "use"
<1>1. Idle.want \in [Provider -> {"keep", "off", "use"}]
  BY DEF Idle
<1>2. \A how \in {"use", "off"} : \A w \in Asks(how) : w \in [Provider -> {"keep", "off", "use"}]
  BY <1>1 DEF Asks
<1>3. [Idle.want EXCEPT ![RootProvider] = "use"] \in [Provider -> {"keep", "off", "use"}]
  BY <1>1
<1>4. [Idle.want EXCEPT ![RootProvider] = "use"][RootProvider] = "use"
  BY <1>1, ConstantsAssumption
<1> HIDE DEF Idle
<1> QED  BY <1>2, <1>3, <1>4 DEF Requests, Ops

-----------------------------------------------------------------------------
Works == \A c \in Command : CommandInv(c)

(* The choice is of the labels there are. *)
LEMMA ChoicesWithin ==
    ASSUME NEW p, NEW labels, NEW source, NEW past
    PROVE  Choices(p, labels, source, past) \subseteq labels
BY DEF Choices

LEMMA SelectTo ==
    ASSUME HarnessTypeOK, NEW c \in Command,
           NEW chosen \in [Provider -> UNION {0..NumLabels[p] : p \in Provider}],
           Select(c, chosen)
    PROVE  \/ cmd' = [cmd EXCEPT ![c] = Idle]
           \/ /\ cmd[c].op = "rotate"
              /\ cmd' = [cmd EXCEPT ![c] = [cmd[c] EXCEPT !.chosen = chosen, !.pc = "hand"]]
              /\ chosen[RootProvider] # cmd[c].root.label
              /\ cmd[c].want[RootProvider] = "use" =>
                    chosen[RootProvider] \in Choices(RootProvider, cmd[c].ready[RootProvider],
                                                     cmd[c].root.label, cmd[c].root.past)
           \/ cmd' = [cmd EXCEPT ![c] = [cmd[c] EXCEPT !.chosen = chosen, !.pc = "turn",
                                             !.ready = Idle.ready, !.root = Idle.root]]
<1>1. RootProvider \in Provider
  BY ConstantsAssumption
<1> HIDE DEF Idle
<1> QED  BY <1>1 DEF Select, Step, End

LEMMA ChosenTyped ==
    ASSUME NEW chosen \in [Provider -> UNION {0..NumLabels[p] : p \in Provider}]
    PROVE  chosen \in [Provider -> Nat]
<1>1. \A p \in Provider : 0..NumLabels[p] \subseteq Nat
  BY ConstantsAssumption
<1>2. UNION {0..NumLabels[p] : p \in Provider} \subseteq Nat
  BY <1>1
<1> QED  BY <1>2

(* The part of the type that is the command's own. *)
LEMMA CmdTyped ==
    ASSUME HarnessTypeOK, Works, [HarnessNext]_harnessVars
    PROVE  cmd' \in [Command -> CmdRecord]
<1> USE DEF HarnessTypeOK
<1>0. \A c \in Command, x \in CmdRecord : [cmd EXCEPT ![c] = x] \in [Command -> CmdRecord]
  OBVIOUS
<1>1. ASSUME NEW c \in Command, NEW r \in Requests, NEW f \in Path, Begin(c, r, f)
      PROVE  cmd' \in [Command -> CmdRecord]
  <2> DEFINE begun == [Idle EXCEPT !.op = r.op, !.want = r.want, !.env = f,
                                   !.at = IF owned # Nowhere THEN owned ELSE f]
  <2>1. begun \in CmdRecord
    <3>1. f \in Place /\ owned \in Place
      BY DEF Place
    <3> HIDE DEF Idle
    <3> QED  BY <3>1, IdleTyped, RequestsTyped DEF CmdRecord
  <2> HIDE DEF begun
  <2>2. [begun EXCEPT !.pc = "turn"] \in CmdRecord
    BY <2>1 DEF CmdRecord, Steps
  <2>3. [begun EXCEPT !.pc = "select", !.ready = ready, !.root = root] \in CmdRecord
    BY <2>1 DEF CmdRecord, Steps
  <2>4. \/ cmd' = [cmd EXCEPT ![c] = [begun EXCEPT !.pc = "turn"]]
        \/ cmd' = [cmd EXCEPT ![c] = [begun EXCEPT !.pc = "select", !.ready = ready, !.root = root]]
    BY <1>1 DEF Begin, Step, begun
  <2> QED  BY <1>0, <2>2, <2>3, <2>4
<1>2. ASSUME NEW c \in Command, NEW chosen \in [Provider -> UNION {0..NumLabels[p] : p \in Provider}],
             Select(c, chosen)
      PROVE  cmd' \in [Command -> CmdRecord]
  <2>1. chosen \in [Provider -> Nat]
    BY ChosenTyped
  <2>2. Idle.ready \in [Provider -> SUBSET Nat] /\ Idle.root \in RootRecord
    BY DEF Idle, RootRecord
  <2> HIDE DEF Idle
  <2>3. /\ [cmd[c] EXCEPT !.chosen = chosen, !.pc = "hand"] \in CmdRecord
        /\ [cmd[c] EXCEPT !.chosen = chosen, !.pc = "turn",
                          !.ready = Idle.ready, !.root = Idle.root] \in CmdRecord
    <3>1. cmd[c] \in CmdRecord
      OBVIOUS
    <3> QED  BY <2>1, <2>2, <3>1 DEF CmdRecord, Steps
  <2>4. \E x \in CmdRecord : cmd' = [cmd EXCEPT ![c] = x]
    <3> HIDE DEF HarnessTypeOK
    <3> QED  BY <1>2, <2>3, IdleTyped, SelectTo
  <2> QED  BY <1>0, <2>4
<1>3. ASSUME NEW c \in Command, First(c) \/ Put(c) \/ Unlink(c)
      PROVE  cmd' \in [Command -> CmdRecord]
  <2>1. cmd[c] \in CmdRecord /\ [cmd[c] EXCEPT !.wrote = TRUE] \in CmdRecord
        /\ [cmd[c] EXCEPT !.wrote = TRUE].want = cmd[c].want
    <3>1. cmd[c] \in CmdRecord
      OBVIOUS
    <3> QED  BY <3>1 DEF CmdRecord
  <2>2. 1 \in Nat /\ cmd[c].turn + 1 \in Nat
    BY <2>1, ProvidersOrdered DEF CmdRecord
  <2>3. \/ Turn(c, 1, cmd[c]) \/ Turn(c, cmd[c].turn + 1, [cmd[c] EXCEPT !.wrote = TRUE])
        \/ Turn(c, cmd[c].turn + 1, cmd[c])
    BY <1>3 DEF First, Put, Unlink
  <2>4. \A n \in Nat, me \in CmdRecord : me.want = cmd[c].want /\ Turn(c, n, me) =>
           \E x \in CmdRecord : cmd' = [cmd EXCEPT ![c] = x]
    BY TurnTo
  <2>5. \E x \in CmdRecord : cmd' = [cmd EXCEPT ![c] = x]
    BY <2>1, <2>2, <2>3, <2>4
  <2> QED  BY <1>0, <2>5
<1>4. ASSUME NEW c \in Command, Stash(c) \/ Look(c) \/ Remove(c)
      PROVE  cmd' \in [Command -> CmdRecord]
  <2>1. cmd[c] \in CmdRecord
    OBVIOUS
  <2>2. /\ [cmd[c] EXCEPT !.pc = "put"] \in CmdRecord
        /\ [cmd[c] EXCEPT !.pc = "unlink"] \in CmdRecord
        /\ [cmd[c] EXCEPT !.pc = "unlink", !.wrote = TRUE] \in CmdRecord
    BY <2>1 DEF CmdRecord, Steps
  <2>3. [cmd[c] EXCEPT !.pc = "remove", !.found = backup[cmd[c].turn],
                       !.seen = backup[cmd[c].turn] # 0] \in CmdRecord
    BY <2>1 DEF CmdRecord, Steps
  <2> QED  BY <1>0, <1>4, <2>2, <2>3 DEF Stash, Look, Remove, Step
<1>5. ASSUME NEW c \in Command, Save(c) \/ Launch(c) \/ Handoff(c) \/ Stop(c)
      PROVE  cmd' \in [Command -> CmdRecord]
  <2>1. cmd[c] \in CmdRecord
    OBVIOUS
  <2>2. [cmd[c] EXCEPT !.pc = "launch"] \in CmdRecord
    BY <2>1 DEF CmdRecord, Steps
  <2> HIDE DEF Idle
  <2> QED  BY <1>0, <1>5, <2>2, IdleTyped DEF Save, Launch, Handoff, Stop, Step, End
<1>6. ASSUME NEW f \in Path, NEW p \in Provider, Harness(f, p) PROVE cmd' \in [Command -> CmdRecord]
  BY <1>6 DEF Harness
<1>7. ASSUME NEW l \in Labels(RootProvider), RecordChange(l) PROVE cmd' \in [Command -> CmdRecord]
  BY <1>7 DEF RecordChange
<1>8. CASE UNCHANGED harnessVars
  BY <1>8 DEF harnessVars
<1> QED  BY <1>1, <1>2, <1>3, <1>4, <1>5, <1>6, <1>7, <1>8 DEF HarnessNext

(* The records that are put together. *)

LEMMA EntryWritten ==
    ASSUME NEW a \in [Path -> [Provider -> Entry]], NEW f \in Path, NEW p \in Provider, NEW e \in Entry
    PROVE  [a EXCEPT ![f][p] = e] \in [Path -> [Provider -> Entry]]
OBVIOUS

LEMMA RootWalkTyped ==
    ASSUME NEW n \in Nat, NEW s \in Seq(Nat), NEW S \in SUBSET Labels(RootProvider),
           NEW w \in WalkRecord
    PROVE  /\ [label |-> n, past |-> s] \in RootRecord
           /\ [past |-> s, among |-> S] \in WalkRecord
           /\ [w EXCEPT !.past = s] \in WalkRecord
BY DEF RootRecord, WalkRecord

LEMMA HarnessTypeStep ==
    ASSUME HarnessTypeOK, Works, [HarnessNext]_harnessVars
    PROVE  HarnessTypeOK'
<1>0. cmd' \in [Command -> CmdRecord]
  BY CmdTyped
<1>a. RootProvider \in Provider /\ \A c \in Command : cmd[c] \in CmdRecord
  BY ConstantsAssumption DEF HarnessTypeOK
<1>b. /\ \A p \in Provider : Labels(p) \in SUBSET Nat
      /\ Nowhere \in Place /\ Path \subseteq Place
  BY ProvidersOrdered DEF Place
<1>c. \A c \in Command : cmd[c].pc # "idle" => cmd[c].at \in Path /\ cmd[c].env \in Path
  BY DEF Works, CommandInv
<1>d. \A f \in Path, p \in Provider, e \in Entry : [auth EXCEPT ![f][p] = e] \in [Path -> [Provider -> Entry]]
  BY EntryWritten DEF HarnessTypeOK
<1>e. \A f \in Path, p \in Provider : auth[f][p].of \in Nat
  BY DEF HarnessTypeOK, Entry
<1> USE DEF HarnessTypeOK
<1>1. ASSUME NEW c \in Command, NEW r \in Requests, NEW f \in Path, Begin(c, r, f)
      PROVE  HarnessTypeOK'
  BY <1>0, <1>1 DEF Begin
<1>2. ASSUME NEW c \in Command, NEW chosen \in [Provider -> UNION {0..NumLabels[p] : p \in Provider}],
             Select(c, chosen)
      PROVE  HarnessTypeOK'
  BY <1>0, <1>2 DEF Select, history
<1>3. ASSUME NEW c \in Command, First(c) \/ Look(c) PROVE HarnessTypeOK'
  BY <1>0, <1>3 DEF First, Look, history
<1>4. ASSUME NEW c \in Command, Stash(c) PROVE HarnessTypeOK'
  <2>1. lock' \in [Path -> Command \cup {Nobody}]
    BY <1>4 DEF Stash
  <2>2. cmd[c].at \in Path /\ cmd[c].turn \in Provider
    BY <1>4, <1>a, <1>c DEF Stash, CmdRecord
  <2>3. auth[cmd[c].at][cmd[c].turn].of \in Nat
    BY <1>e, <2>2
  <2>4. backup' \in [Provider -> Nat]
    BY <1>4, <2>3 DEF Stash
  <2> QED  BY <1>0, <1>4, <2>1, <2>4 DEF Stash, history
<1>5. ASSUME NEW c \in Command, Put(c) PROVE HarnessTypeOK'
  <2>2. cmd[c].at \in Path /\ cmd[c].turn \in Provider /\ cmd[c].chosen[cmd[c].turn] \in Nat
    BY <1>5, <1>a, <1>c DEF Put, CmdRecord
  <2>3. Descriptor(cmd[c].chosen[cmd[c].turn]) \in Entry
    BY <2>2 DEF Descriptor, Entry
  <2>4. auth' \in [Path -> [Provider -> Entry]]
    BY <1>5, <1>d, <2>2, <2>3 DEF Put
  <2>5. lock' \in [Path -> Command \cup {Nobody}]
    BY <1>5 DEF Put
  <2>6. [of |-> auth[cmd[c].at][cmd[c].turn].of, at |-> cmd[c].at] \in [of : Nat, at : Place]
    BY <1>b, <1>e, <2>2
  <2>7. held' \in [Provider -> [of : Nat, at : Place]]
    BY <1>5, <2>6 DEF Put
  <2> QED  BY <1>0, <1>5, <2>4, <2>5, <2>7 DEF Put
<1>6. ASSUME NEW c \in Command, Remove(c) PROVE HarnessTypeOK'
  <2>2. cmd[c].at \in Path /\ cmd[c].turn \in Provider /\ cmd[c].found \in Nat
    BY <1>6, <1>a, <1>c DEF Remove, CmdRecord
  <2>3. /\ Login(cmd[c].found) \in Entry
        /\ NoEntry \in Entry
    BY <2>2 DEF Login, NoEntry, Entry
  <2>4. auth' \in [Path -> [Provider -> Entry]]
    <3> DEFINE f == cmd[c].at
               p == cmd[c].turn
    <3>1. \/ auth' = [auth EXCEPT ![f][p] = Login(cmd[c].found)]
          \/ auth' = [auth EXCEPT ![f][p] = NoEntry]
          \/ auth' = auth
      BY <1>6 DEF Remove
    <3>2. auth \in [Path -> [Provider -> Entry]] /\ f \in Path /\ p \in Provider
      BY <2>2
    <3> HIDE DEF HarnessTypeOK, f, p
    <3>3. \A e \in Entry : [auth EXCEPT ![f][p] = e] \in [Path -> [Provider -> Entry]]
      BY <3>2, EntryWritten
    <3> DEFINE e == Login(cmd[c].found)
    <3>4. e \in Entry /\ NoEntry \in Entry
      BY <2>3
    <3> HIDE DEF e
    <3> QED  BY <3>1, <3>2, <3>3, <3>4 DEF e
  <2>6. NotHeld \in [of : Nat, at : Place]
    BY <1>b DEF NotHeld
  <2>7. held' \in [Provider -> [of : Nat, at : Place]]
    BY <1>6, <2>6 DEF Remove
  <2> QED  BY <1>0, <1>6, <2>4, <2>7 DEF Remove
<1>7. ASSUME NEW c \in Command, Unlink(c) PROVE HarnessTypeOK'
  <2>1. backup' \in [Provider -> Nat]
    BY <1>7 DEF Unlink
  <2> QED  BY <1>0, <1>7, <2>1 DEF Unlink, history
<1>8. ASSUME NEW c \in Command, Save(c) PROVE HarnessTypeOK'
  <2>1. owned' \in Place
    BY <1>8, <1>b, <1>c DEF Save
  <2> QED  BY <1>0, <1>8, <2>1 DEF Save, history
<1>9. ASSUME NEW c \in Command, Launch(c) PROVE HarnessTypeOK'
  <2>1. auth[cmd[c].env][RootProvider].of \in Nat
    BY <1>9, <1>a, <1>c, <1>e DEF Launch
  <2>2. <<auth[cmd[c].env][RootProvider].of>> \in Seq(Nat)
    BY <2>1
  <2> DEFINE s == <<auth[cmd[c].env][RootProvider].of>>
  <2>3. \/ /\ root' = [label |-> auth[cmd[c].env][RootProvider].of, past |-> s]
           /\ walk' = [past |-> s, among |-> ready[RootProvider]]
        \/ root' = root /\ walk' = walk
    BY <1>9 DEF Launch
  <2>4. ready[RootProvider] \in SUBSET Labels(RootProvider)
    BY <1>a
  <2>5. root \in RootRecord /\ walk \in WalkRecord
    OBVIOUS
  <2>6. s \in Seq(Nat)
    BY <2>2
  <2> HIDE DEF s, HarnessTypeOK
  <2>7. root' \in RootRecord /\ walk' \in WalkRecord
    BY <2>1, <2>3, <2>4, <2>5, <2>6, RootWalkTyped
  <2> QED  BY <1>0, <1>9, <2>7 DEF Launch, HarnessTypeOK
<1>10. ASSUME NEW c \in Command, Handoff(c) PROVE HarnessTypeOK'
  <2> DEFINE n == cmd[c].chosen[RootProvider]
             s == Append(root.past, n)
             t == Append(walk.past, n)
             u == <<n>>
  <2>1. n \in Nat /\ cmd[c].ready[RootProvider] \in SUBSET Labels(RootProvider)
    BY <1>10, <1>a DEF Handoff, CmdRecord, Works, CommandInv
  <2>2. root \in RootRecord /\ walk \in WalkRecord
    OBVIOUS
  <2>3. s \in Seq(Nat) /\ t \in Seq(Nat) /\ u \in Seq(Nat)
    BY <2>1, <2>2 DEF RootRecord, WalkRecord
  <2>4. root' = root \/ root' = [label |-> n, past |-> s]
    BY <1>10 DEF Handoff
  <2>5. \/ walk' = walk
        \/ walk' = [walk EXCEPT !.past = t]
        \/ walk' = [past |-> u, among |-> cmd[c].ready[RootProvider]]
    BY <1>10 DEF Handoff
  <2> HIDE DEF n, s, t, u, HarnessTypeOK
  <2>6. root' \in RootRecord /\ walk' \in WalkRecord
    BY <2>1, <2>2, <2>3, <2>4, <2>5, RootWalkTyped
  <2> QED  BY <1>0, <1>10, <2>6 DEF Handoff, HarnessTypeOK
<1>11. ASSUME NEW c \in Command, Stop(c) PROVE HarnessTypeOK'
  <2>1. lock' \in [Path -> Command \cup {Nobody}]
    BY <1>11 DEF Stop
  <2>2. whole' \in BOOLEAN
    BY <1>11 DEF Stop
  <2> QED  BY <1>0, <1>11, <2>1, <2>2 DEF Stop
<1>12. ASSUME NEW f \in Path, NEW p \in Provider, Harness(f, p) PROVE HarnessTypeOK'
  <2>1. born' \in Nat
    BY <1>12 DEF Harness
  <2>2. /\ Login(born') \in Entry
        /\ NoEntry \in Entry
        /\ NotHeld \in [of : Nat, at : Place]
    BY <1>b, <2>1 DEF Login, NoEntry, NotHeld, Entry
  <2>3. auth' \in [Path -> [Provider -> Entry]]
    <3>1. \/ auth' = [auth EXCEPT ![f][p] = Login(born')]
          \/ auth' = [auth EXCEPT ![f][p] = NoEntry]
      BY <1>12 DEF Harness
    <3>2. auth \in [Path -> [Provider -> Entry]]
      OBVIOUS
    <3> HIDE DEF HarnessTypeOK
    <3> QED  BY <2>2, <3>1, <3>2, EntryWritten
  <2>4. held' \in [Provider -> [of : Nat, at : Place]]
    BY <1>12, <2>2 DEF Harness
  <2> QED  BY <1>0, <1>12, <2>1, <2>3, <2>4 DEF Harness
<1>13. ASSUME NEW l \in Labels(RootProvider), RecordChange(l) PROVE HarnessTypeOK'
  <2>1. l \in Nat
    BY <1>a, <1>b
  <2>2. ready' \in [Provider -> SUBSET Nat] /\ \A p \in Provider : ready'[p] \subseteq Labels(p)
    BY <1>13, <1>a, <2>1 DEF RecordChange
  <2> QED  BY <1>0, <1>13, <2>2 DEF RecordChange, history
<1>14. CASE UNCHANGED harnessVars
  BY <1>14 DEF harnessVars, history
<1> QED  BY <1>1, <1>2, <1>3, <1>4, <1>5, <1>6, <1>7, <1>8, <1>9, <1>10, <1>11, <1>12, <1>13, <1>14
         DEF HarnessNext

-----------------------------------------------------------------------------
(* What a command does. *)
Chosens == [Provider -> UNION {0..NumLabels[p] : p \in Provider}]

CommandMove(c) ==
    \/ \E r \in Requests, f \in Path : Begin(c, r, f)
    \/ \E chosen \in Chosens : Select(c, chosen)
    \/ First(c) \/ Stash(c) \/ Put(c) \/ Look(c) \/ Remove(c) \/ Unlink(c)
    \/ Save(c) \/ Launch(c) \/ Handoff(c) \/ Stop(c)

(* A command leaves the others where they are, and their locks. *)
LEMMA OthersStay ==
    ASSUME HarnessTypeOK, Works, NEW c \in Command, CommandMove(c)
    PROVE  \A d \in Command \ {c} :
             cmd'[d] = cmd[d] /\ \A f \in Path : lock'[f] = d <=> lock[f] = d
<1>1. cmd \in [Command -> CmdRecord] /\ lock \in [Path -> Command \cup {Nobody}]
  BY DEF HarnessTypeOK
<1>2. Nobody \notin Command
  BY ConstantsAssumption
<1>3. \A d \in Command \ {c} : cmd'[d] = cmd[d]
  <2>1. \A p, me : Turn(c, p, me) => \E x : cmd' = [cmd EXCEPT ![c] = x]
    BY DEF Turn, Step
  <2>2. \E x : cmd' = [cmd EXCEPT ![c] = x]
    <3> HIDE DEF Idle
    <3> QED  BY <2>1 DEF CommandMove, Begin, Select, First, Stash, Put, Look, Remove, Unlink, Save, Launch,
              Handoff, Stop, Step, End
  <2> QED  BY <1>1, <2>2
<1>4. CASE Stash(c)
  BY <1>1, <1>2, <1>3, <1>4 DEF Stash
<1>5. CASE Put(c)
  <2>1. lock[cmd[c].at] = c
    BY <1>5 DEF Put, Works, CommandInv
  <2> QED  BY <1>1, <1>2, <1>3, <1>5, <2>1 DEF Put
<1>6. CASE Stop(c)
  BY <1>1, <1>2, <1>3, <1>6 DEF Stop
<1>7. CASE ~(Stash(c) \/ Put(c) \/ Stop(c))
  BY <1>3, <1>7 DEF CommandMove, Begin, Select, First, Look, Remove, Unlink, Save, Launch, Handoff
<1> QED  BY <1>4, <1>5, <1>6, <1>7

(* Where a command has got to. *)
LEMMA BeginTo ==
    ASSUME HarnessTypeOK, NEW c \in Command, NEW r \in Requests, NEW f \in Path, Begin(c, r, f)
    PROVE  /\ cmd'[c].pc \in {"turn", "select"} /\ cmd'[c].op = r.op /\ cmd'[c].want = r.want
           /\ cmd'[c].env = f /\ cmd'[c].at = (IF owned # Nowhere THEN owned ELSE f)
           /\ cmd'[c].wrote = FALSE
           /\ cmd'[c].pc = "select" => cmd'[c].ready = ready
<1> DEFINE begun == [Idle EXCEPT !.op = r.op, !.want = r.want, !.env = f,
                                 !.at = IF owned # Nowhere THEN owned ELSE f]
           turn == [begun EXCEPT !.pc = "turn"]
           select == [begun EXCEPT !.pc = "select", !.ready = ready, !.root = root]
<1>1. cmd' = [cmd EXCEPT ![c] = turn] \/ cmd' = [cmd EXCEPT ![c] = select]
  BY DEF Begin, Step
<1>2. cmd'[c] = turn \/ cmd'[c] = select
  <2> HIDE DEF turn, select
  <2> QED  BY <1>1 DEF HarnessTypeOK
<1>3. CASE cmd'[c] = turn
  BY <1>3 DEF Idle
<1>4. CASE cmd'[c] = select
  BY <1>4 DEF Idle
<1> QED  BY <1>2, <1>3, <1>4

LEMMA TurnsTo ==
    ASSUME HarnessTypeOK, NEW c \in Command, First(c) \/ Put(c) \/ Unlink(c)
    PROVE  /\ First(c) => TurnTaken(c, 1, cmd[c], cmd'[c])
           /\ Put(c) => TurnTaken(c, cmd[c].turn + 1, [cmd[c] EXCEPT !.wrote = TRUE], cmd'[c])
           /\ Unlink(c) => TurnTaken(c, cmd[c].turn + 1, cmd[c], cmd'[c])
           /\ cmd'[c] \in CmdRecord
<1>1. cmd[c] \in CmdRecord /\ cmd \in [Command -> CmdRecord]
  BY DEF HarnessTypeOK
<1> DEFINE writing == [cmd[c] EXCEPT !.wrote = TRUE]
<1>2. writing \in CmdRecord /\ writing.want = cmd[c].want
  BY <1>1 DEF CmdRecord
<1>3. cmd[c].turn + 1 \in Nat /\ 1 \in Nat
  <2>1. cmd[c].turn \in Provider
    BY <1>1 DEF CmdRecord
  <2>2. cmd[c].turn \in Nat
    BY <2>1, ProvidersOrdered
  <2> QED  BY <2>2
<1> HIDE DEF writing
<1>4. \A p \in Nat, me \in CmdRecord : me.want = cmd[c].want /\ Turn(c, p, me) =>
         TurnTaken(c, p, me, cmd'[c]) /\ cmd'[c] \in CmdRecord
  BY <1>1, TurnTo
<1>5. /\ First(c) => Turn(c, 1, cmd[c])
      /\ Put(c) => Turn(c, cmd[c].turn + 1, writing)
      /\ Unlink(c) => Turn(c, cmd[c].turn + 1, cmd[c])
  BY DEF First, Put, Unlink, writing
<1> QED  BY <1>1, <1>2, <1>3, <1>4, <1>5 DEF writing

LEMMA MovesTo ==
    ASSUME HarnessTypeOK, NEW c \in Command
    PROVE  /\ Stash(c) => cmd'[c] = [cmd[c] EXCEPT !.pc = "put"]
           /\ Look(c) => cmd'[c] = [cmd[c] EXCEPT !.pc = "remove", !.found = backup[cmd[c].turn],
                                                  !.seen = backup[cmd[c].turn] # 0]
           /\ Remove(c) => \/ cmd'[c] = [cmd[c] EXCEPT !.pc = "unlink", !.wrote = TRUE]
                           \/ cmd'[c] = [cmd[c] EXCEPT !.pc = "unlink"]
           /\ Save(c) => cmd'[c] = Idle \/ cmd'[c] = [cmd[c] EXCEPT !.pc = "launch"]
           /\ Launch(c) \/ Handoff(c) \/ Stop(c) => cmd'[c] = Idle
<1>1. cmd \in [Command -> CmdRecord]
  BY DEF HarnessTypeOK
<1> HIDE DEF Idle
<1>2. \A x : cmd' = [cmd EXCEPT ![c] = x] => cmd'[c] = x
  BY <1>1
<1>3. Stash(c) => cmd'[c] = [cmd[c] EXCEPT !.pc = "put"]
  BY <1>2 DEF Stash, Step
<1>4. Look(c) => cmd'[c] = [cmd[c] EXCEPT !.pc = "remove", !.found = backup[cmd[c].turn],
                                          !.seen = backup[cmd[c].turn] # 0]
  BY <1>2 DEF Look, Step
<1>5. Remove(c) => \/ cmd'[c] = [cmd[c] EXCEPT !.pc = "unlink", !.wrote = TRUE]
                   \/ cmd'[c] = [cmd[c] EXCEPT !.pc = "unlink"]
  BY <1>2 DEF Remove, Step
<1>6. Save(c) => cmd'[c] = Idle \/ cmd'[c] = [cmd[c] EXCEPT !.pc = "launch"]
  BY <1>2 DEF Save, Step, End
<1>7. Launch(c) \/ Handoff(c) \/ Stop(c) => cmd'[c] = Idle
  BY <1>2 DEF Launch, Handoff, Stop, Step, End
<1> QED  BY <1>3, <1>4, <1>5, <1>6, <1>7

(* What the moves between the writes of a file leave alone. *)
LEMMA MovesOn ==
    ASSUME HarnessTypeOK, NEW c \in Command, Stash(c) \/ Look(c) \/ Remove(c) \/ Save(c)
    PROVE  \/ cmd'[c] = Idle
           \/ /\ cmd'[c].at = cmd[c].at /\ cmd'[c].env = cmd[c].env /\ cmd'[c].want = cmd[c].want
              /\ cmd[c].wrote => cmd'[c].wrote
              /\ Stash(c) => cmd'[c].pc = "put"
              /\ ~Stash(c) => cmd'[c].pc \in {"remove", "unlink", "launch"}
              /\ ~Save(c) => cmd'[c].pc # "launch"
<1> HIDE DEF Idle
<1>1. cmd[c] \in CmdRecord
  BY DEF HarnessTypeOK
<1>2. CASE Stash(c)
  <2>1. cmd[c].pc = "install" /\ cmd'[c] = [cmd[c] EXCEPT !.pc = "put"]
    BY <1>2, MovesTo DEF Stash
  <2> QED  BY <1>1, <1>2, <2>1 DEF CmdRecord
<1>3. CASE Look(c)
  <2> DEFINE s == backup[cmd[c].turn] # 0
             b == backup[cmd[c].turn]
  <2>1. cmd'[c] = [cmd[c] EXCEPT !.pc = "remove", !.found = b, !.seen = s]
    BY <1>3, MovesTo
  <2>2. ~Stash(c) /\ ~Save(c)
    BY <1>3 DEF Look, Stash, Save
  <2> HIDE DEF b, s
  <2> QED  BY <1>1, <2>1, <2>2 DEF CmdRecord
<1>4. CASE Remove(c)
  <2>1. \/ cmd'[c] = [cmd[c] EXCEPT !.pc = "unlink", !.wrote = TRUE]
        \/ cmd'[c] = [cmd[c] EXCEPT !.pc = "unlink"]
    BY <1>4, MovesTo
  <2>2. ~Stash(c)
    BY <1>4 DEF Remove, Stash
  <2> QED  BY <1>1, <2>1, <2>2 DEF CmdRecord
<1>5. CASE Save(c)
  <2>1. cmd'[c] = Idle \/ cmd'[c] = [cmd[c] EXCEPT !.pc = "launch"]
    BY <1>5, MovesTo
  <2>2. ~Stash(c)
    BY <1>5 DEF Save, Stash
  <2> QED  BY <1>1, <1>5, <2>1, <2>2 DEF CmdRecord
<1> QED  BY <1>2, <1>3, <1>4, <1>5

LEMMA LooksTo ==
    ASSUME HarnessTypeOK, NEW c \in Command, Look(c)
    PROVE  /\ cmd'[c].pc = "remove" /\ cmd'[c].found = backup[cmd[c].turn]
           /\ cmd'[c].at = cmd[c].at /\ cmd'[c].want = cmd[c].want /\ cmd'[c].turn = cmd[c].turn
           /\ cmd'[c].wrote = cmd[c].wrote
<1> DEFINE s == backup[cmd[c].turn] # 0
           b == backup[cmd[c].turn]
<1>1. cmd'[c] = [cmd[c] EXCEPT !.pc = "remove", !.found = b, !.seen = s]
  BY MovesTo
<1>2. cmd[c] \in CmdRecord
  BY DEF HarnessTypeOK
<1> HIDE DEF s, b
<1>3. /\ cmd'[c].pc = "remove" /\ cmd'[c].found = b
      /\ cmd'[c].at = cmd[c].at /\ cmd'[c].want = cmd[c].want /\ cmd'[c].turn = cmd[c].turn
      /\ cmd'[c].wrote = cmd[c].wrote
  BY <1>1, <1>2 DEF CmdRecord
<1> QED  BY <1>3 DEF b

LEMMA WorksStep ==
    ASSUME HarnessTypeOK, Works, [HarnessNext]_harnessVars
    PROVE  Works'
<1>0. cmd \in [Command -> CmdRecord] /\ RootProvider \in Provider
  BY ConstantsAssumption DEF HarnessTypeOK
<1>1. ASSUME NEW c \in Command, CommandMove(c), NEW d \in Command \ {c} PROVE CommandInv(d)'
  <2>1. cmd'[d] = cmd[d] /\ \A f \in Path : lock'[f] = d <=> lock[f] = d
    BY <1>1, OthersStay
  <2>2. CommandInv(d)
    BY DEF Works
  <2> QED  BY <2>1, <2>2 DEF CommandInv
<1>2. ASSUME NEW c \in Command, CommandMove(c) PROVE CommandInv(c)'
  <2>1. cmd[c] \in CmdRecord /\ CommandInv(c)
    BY <1>0 DEF Works
  <2>2. ASSUME NEW r \in Requests, NEW f \in Path, Begin(c, r, f) PROVE CommandInv(c)'
    <3>1. owned \in Path \cup {Nowhere} /\ ready[RootProvider] \subseteq Labels(RootProvider)
      BY <1>0 DEF HarnessTypeOK, Place
    <3> QED  BY <2>2, <3>1, BeginTo, RequestsTyped DEF CommandInv
  <2>3. ASSUME NEW chosen \in Chosens, Select(c, chosen) PROVE CommandInv(c)'
    <3>1. \/ cmd'[c] = Idle
          \/ /\ cmd[c].op = "rotate"
             /\ cmd'[c] = [cmd[c] EXCEPT !.chosen = chosen, !.pc = "hand"]
             /\ chosen[RootProvider] # cmd[c].root.label
             /\ cmd[c].want[RootProvider] = "use" =>
                   chosen[RootProvider] \in Choices(RootProvider, cmd[c].ready[RootProvider],
                                                    cmd[c].root.label, cmd[c].root.past)
          \/ cmd'[c] = [cmd[c] EXCEPT !.chosen = chosen, !.pc = "turn",
                                      !.ready = Idle.ready, !.root = Idle.root]
      <4> HIDE DEF Idle
      <4>1. \A x : cmd' = [cmd EXCEPT ![c] = x] => cmd'[c] = x
        BY <1>0
      <4>2. \/ cmd' = [cmd EXCEPT ![c] = Idle]
            \/ /\ cmd[c].op = "rotate"
               /\ cmd' = [cmd EXCEPT ![c] = [cmd[c] EXCEPT !.chosen = chosen, !.pc = "hand"]]
               /\ chosen[RootProvider] # cmd[c].root.label
               /\ cmd[c].want[RootProvider] = "use" =>
                     chosen[RootProvider] \in Choices(RootProvider, cmd[c].ready[RootProvider],
                                                      cmd[c].root.label, cmd[c].root.past)
            \/ cmd' = [cmd EXCEPT ![c] = [cmd[c] EXCEPT !.chosen = chosen, !.pc = "turn",
                                             !.ready = Idle.ready, !.root = Idle.root]]
        BY <2>3, SelectTo DEF Chosens
      <4> QED  BY <4>1, <4>2
    <3>2. cmd[c].pc = "select"
      BY <2>3 DEF Select
    <3>3. Idle.pc = "idle"
      BY DEF Idle
    <3> HIDE DEF Idle
    <3> QED  BY <2>1, <3>1, <3>2, <3>3 DEF CommandInv, CmdRecord
  <2>4. CASE First(c) \/ Put(c) \/ Unlink(c)
    <3>1. cmd[c].pc \in {"turn", "put", "unlink"}
      BY <2>4 DEF First, Put, Unlink
    <3>2. /\ cmd'[c].pc \in {"save", "look", "install"}
          /\ cmd'[c].at = cmd[c].at /\ cmd'[c].env = cmd[c].env
          /\ cmd'[c].pc = "install" => cmd'[c].want[cmd'[c].turn] # "off"
      BY <2>1, <2>4, TurnsTo DEF TurnTaken, CmdRecord
    <3> QED  BY <2>1, <3>1, <3>2 DEF CommandInv
  <2>5. CASE Stash(c)
    <3>1. lock'[cmd[c].at] = c
      BY <2>1, <2>5 DEF Stash, HarnessTypeOK, CommandInv
    <3>2. cmd[c].pc = "install" /\ cmd'[c] = [cmd[c] EXCEPT !.pc = "put"]
      BY <2>5, MovesTo DEF Stash
    <3> QED  BY <2>1, <3>1, <3>2 DEF CommandInv, CmdRecord
  <2>6. CASE Look(c) \/ Remove(c) \/ Save(c)
    <3>1. cmd[c].pc \notin {"idle", "select", "hand", "put"}
      BY <2>6 DEF Look, Remove, Save
    <3>2. Idle.pc = "idle"
      BY DEF Idle
    <3> HIDE DEF Idle
    <3>3. \/ cmd'[c] = Idle
          \/ /\ cmd'[c].pc \in {"remove", "unlink", "launch"}
             /\ cmd'[c].at = cmd[c].at /\ cmd'[c].env = cmd[c].env
      <4>1. ~Stash(c)
        BY <2>6 DEF Stash, Look, Remove, Save
      <4> QED  BY <2>1, <2>6, <4>1, MovesOn
    <3> QED  BY <2>1, <3>1, <3>2, <3>3 DEF CommandInv
  <2>7. CASE Launch(c) \/ Handoff(c) \/ Stop(c)
    <3>1. cmd'[c].pc = "idle"
      <4> HIDE DEF Idle
      <4> QED  BY <2>7, MovesTo, IdleTyped
    <3> QED  BY <3>1 DEF CommandInv
  <2> QED  BY <1>2, <2>2, <2>3, <2>4, <2>5, <2>6, <2>7 DEF CommandMove
<1>3. ASSUME cmd' = cmd, lock' = lock PROVE Works'
  BY <1>3 DEF Works, CommandInv
<1>4. CASE \E f \in Path, p \in Provider : Harness(f, p)
  BY <1>3, <1>4 DEF Harness
<1>5. CASE \E l \in Labels(RootProvider) : RecordChange(l)
  BY <1>3, <1>5 DEF RecordChange
<1>6. CASE UNCHANGED harnessVars
  BY <1>3, <1>6 DEF harnessVars
<1>7. CASE \E c \in Command : CommandMove(c)
  BY <1>1, <1>2, <1>7 DEF Works
<1> QED  BY <1>4, <1>5, <1>6, <1>7 DEF HarnessNext, CommandMove, Chosens

(* A lock is held by the command that is about to write. *)
LEMMA LockStep ==
    ASSUME HarnessTypeOK, Works, LockInv, [HarnessNext]_harnessVars
    PROVE  LockInv'
<1>0. cmd \in [Command -> CmdRecord] /\ lock \in [Path -> Command \cup {Nobody}] /\ Nobody \notin Command
  BY ConstantsAssumption DEF HarnessTypeOK
<1>1. ASSUME NEW c \in Command, CommandMove(c), NEW f \in Path, NEW d \in Command, lock'[f] = d
      PROVE  cmd'[d].pc = "put" /\ cmd'[d].at = f
  <2>1. CASE d # c
    BY <1>1, <2>1, OthersStay DEF LockInv
  <2>2. CASE d = c
    <3>1. CASE Stash(c)
      <4>1. f = cmd[c].at \/ lock[f] = c
        BY <1>0, <1>1, <2>2, <3>1 DEF Stash
      <4>2. cmd[c].pc = "install"
        BY <3>1 DEF Stash
      <4>3. f = cmd[c].at
        BY <4>1, <4>2 DEF LockInv
      <4>4. cmd[c] \in CmdRecord /\ cmd'[c] = [cmd[c] EXCEPT !.pc = "put"]
        BY <1>0, <3>1, MovesTo
      <4> QED  BY <2>2, <4>3, <4>4 DEF CmdRecord
    <3>2. CASE Put(c)
      <4>1. lock' = [lock EXCEPT ![cmd[c].at] = Nobody]
        BY <3>2 DEF Put
      <4>2. f # cmd[c].at /\ lock[f] = c
        BY <1>0, <1>1, <2>2, <4>1
      <4> QED  BY <4>2 DEF LockInv
    <3>3. CASE Stop(c)
      BY <1>0, <1>1, <2>2, <3>3 DEF Stop
    <3>4. CASE ~(Stash(c) \/ Put(c) \/ Stop(c))
      <4>1. lock' = lock /\ cmd[c].pc # "put"
        BY <1>1, <3>4 DEF CommandMove, Begin, Select, First, Look, Remove, Unlink, Save, Launch, Handoff
      <4> QED  BY <1>1, <2>2, <4>1 DEF LockInv
    <3> QED  BY <3>1, <3>2, <3>3, <3>4
  <2> QED  BY <2>1, <2>2
<1>2. ASSUME cmd' = cmd, lock' = lock PROVE LockInv'
  BY <1>2 DEF LockInv
<1>3. CASE \E f \in Path, p \in Provider : Harness(f, p)
  BY <1>2, <1>3 DEF Harness
<1>4. CASE \E l \in Labels(RootProvider) : RecordChange(l)
  BY <1>2, <1>4 DEF RecordChange
<1>5. CASE UNCHANGED harnessVars
  BY <1>2, <1>5 DEF harnessVars
<1>6. CASE \E c \in Command : CommandMove(c)
  BY <1>1, <1>6 DEF LockInv
<1> QED  BY <1>3, <1>4, <1>5, <1>6 DEF HarnessNext, CommandMove, Chosens

-----------------------------------------------------------------------------
(* What one command knows of the files, as long as it is alone. *)

LEMMA AloneKept ==
    ASSUME HarnessTypeOK, Works, [HarnessNext]_harnessVars, calm'
    PROVE  calm /\ (Alone => Alone')
<1>0. cmd \in [Command -> CmdRecord]
  BY DEF HarnessTypeOK
<1>1. ASSUME NEW c \in Command, NEW r \in Requests, NEW f \in Path, Begin(c, r, f)
      PROVE  calm /\ (Alone => Alone')
  <2>1. \A d \in Command : cmd[d].pc = "idle"
    BY <1>1 DEF Begin
  <2>2. \A d \in Command \ {c} : cmd'[d] = cmd[d]
    BY <1>1, OthersStay DEF CommandMove
  <2> QED  BY <1>1, <2>1, <2>2 DEF Begin, Alone
<1>2. ASSUME NEW c \in Command, CommandMove(c), ~\E r \in Requests, f \in Path : Begin(c, r, f)
      PROVE  calm /\ (Alone => Alone')
  <2>1. cmd[c].pc # "idle" /\ calm' = calm
    BY <1>2 DEF CommandMove, Select, First, Stash, Put, Look, Remove, Unlink, Save, Launch, Handoff, Stop,
                history
  <2>2. \A d \in Command \ {c} : cmd'[d] = cmd[d]
    BY <1>2, OthersStay
  <2> QED  BY <2>1, <2>2 DEF Alone
<1>3. ASSUME cmd' = cmd, calm' = calm PROVE calm /\ (Alone => Alone')
  BY <1>3 DEF Alone
<1>4. CASE \E f \in Path, p \in Provider : Harness(f, p)
  BY <1>3, <1>4 DEF Harness
<1>5. CASE \E l \in Labels(RootProvider) : RecordChange(l)
  BY <1>3, <1>5 DEF RecordChange, history
<1>6. CASE UNCHANGED harnessVars
  BY <1>3, <1>6 DEF harnessVars, history
<1>7. CASE \E c \in Command : CommandMove(c)
  BY <1>1, <1>2, <1>7
<1> QED  BY <1>4, <1>5, <1>6, <1>7 DEF HarnessNext, CommandMove, Chosens

(* While they are calm the others are idle. *)
LEMMA OthersIdle ==
    ASSUME Alone, Alone', NEW c \in Command, HarnessTypeOK, Works, CommandMove(c),
           cmd[c].pc # "idle" \/ cmd'[c].pc # "idle"
    PROVE  \A d \in Command \ {c} : cmd[d].pc = "idle" /\ cmd'[d] = cmd[d]
BY OthersStay DEF Alone

(* But for its beginning a command keeps to its file and to what it is for. *)
LEMMA CommandGoesOn ==
    ASSUME HarnessTypeOK, NEW c \in Command, CommandMove(c),
           ~\E r \in Requests, f \in Path : Begin(c, r, f)
    PROVE  /\ cmd[c].pc # "idle"
           /\ cmd'[c].pc # "idle" =>
                /\ cmd'[c].at = cmd[c].at /\ cmd'[c].want = cmd[c].want
                /\ cmd[c].wrote => cmd'[c].wrote
                /\ cmd'[c].pc = "launch" => Save(c)
<1>0. cmd \in [Command -> CmdRecord] /\ cmd[c] \in CmdRecord
  BY DEF HarnessTypeOK
<1>1. cmd[c].pc # "idle"
  BY DEF CommandMove, Select, First, Stash, Put, Look, Remove, Unlink, Save, Launch, Handoff, Stop
<1> DEFINE Kept == /\ cmd'[c].at = cmd[c].at /\ cmd'[c].want = cmd[c].want
                   /\ cmd[c].wrote => cmd'[c].wrote
                   /\ cmd'[c].pc = "launch" => Save(c)
<1>2. ASSUME NEW chosen \in Chosens, Select(c, chosen) PROVE cmd'[c].pc = "idle" \/ Kept
  <2>1. \/ cmd' = [cmd EXCEPT ![c] = Idle]
        \/ cmd' = [cmd EXCEPT ![c] = [cmd[c] EXCEPT !.chosen = chosen, !.pc = "hand"]]
        \/ cmd' = [cmd EXCEPT ![c] = [cmd[c] EXCEPT !.chosen = chosen, !.pc = "turn",
                                         !.ready = Idle.ready, !.root = Idle.root]]
    <3> HIDE DEF Idle
    <3> QED  BY <1>2, SelectTo DEF Chosens
  <2> HIDE DEF Idle
  <2>2. \/ cmd'[c] = Idle
        \/ cmd'[c] = [cmd[c] EXCEPT !.chosen = chosen, !.pc = "hand"]
        \/ cmd'[c] = [cmd[c] EXCEPT !.chosen = chosen, !.pc = "turn",
                                    !.ready = Idle.ready, !.root = Idle.root]
    BY <1>0, <2>1
  <2> QED  BY <1>0, <2>2, IdleTyped DEF CmdRecord
<1>3. CASE First(c) \/ Put(c) \/ Unlink(c)
  <2>1. /\ cmd'[c].at = cmd[c].at /\ cmd'[c].want = cmd[c].want
        /\ cmd[c].wrote => cmd'[c].wrote
        /\ cmd'[c].pc \in {"save", "look", "install"}
    BY <1>0, <1>3, TurnsTo DEF TurnTaken, CmdRecord
  <2> QED  BY <1>1, <2>1
<1>4. CASE Stash(c) \/ Look(c) \/ Remove(c) \/ Save(c)
  <2> HIDE DEF Idle
  <2>1. \/ cmd'[c] = Idle
        \/ /\ cmd'[c].at = cmd[c].at /\ cmd'[c].want = cmd[c].want
           /\ cmd[c].wrote => cmd'[c].wrote
           /\ cmd'[c].pc = "launch" => Save(c)
    <3>1. CASE Stash(c) \/ Look(c) \/ Remove(c)
      BY <3>1, MovesOn
    <3>2. CASE Save(c)
      BY <3>2, MovesOn
    <3> QED  BY <1>4, <3>1, <3>2
  <2> QED  BY <1>1, <2>1, IdleTyped
<1>5. CASE Launch(c) \/ Handoff(c) \/ Stop(c)
  <2>1. cmd'[c].pc = "idle"
    <3> HIDE DEF Idle
    <3> QED  BY <1>5, MovesTo, IdleTyped
  <2> QED  BY <1>1, <2>1
<1> QED  BY <1>1, <1>2, <1>3, <1>4, <1>5 DEF CommandMove

AllOwned == \A c \in Command : OwnedInv(c)
AllDone == \A c \in Command : DoneInv(c)

LEMMA OwnedStep ==
    ASSUME HarnessTypeOK, Works, [HarnessNext]_harnessVars, calm', Alone, Alone', AllOwned
    PROVE  AllOwned'
<1>1. ASSUME NEW c \in Command, NEW r \in Requests, NEW f \in Path, Begin(c, r, f)
      PROVE  AllOwned'
  <2>1. \A d \in Command \ {c} : cmd'[d] = cmd[d]
    BY <1>1, OthersStay DEF CommandMove
  <2>2. owned' = owned
    BY <1>1 DEF Begin
  <2>3. OwnedInv(c)'
    BY <1>1, <2>2, BeginTo DEF OwnedInv
  <2> QED  BY <2>1, <2>2, <2>3 DEF AllOwned, OwnedInv
<1>2. ASSUME NEW c \in Command, CommandMove(c), ~\E r \in Requests, f \in Path : Begin(c, r, f)
      PROVE  AllOwned'
  <2>1. cmd[c].pc # "idle" /\ (cmd'[c].pc # "idle" => cmd'[c].at = cmd[c].at)
    BY <1>2, CommandGoesOn
  <2>2. \A d \in Command \ {c} : cmd'[d].pc = "idle"
    BY <1>2, <2>1, OthersIdle
  <2>3. owned' = owned \/ owned' = cmd[c].at
    BY <1>2 DEF CommandMove, Select, First, Stash, Put, Look, Remove, Unlink, Save, Launch, Handoff, Stop
  <2> QED  BY <2>1, <2>2, <2>3 DEF AllOwned, OwnedInv
<1>3. ASSUME cmd' = cmd, owned' = owned PROVE AllOwned'
  BY <1>3 DEF AllOwned, OwnedInv
<1>4. CASE \E f \in Path, p \in Provider : Harness(f, p)
  BY <1>3, <1>4 DEF Harness
<1>5. CASE \E l \in Labels(RootProvider) : RecordChange(l)
  BY <1>3, <1>5 DEF RecordChange
<1>6. CASE UNCHANGED harnessVars
  BY <1>3, <1>6 DEF harnessVars
<1>7. CASE \E c \in Command : CommandMove(c)
  BY <1>1, <1>2, <1>7
<1> QED  BY <1>4, <1>5, <1>6, <1>7 DEF HarnessNext, CommandMove, Chosens

(* The file that holds a displaced login's place, and every descriptor, is *)
(* the one the command is at.                                              *)
LEMMA FoundHere ==
    ASSUME Alone, AllOwned, FoundInv, NEW c \in Command, cmd[c].pc # "idle",
           NEW f \in Path, NEW p \in Provider, auth[f][p].kind = "aim"
    PROVE  f = cmd[c].at
<1>1. Nowhere \notin Path
  BY ConstantsAssumption
<1>2. \A d \in Command : Writing(d) => d = c
  BY DEF Writing, Alone
<1> QED  BY <1>1, <1>2 DEF FoundInv, AllOwned, OwnedInv

LEMMA FoundStep ==
    ASSUME HarnessTypeOK, Works, [HarnessNext]_harnessVars, calm', Alone, Alone', AllOwned,
           FoundInv, whole'
    PROVE  FoundInv'
<1>0. /\ cmd \in [Command -> CmdRecord] /\ auth \in [Path -> [Provider -> Entry]]
      /\ Nowhere \notin Path
  BY ConstantsAssumption DEF HarnessTypeOK
<1>1. ASSUME NEW c \in Command, NEW r \in Requests, NEW f \in Path, Begin(c, r, f)
      PROVE  FoundInv'
  <2>1. \A d \in Command : cmd[d].pc = "idle"
    BY <1>1 DEF Begin
  <2>2. owned' = owned /\ auth' = auth
    BY <1>1 DEF Begin
  <2> QED  BY <2>1, <2>2 DEF FoundInv, Writing
<1>2. ASSUME NEW c \in Command, CommandMove(c), ~\E r \in Requests, f \in Path : Begin(c, r, f),
             NEW f \in Path, NEW p \in Provider, auth'[f][p].kind = "aim"
      PROVE  f = owned' \/ \E d \in Command : Writing(d)' /\ cmd'[d].at = f
  <2>1. cmd[c].pc # "idle" /\ cmd[c] \in CmdRecord /\ CommandInv(c)
    BY <1>0, <1>2, CommandGoesOn DEF Works
  <2>2. auth[f][p].kind = "aim" => f = cmd[c].at
    BY <2>1, FoundHere
  <2>3. auth[f][p].kind = "aim" => f = owned \/ Writing(c)
    BY <2>1 DEF FoundInv, Writing, Alone
  <2>4. CASE Put(c)
    <3>1. auth[f][p].kind = "aim" \/ f = cmd[c].at
      BY <1>0, <1>2, <2>4 DEF Put
    <3>2. Writing(c)' /\ cmd'[c].at = cmd[c].at
      BY <2>1, <2>4, TurnsTo DEF Writing, TurnTaken, CmdRecord
    <3> QED  BY <2>2, <3>1, <3>2
  <2>5. CASE Save(c)
    <3>1. auth' = auth /\ owned' = cmd[c].at
      BY <2>5 DEF Save
    <3> QED  BY <1>2, <2>2, <3>1
  <2>6. CASE Launch(c) \/ Handoff(c) \/ Stop(c) \/ \E chosen \in Chosens : Select(c, chosen)
    <3>1. auth' = auth /\ owned' = owned
      BY <2>6 DEF Launch, Handoff, Stop, Select
    <3>2. Writing(c) => f = owned
      <4>1. CASE Stop(c)
        BY <1>2, <2>2, <3>1, <4>1 DEF Stop, Writing
      <4>2. CASE Launch(c)
        BY <4>2 DEF Launch, Writing
      <4>3. CASE Handoff(c) \/ \E chosen \in Chosens : Select(c, chosen)
        BY <2>1, <4>3 DEF Handoff, Select, Writing, CommandInv
      <4> QED  BY <2>6, <4>1, <4>2, <4>3
    <3> QED  BY <1>2, <2>3, <3>1, <3>2
  <2>7. CASE First(c) \/ Stash(c) \/ Look(c) \/ Remove(c) \/ Unlink(c)
    <3>1. auth[f][p].kind = "aim"
      <4>1. CASE Remove(c)
        BY <1>0, <1>2, <4>1 DEF Remove, Login, NoEntry
      <4>2. CASE ~Remove(c)
        BY <1>2, <2>7, <4>2 DEF First, Stash, Look, Unlink
      <4> QED  BY <4>1, <4>2
    <3>2. owned' = owned
      BY <2>7 DEF First, Stash, Look, Remove, Unlink
    <3>3. cmd'[c].pc \notin {"idle", "launch"}
      <4>1. CASE First(c) \/ Unlink(c)
        BY <2>1, <4>1, TurnsTo DEF TurnTaken
      <4>2. CASE Stash(c)
        BY <2>1, <4>2, MovesTo DEF CmdRecord
      <4>3. CASE Look(c)
        BY <4>3, LooksTo
      <4>4. CASE Remove(c)
        <5>1. \/ cmd'[c] = [cmd[c] EXCEPT !.pc = "unlink", !.wrote = TRUE]
              \/ cmd'[c] = [cmd[c] EXCEPT !.pc = "unlink"]
          BY <4>4, MovesTo
        <5> QED  BY <2>1, <5>1 DEF CmdRecord
      <4> QED  BY <2>7, <4>1, <4>2, <4>3, <4>4
    <3>4. Writing(c) => Writing(c)' /\ cmd'[c].at = cmd[c].at
      BY <1>2, <3>3, CommandGoesOn DEF Writing
    <3> QED  BY <2>2, <2>3, <3>1, <3>2, <3>4
  <2> QED  BY <1>2, <2>4, <2>5, <2>6, <2>7 DEF CommandMove
<1>3. ASSUME cmd' = cmd, owned' = owned,
             \A f \in Path, p \in Provider : auth'[f][p].kind = "aim" => auth[f][p].kind = "aim"
      PROVE  FoundInv'
  BY <1>3 DEF FoundInv, Writing
<1>4. ASSUME NEW g \in Path, NEW q \in Provider, Harness(g, q) PROVE FoundInv'
  <2>1. \A f \in Path, p \in Provider : auth'[f][p].kind = "aim" => auth[f][p].kind = "aim"
    BY <1>0, <1>4 DEF Harness, Login, NoEntry
  <2> QED  BY <1>3, <1>4, <2>1 DEF Harness
<1>5. CASE \E l \in Labels(RootProvider) : RecordChange(l)
  BY <1>3, <1>5 DEF RecordChange
<1>6. CASE UNCHANGED harnessVars
  BY <1>3, <1>6 DEF harnessVars
<1>7. CASE \E c \in Command : CommandMove(c)
  BY <1>1, <1>2, <1>7 DEF FoundInv
<1> QED  BY <1>4, <1>5, <1>6, <1>7 DEF HarnessNext, CommandMove, Chosens

(* A displaced login is kept in the backup, or put back. *)
LEMMA HeldStep ==
    ASSUME HarnessTypeOK, Works, [HarnessNext]_harnessVars, Alone, AllOwned, FoundInv, HeldInv, AllDone
    PROVE  HeldInv'
<1>0. /\ auth \in [Path -> [Provider -> Entry]] /\ held \in [Provider -> [of : Nat, at : Place]]
      /\ backup \in [Provider -> Nat] /\ cmd \in [Command -> CmdRecord]
  BY DEF HarnessTypeOK
<1>1. ASSUME NEW c \in Command, Stash(c) \/ Put(c) \/ Remove(c) \/ Unlink(c) PROVE HeldInv'
  <2> DEFINE at == cmd[c].at
             turn == cmd[c].turn
  <2>1. cmd[c].pc # "idle" /\ at \in Path /\ turn \in Provider /\ DoneInv(c)
    BY <1>0, <1>1 DEF Stash, Put, Remove, Unlink, CmdRecord, Works, CommandInv, AllDone
  <2>2. \A p \in Provider : held[p] # NotHeld =>
           held[p].at = at /\ auth[at][p].kind = "aim" /\ backup[p] = held[p].of
    BY <2>1, FoundHere DEF HeldInv
  <2>3. CASE Stash(c)
    <3>1. held' = held /\ auth' = auth
      BY <2>3 DEF Stash, history
    <3>2. auth[at][turn].kind = "native" \/ backup' = backup
      BY <2>3 DEF Stash
    <3>3. \A p \in Provider : p # turn => backup'[p] = backup[p]
      BY <1>0, <2>3 DEF Stash
    <3>4. \A p \in Provider : held[p] # NotHeld => backup'[p] = backup[p]
      BY <2>2, <3>2, <3>3
    <3> QED  BY <3>1, <3>4 DEF HeldInv
  <2>4. CASE Put(c)
    <3> DEFINE old == auth[at][turn]
    <3>0. backup' = backup
      BY <2>4 DEF Put
    <3>1. auth' = [auth EXCEPT ![at][turn] = Descriptor(cmd[c].chosen[turn])]
      BY <2>4 DEF Put
    <3>2. held' = IF old.kind = "native" THEN [held EXCEPT ![turn] = [of |-> old.of, at |-> at]] ELSE held
      BY <2>4 DEF Put
    <3>3. /\ auth'[at][turn].kind = "aim"
          /\ \A f \in Path, p \in Provider : auth[f][p].kind = "aim" => auth'[f][p].kind = "aim"
      BY <1>0, <2>1, <3>1 DEF Descriptor
    <3>4. old.kind = "native" => backup[turn] = old.of
      BY <2>1, <2>4 DEF DoneInv, Put
    <3>5. ASSUME NEW p \in Provider, held'[p] # NotHeld
          PROVE  held'[p].at \in Path /\ auth'[held'[p].at][p].kind = "aim" /\ backup[p] = held'[p].of
      <4>1. CASE held'[p] = held[p]
        BY <2>1, <2>2, <3>3, <3>5, <4>1
      <4>2. CASE held'[p] # held[p]
        <5>1. p = turn /\ old.kind = "native" /\ held'[p] = [of |-> old.of, at |-> at]
          BY <1>0, <3>2, <4>2
        <5> QED  BY <2>1, <3>3, <3>4, <5>1
      <4> QED  BY <4>1, <4>2
    <3> QED  BY <3>0, <3>5 DEF HeldInv
  <2>5. CASE Remove(c)
    <3>0. backup' = backup
      BY <2>5 DEF Remove
    <3>1. cmd[c].found = backup[turn]
      BY <2>1, <2>5 DEF DoneInv, Remove
    <3>2. CASE auth[at][turn].kind = "aim"
      <4>1. /\ \E e : auth' = [auth EXCEPT ![at][turn] = e]
            /\ held' = [held EXCEPT ![turn] = IF cmd[c].found = held[turn].of THEN NotHeld ELSE held[turn]]
        BY <2>5, <3>2 DEF Remove
      <4>2. held'[turn] = NotHeld
        BY <1>0, <2>1, <2>2, <3>1, <4>1
      <4>3. \A p \in Provider : p # turn => held'[p] = held[p] /\ auth'[at][p] = auth[at][p]
        BY <1>0, <2>1, <4>1
      <4> QED  BY <2>1, <2>2, <3>0, <4>2, <4>3 DEF HeldInv
    <3>3. CASE auth[at][turn].kind # "aim"
      <4>1. auth' = auth /\ held' = held
        BY <2>5, <3>3 DEF Remove
      <4> QED  BY <3>0, <4>1 DEF HeldInv
    <3> QED  BY <3>2, <3>3
  <2>6. CASE Unlink(c)
    <3>1. held' = held /\ auth' = auth
      BY <2>6 DEF Unlink, history
    <3>2. held[turn] = NotHeld
      BY <2>1, <2>6 DEF DoneInv, Unlink, Restored
    <3>3. \A p \in Provider : p # turn => backup'[p] = backup[p]
      BY <1>0, <2>6 DEF Unlink
    <3> QED  BY <3>1, <3>2, <3>3 DEF HeldInv
  <2> QED  BY <1>1, <2>3, <2>4, <2>5, <2>6
<1>2. ASSUME held' = held, auth' = auth, backup' = backup PROVE HeldInv'
  BY <1>2 DEF HeldInv
<1>3. ASSUME NEW c \in Command, CommandMove(c), ~(Stash(c) \/ Put(c) \/ Remove(c) \/ Unlink(c))
      PROVE  HeldInv'
  BY <1>2, <1>3 DEF CommandMove, Begin, Select, First, Look, Save, Launch, Handoff, Stop, history
<1>4. ASSUME NEW f \in Path, NEW p \in Provider, Harness(f, p) PROVE HeldInv'
  <2>1. held' = [held EXCEPT ![p] = IF held[p].at = f THEN NotHeld ELSE held[p]] /\ backup' = backup
    BY <1>4 DEF Harness
  <2>2. \E e : auth' = [auth EXCEPT ![f][p] = e]
    BY <1>4 DEF Harness
  <2>3. ASSUME NEW q \in Provider, held'[q] # NotHeld
        PROVE  held'[q] = held[q] /\ auth'[held[q].at][q] = auth[held[q].at][q]
    <3>1. CASE q # p
      BY <1>0, <2>1, <2>2, <2>3, <3>1 DEF HeldInv
    <3>2. CASE q = p
      <4>1. held'[q] = held[q] /\ held[q].at # f
        BY <1>0, <2>1, <2>3, <3>2
      <4>2. held[q].at \in Path
        BY <2>3, <4>1 DEF HeldInv
      <4> QED  BY <1>0, <2>2, <4>1, <4>2
    <3> QED  BY <3>1, <3>2
  <2> QED  BY <2>1, <2>3 DEF HeldInv
<1>5. CASE \E l \in Labels(RootProvider) : RecordChange(l)
  BY <1>2, <1>5 DEF RecordChange, history
<1>6. CASE UNCHANGED harnessVars
  BY <1>2, <1>6 DEF harnessVars, history
<1> QED  BY <1>1, <1>3, <1>4, <1>5, <1>6 DEF HarnessNext, CommandMove, Chosens

(* What the command has undone stays undone. *)
Undone(c, q) ==
    cmd[c].want[q] = "off" /\ (cmd[c].pc = "save" \/ (cmd[c].pc \in AtWork /\ q < cmd[c].turn))

LEMMA DoneStep ==
    ASSUME HarnessTypeOK, Works, LockInv, [HarnessNext]_harnessVars, calm', Alone, Alone', AllOwned,
           FoundInv, HeldInv, AllDone
    PROVE  AllDone'
<1>0. /\ auth \in [Path -> [Provider -> Entry]] /\ held \in [Provider -> [of : Nat, at : Place]]
      /\ backup \in [Provider -> Nat] /\ cmd \in [Command -> CmdRecord]
  BY DEF HarnessTypeOK
<1>1. ASSUME NEW c \in Command, CommandMove(c) PROVE AllDone'
  <2>1. ASSUME NEW d \in Command \ {c} PROVE DoneInv(d)'
    <3>1. cmd'[d].pc = "idle"
      <4>1. CASE \E r \in Requests, f \in Path : Begin(c, r, f)
        <5>1. \A e \in Command : cmd[e].pc = "idle"
          BY <4>1 DEF Begin
        <5> QED  BY <1>1, <5>1, OthersStay
      <4>2. CASE ~\E r \in Requests, f \in Path : Begin(c, r, f)
        BY <1>1, <4>2, CommandGoesOn, OthersIdle
      <4> QED  BY <4>1, <4>2
    <3> QED  BY <3>1 DEF DoneInv, AtWork
  <2> DEFINE at == cmd[c].at
             turn == cmd[c].turn
             x == cmd'[c]
  <2>a. \A n \in Provider : n \in Nat
    BY ProvidersOrdered
  <2>b. cmd[c] \in CmdRecord
    BY <1>0
  <2>2. CASE x.pc \in {"idle", "turn", "select", "hand", "launch"}
    BY <2>1, <2>2 DEF DoneInv, AtWork, AllDone
  <2>3. CASE First(c)
    <3>1. TurnTaken(c, 1, cmd[c], x) /\ x \in CmdRecord
      BY <2>3, TurnsTo
    <3>2. \A q \in Provider : cmd[c].want[q] = "off" => x.pc # "save" /\ ~(q < x.turn)
      BY <2>a, <3>1, ProvidersOrdered DEF TurnTaken, CmdRecord
    <3>3. x.pc \in {"save", "look", "install"} /\ x.want = cmd[c].want
      BY <3>1 DEF TurnTaken
    <3>4. DoneInv(c)'
      BY <3>2, <3>3 DEF DoneInv
    <3> QED  BY <2>1, <3>4 DEF AllDone
  <2>4. ASSUME Stash(c) \/ Put(c) \/ Look(c) \/ Remove(c) \/ Unlink(c) PROVE DoneInv(c)'
    <3>1. cmd[c].pc # "idle" /\ at \in Path /\ turn \in Provider /\ DoneInv(c)
      BY <1>0, <2>4 DEF Stash, Put, Look, Remove, Unlink, CmdRecord, Works, CommandInv, AllDone
    <3>2. cmd[c].pc \in AtWork
      BY <2>4 DEF Stash, Put, Look, Remove, Unlink, AtWork
    <3>3. \A q \in Provider : cmd[c].want[q] = "off" /\ q < turn => Restored(c, q)
      BY <3>1, <3>2 DEF DoneInv
    <3>4. CASE Stash(c)
      <4>1. x = [cmd[c] EXCEPT !.pc = "put"]
        BY <3>4, MovesTo
      <4>2. x.pc = "put" /\ x.at = at /\ x.turn = turn /\ x.want = cmd[c].want
        BY <2>b, <4>1 DEF CmdRecord
      <4>3. auth' = auth /\ held' = held
        BY <3>4 DEF Stash, history
      <4>4. auth[at][turn].kind = "native" => backup'[turn] = auth[at][turn].of
        BY <1>0, <3>1, <3>4 DEF Stash
      <4> QED  BY <3>3, <4>2, <4>3, <4>4 DEF DoneInv, Restored, AtWork
    <3>5. CASE Look(c)
      <4>1. /\ x.pc = "remove" /\ x.found = backup[turn] /\ x.at = at /\ x.turn = turn
            /\ x.want = cmd[c].want
        BY <3>5, LooksTo
      <4>2. auth' = auth /\ held' = held /\ backup' = backup
        BY <3>5 DEF Look, history
      <4> QED  BY <3>3, <4>1, <4>2 DEF DoneInv, Restored, AtWork
    <3>6. CASE Put(c)
      <4>1. TurnTaken(c, turn + 1, [cmd[c] EXCEPT !.wrote = TRUE], x) /\ x \in CmdRecord
        BY <3>6, TurnsTo
      <4>2. /\ x.pc \in {"save", "look", "install"} /\ x.at = at /\ x.want = cmd[c].want
            /\ \A q \in Provider : cmd[c].want[q] = "off" /\ q >= turn + 1 => x.pc # "save" /\ x.turn <= q
        BY <2>b, <4>1 DEF TurnTaken, CmdRecord
      <4>3. cmd[c].want[turn] # "off"
        BY <3>6 DEF Put, Works, CommandInv
      <4>4. x.turn \in Nat /\ turn \in Nat
        BY <2>a, <3>1, <4>1 DEF CmdRecord
      <4>5. \A q \in Provider : Undone(c, q)' => cmd[c].want[q] = "off" /\ q < turn
        BY <2>a, <4>2, <4>3, <4>4 DEF Undone, AtWork
      <4>6. \A q \in Provider : q # turn => held'[q] = held[q] /\ auth'[at][q] = auth[at][q]
        BY <1>0, <3>1, <3>6 DEF Put
      <4>7. \A q \in Provider : Undone(c, q)' => Restored(c, q)'
        BY <2>a, <3>1, <3>3, <4>2, <4>4, <4>5, <4>6 DEF Restored
      <4> QED  BY <4>2, <4>7 DEF DoneInv, Undone
    <3>7. CASE Unlink(c)
      <4>1. TurnTaken(c, turn + 1, cmd[c], x) /\ x \in CmdRecord
        BY <3>7, TurnsTo
      <4>2. /\ x.pc \in {"save", "look", "install"} /\ x.at = at /\ x.want = cmd[c].want
            /\ \A q \in Provider : cmd[c].want[q] = "off" /\ q >= turn + 1 => x.pc # "save" /\ x.turn <= q
        BY <2>b, <4>1 DEF TurnTaken, CmdRecord
      <4>3. Restored(c, turn)
        BY <3>1, <3>7 DEF Unlink, DoneInv
      <4>4. x.turn \in Nat /\ turn \in Nat
        BY <2>a, <3>1, <4>1 DEF CmdRecord
      <4>5. \A q \in Provider : Undone(c, q)' => cmd[c].want[q] = "off" /\ (q < turn \/ q = turn)
        BY <2>a, <4>2, <4>4 DEF Undone, AtWork
      <4>6. auth' = auth /\ held' = held
        BY <3>7 DEF Unlink, history
      <4>7. \A q \in Provider : Undone(c, q)' => Restored(c, q)'
        BY <3>3, <4>2, <4>3, <4>5, <4>6 DEF Restored
      <4> QED  BY <4>2, <4>7 DEF DoneInv, Undone
    <3>8. CASE Remove(c)
      <4>1. \/ x = [cmd[c] EXCEPT !.pc = "unlink", !.wrote = TRUE]
            \/ x = [cmd[c] EXCEPT !.pc = "unlink"]
        BY <3>8, MovesTo
      <4>2. x.pc = "unlink" /\ x.at = at /\ x.turn = turn /\ x.want = cmd[c].want
        BY <2>b, <4>1 DEF CmdRecord
      <4>3. held[turn] # NotHeld => auth[at][turn].kind = "aim" /\ held[turn].of = cmd[c].found
        BY <3>1, <3>8, FoundHere DEF HeldInv, DoneInv, Remove
      <4>4. /\ auth'[at][turn].kind # "aim" /\ held'[turn] = NotHeld
            /\ \A q \in Provider : q # turn => held'[q] = held[q] /\ auth'[at][q] = auth[at][q]
        <5>1. CASE auth[at][turn].kind = "aim"
          <6>1. /\ auth' = [auth EXCEPT ![at][turn] = IF cmd[c].found # 0 THEN Login(cmd[c].found) ELSE NoEntry]
                /\ held' = [held EXCEPT ![turn] = IF cmd[c].found = held[turn].of THEN NotHeld ELSE held[turn]]
            BY <3>8, <5>1 DEF Remove
          <6>2. auth'[at][turn].kind # "aim"
            BY <1>0, <3>1, <6>1 DEF Login, NoEntry
          <6>3. held'[turn] = NotHeld
            BY <1>0, <3>1, <4>3, <6>1
          <6> QED  BY <1>0, <3>1, <6>1, <6>2, <6>3
        <5>2. CASE auth[at][turn].kind # "aim"
          BY <3>8, <4>3, <5>2 DEF Remove
        <5> QED  BY <5>1, <5>2
      <4>5. Restored(c, turn)'
        BY <4>2, <4>4 DEF Restored
      <4>6. \A q \in Provider : cmd[c].want[q] = "off" /\ q < turn => Restored(c, q)'
        BY <2>a, <3>1, <3>3, <4>2, <4>4 DEF Restored
      <4> QED  BY <4>2, <4>5, <4>6 DEF DoneInv
    <3> QED  BY <2>4, <3>4, <3>5, <3>6, <3>7, <3>8
  <2>5. CASE Stash(c) \/ Put(c) \/ Look(c) \/ Remove(c) \/ Unlink(c)
    BY <2>1, <2>4, <2>5 DEF AllDone
  <2>6. CASE ~(First(c) \/ Stash(c) \/ Put(c) \/ Look(c) \/ Remove(c) \/ Unlink(c))
    <3>1. x.pc \in {"idle", "turn", "select", "hand", "launch"}
      <4>1. CASE \E r \in Requests, f \in Path : Begin(c, r, f)
        BY <4>1, BeginTo
      <4>2. ASSUME NEW chosen \in Chosens, Select(c, chosen) PROVE x.pc \in {"idle", "turn", "hand"}
        <5> HIDE DEF Idle
        <5>1. \/ cmd' = [cmd EXCEPT ![c] = Idle]
              \/ cmd' = [cmd EXCEPT ![c] = [cmd[c] EXCEPT !.chosen = chosen, !.pc = "hand"]]
              \/ cmd' = [cmd EXCEPT ![c] = [cmd[c] EXCEPT !.chosen = chosen, !.pc = "turn",
                                               !.ready = Idle.ready, !.root = Idle.root]]
          BY <4>2, SelectTo DEF Chosens
        <5>2. \/ cmd'[c] = Idle
              \/ cmd'[c] = [cmd[c] EXCEPT !.chosen = chosen, !.pc = "hand"]
              \/ cmd'[c] = [cmd[c] EXCEPT !.chosen = chosen, !.pc = "turn",
                                          !.ready = Idle.ready, !.root = Idle.root]
          BY <1>0, <5>1
        <5> QED  BY <2>b, <5>2, IdleTyped DEF CmdRecord
      <4>3. CASE Save(c) \/ Launch(c) \/ Handoff(c) \/ Stop(c)
        <5> HIDE DEF Idle
        <5>1. cmd'[c] = Idle \/ cmd'[c] = [cmd[c] EXCEPT !.pc = "launch"]
          BY <4>3, MovesTo
        <5> QED  BY <2>b, <5>1, IdleTyped DEF CmdRecord
      <4> QED  BY <1>1, <2>6, <4>1, <4>2, <4>3 DEF CommandMove
    <3> QED  BY <2>2, <3>1
  <2> QED  BY <2>3, <2>5, <2>6
<1>2. ASSUME cmd' = cmd, held' = held, auth' = auth, backup' = backup PROVE AllDone'
  BY <1>2 DEF AllDone, DoneInv, Restored
<1>4. ASSUME NEW f \in Path, NEW p \in Provider, Harness(f, p), NEW c \in Command PROVE DoneInv(c)'
  <2>1. held' = [held EXCEPT ![p] = IF held[p].at = f THEN NotHeld ELSE held[p]]
        /\ backup' = backup /\ cmd' = cmd /\ lock[f] = Nobody
    BY <1>4 DEF Harness
  <2>2. auth' = [auth EXCEPT ![f][p] = Login(born')] \/ auth' = [auth EXCEPT ![f][p] = NoEntry]
    BY <1>4 DEF Harness
  <2>3. \A g \in Path, q \in Provider : auth[g][q].kind # "aim" => auth'[g][q].kind # "aim"
    BY <1>0, <2>2 DEF Login, NoEntry
  <2>4. \A q \in Provider : held[q] = NotHeld => held'[q] = NotHeld
    BY <1>0, <2>1
  <2>5. cmd[c].pc # "idle" => cmd[c].at \in Path
    BY DEF Works, CommandInv
  <2>6. \A q \in Provider : cmd[c].pc # "idle" /\ Restored(c, q) => Restored(c, q)'
    BY <2>1, <2>3, <2>4, <2>5 DEF Restored
  <2>7. cmd[c].pc = "put" => auth'[cmd[c].at] = auth[cmd[c].at]
    <3>1. cmd[c].pc = "put" => cmd[c].at # f
      BY <2>1, ConstantsAssumption DEF Works, CommandInv
    <3> QED  BY <1>0, <2>2, <2>5, <3>1
  <2>8. cmd[c].turn \in Provider
    BY <1>0 DEF CmdRecord
  <2> QED  BY <2>1, <2>6, <2>7, <2>8 DEF AllDone, DoneInv, AtWork
<1>5. CASE \E l \in Labels(RootProvider) : RecordChange(l)
  BY <1>2, <1>5 DEF RecordChange, history
<1>6. CASE UNCHANGED harnessVars
  BY <1>2, <1>6 DEF harnessVars, history
<1> QED  BY <1>1, <1>4, <1>5, <1>6 DEF HarnessNext, CommandMove, Chosens, AllDone

-----------------------------------------------------------------------------
(* The handoffs of the root. *)

LEMMA LabelsFinite ==
    ASSUME NEW p \in Provider, NEW S \in SUBSET Labels(p)
    PROVE  IsFiniteSet(S) /\ Cardinality(S) \in Nat
<1>1. IsFiniteSet(Labels(p))
  BY FS_Interval, ConstantsAssumption DEF Labels
<1> QED  BY <1>1, FS_Subset, FS_CardinalityType

(* The labels had since the i-th, other than the last one. *)
Had(past, i) == {past[j] : j \in i..Len(past)}

LEMMA HadBefore ==
    ASSUME NEW past \in Seq(Nat), NEW i \in 1..Len(past), NEW S, past[Len(past)] \notin S,
           IsFiniteSet(S)
    PROVE  Cardinality(Had(past, i) \cap S) <= Len(past) - i
<1> DEFINE n == Len(past)
           T == {past[j] : j \in i..(n - 1)}
           f == [j \in i..(n - 1) |-> past[j]]
<1>0. n \in Nat /\ i \in Nat /\ i <= n
  OBVIOUS
<1>1. f \in Surjection(i..(n - 1), T)
  BY DEF Surjection
<1>2. IsFiniteSet(i..(n - 1)) /\ Cardinality(i..(n - 1)) = n - i
  <2>1. i \in Int /\ n - 1 \in Int
    BY <1>0
  <2> HIDE DEF n
  <2>2. (IF i > n - 1 THEN 0 ELSE n - 1 - i + 1) = n - i
    BY <1>0
  <2> QED  BY <2>1, <2>2, FS_Interval
<1>3. IsFiniteSet(T) /\ Cardinality(T) <= n - i
  <2> HIDE DEF T, f, n
  <2>1. IsFiniteSet(T) /\ Cardinality(T) <= Cardinality(i..(n - 1))
    BY <1>1, <1>2, FS_Surjection DEF ExistsSurjection
  <2> QED  BY <1>2, <2>1
<1>4. Had(past, i) \cap S \subseteq T
  <2>1. ASSUME NEW j \in i..n, past[j] \in S PROVE j \in i..(n - 1)
    <3>1. j # n
      BY <2>1
    <3> QED  BY <1>0, <3>1
  <2> QED  BY <2>1 DEF Had
<1>5. Cardinality(Had(past, i) \cap S) <= Cardinality(T)
  <2> HIDE DEF T
  <2> QED  BY <1>3, <1>4, FS_Subset
<1>6. Cardinality(T) \in Nat /\ Cardinality(Had(past, i) \cap S) \in Nat
  <2> HIDE DEF T
  <2>1. IsFiniteSet(Had(past, i) \cap S)
    BY <1>3, <1>4, FS_Subset
  <2> QED  BY <1>3, <2>1, FS_CardinalityType
<1> HIDE DEF n, T
<1>7. Cardinality(Had(past, i) \cap S) <= n - i
  BY <1>0, <1>3, <1>5, <1>6
<1> QED  BY <1>7 DEF n

(* Some other label is fresh: if all had been had lately, the earliest of  *)
(* them would not count as recent.                                         *)
LEMMA SomeFresh ==
    ASSUME NEW past \in Seq(Nat), NEW S, S # {}, IsFiniteSet(S)
    PROVE  S \ Recent(past, S) # {}
<1> DEFINE late == {i \in DOMAIN past : past[i] \in S
                       /\ Cardinality(Had(past, i) \cap S) < Cardinality(S)}
<1>1. Recent(past, S) = {past[i] : i \in late}
  BY DEF Recent, Had
<1>2. SUFFICES ASSUME S \subseteq Recent(past, S) PROVE FALSE
  OBVIOUS
<1>3. late # {} /\ late \in SUBSET Nat
  <2>1. \E l \in {past[i] : i \in late} : TRUE
    BY <1>1, <1>2
  <2>2. DOMAIN past \subseteq Nat
    OBVIOUS
  <2> QED  BY <2>1, <2>2
<1>4. PICK i \in late : \A j \in late : i <= j
  <2> HIDE DEF late
  <2> QED  BY <1>3, LeastNumber
<1>5. ASSUME NEW l \in S PROVE l \in Had(past, i)
  <2>1. PICK j \in late : past[j] = l
    <3>1. l \in {past[k] : k \in late}
      BY <1>1, <1>2
    <3> QED  BY <3>1
  <2>2. j \in i..Len(past)
    <3>1. i \in 1..Len(past) /\ j \in 1..Len(past) /\ i <= j
      BY <1>4
    <3> QED  BY <3>1
  <2> QED  BY <2>1, <2>2 DEF Had
<1>6. Had(past, i) \cap S = S
  BY <1>5
<1>7. Cardinality(S) \in Nat
  BY FS_CardinalityType
<1>8. Cardinality(Had(past, i) \cap S) < Cardinality(S)
  BY <1>4
<1>9. Cardinality(S) < Cardinality(S)
  BY <1>6, <1>8
<1> QED  BY <1>7, <1>9

(* The label that is handed on is none of the last ones, as many as the    *)
(* usable labels but for one.                                              *)
LEMMA ChoiceIsNew ==
    ASSUME NEW S \in SUBSET Labels(RootProvider), NEW past \in Seq(Nat), past # <<>>,
           RootProvider \in Balanced, NEW new,
           new \in Choices(RootProvider, S, past[Len(past)], past), new # past[Len(past)],
           NEW i \in 1..Len(past), Len(past) + 1 - i < Cardinality(S)
    PROVE  past[i] # new
<1> DEFINE n == Len(past)
           others == S \ {past[n]}
           fresh == others \ Recent(past, others)
<1>0. n \in Nat /\ i \in Nat /\ i <= n /\ RootProvider \in Provider
  BY ConstantsAssumption
<1>1. IsFiniteSet(S) /\ Cardinality(S) \in Nat
  BY <1>0, LabelsFinite
<1>2. /\ IsFiniteSet(others) /\ Cardinality(others) \in Nat
      /\ Cardinality(S) - 1 <= Cardinality(others)
  <2>1. /\ IsFiniteSet(others)
        /\ Cardinality(others) = IF past[n] \in S THEN Cardinality(S) - 1 ELSE Cardinality(S)
    BY <1>1, FS_RemoveElement
  <2>2. Cardinality(others) \in Nat
    BY <2>1, FS_CardinalityType
  <2> HIDE DEF others
  <2> QED  BY <1>1, <2>1, <2>2
<1>3. new \in others
  BY DEF Choices
<1>4. fresh # {}
  <2> HIDE DEF others
  <2> QED  BY <1>2, <1>3, SomeFresh
<1>5. new \notin Recent(past, others)
  BY <1>4 DEF Choices
<1>6. Cardinality(Had(past, i) \cap others) <= n - i
  <2>1. past[Len(past)] \notin others
    OBVIOUS
  <2> HIDE DEF others
  <2> QED  BY <1>2, <2>1, HadBefore DEF n
<1>7. Cardinality(Had(past, i) \cap others) < Cardinality(others)
  <2>1. Cardinality(Had(past, i) \cap others) \in Nat
    <3>1. IsFiniteSet(Had(past, i) \cap others)
      <4> HIDE DEF others
      <4>1. Had(past, i) \cap others \in SUBSET others
        OBVIOUS
      <4> QED  BY <1>2, <4>1, FS_Subset
    <3> QED  BY <3>1, FS_CardinalityType
  <2>2. n + 1 - i < Cardinality(S)
    OBVIOUS
  <2> HIDE DEF others, n
  <2> QED  BY <1>0, <1>1, <1>2, <1>6, <2>1, <2>2
<1>8. SUFFICES ASSUME past[i] = new PROVE FALSE
  OBVIOUS
<1>9. i \in DOMAIN past
  OBVIOUS
<1> HIDE DEF others, fresh
<1> QED  BY <1>3, <1>5, <1>7, <1>8, <1>9 DEF Recent, Had

RootWalk == WalkInv /\ HandoffsWalk

LEMMA WalkStep ==
    ASSUME HarnessTypeOK, Works, RootWalk, [HarnessNext]_harnessVars
    PROVE  RootWalk'
<1>0. /\ root \in RootRecord /\ walk \in WalkRecord /\ cmd \in [Command -> CmdRecord]
      /\ ready \in [Provider -> SUBSET Nat] /\ RootProvider \in Provider
  BY ConstantsAssumption DEF HarnessTypeOK
<1>1. ASSUME NEW n, root' = [label |-> n, past |-> <<n>>], walk'.past = <<n>> PROVE RootWalk'
  <2>1. WalkInv'
    BY <1>1 DEF WalkInv
  <2>2. HandoffsWalk'
    BY <1>1 DEF HandoffsWalk
  <2> QED  BY <2>1, <2>2 DEF RootWalk
<1>2. ASSUME root' = root, walk' = walk PROVE RootWalk'
  BY <1>2 DEF RootWalk, WalkInv, HandoffsWalk
<1>3. ASSUME NEW c \in Command, Launch(c) PROVE RootWalk'
  <2>1. \/ /\ root' = [label |-> auth[cmd[c].env][RootProvider].of,
                       past |-> <<auth[cmd[c].env][RootProvider].of>>]
           /\ walk' = [past |-> <<auth[cmd[c].env][RootProvider].of>>, among |-> ready[RootProvider]]
        \/ root' = root /\ walk' = walk
    BY <1>3 DEF Launch
  <2>2. CASE root' = root /\ walk' = walk
    BY <1>2, <2>2
  <2>3. CASE /\ root' = [label |-> auth[cmd[c].env][RootProvider].of,
                       past |-> <<auth[cmd[c].env][RootProvider].of>>]
             /\ walk' = [past |-> <<auth[cmd[c].env][RootProvider].of>>, among |-> ready[RootProvider]]
    <3>1. walk'.past = <<auth[cmd[c].env][RootProvider].of>>
      BY <2>3
    <3> QED  BY <1>1, <2>3, <3>1
  <2> QED  BY <2>1, <2>2, <2>3
<1>4. ASSUME NEW c \in Command, Handoff(c) PROVE RootWalk'
  <2> DEFINE new == cmd[c].chosen[RootProvider]
             past == root.past
             n == Len(root.past)
             m == Len(walk.past)
  <2>1. /\ new \in Nat /\ past \in Seq(Nat) /\ walk.past \in Seq(Nat)
        /\ n \in Nat /\ m \in Nat /\ cmd[c] \in CmdRecord
    BY <1>0 DEF RootRecord, WalkRecord, CmdRecord
  <2>2. /\ m \in 1..n /\ root.label = past[n]
        /\ \A i \in 1..m : walk.past[i] = past[n - m + i]
    BY DEF RootWalk, WalkInv
  <2>3. CASE root.label # cmd[c].root.label
    BY <1>2, <1>4, <2>3 DEF Handoff
  <2>4. ASSUME root.label = cmd[c].root.label PROVE RootWalk'
    <3>1. root' = [label |-> new, past |-> Append(past, new)]
      BY <1>4, <2>4 DEF Handoff
    <3>2. /\ root'.label = new /\ root'.past = Append(past, new)
      BY <3>1
    <3>3. Len(root'.past) = n + 1 /\ root'.past[n + 1] = new /\ \A i \in 1..n : root'.past[i] = past[i]
      BY <2>1, <3>2
    <3>4. CASE cmd[c].ready[RootProvider] = walk.among /\ cmd[c].root = root
      <4>1. walk' = [walk EXCEPT !.past = Append(walk.past, new)]
        BY <1>4, <2>4, <3>4 DEF Handoff
      <4>2. walk'.past = Append(walk.past, new) /\ walk'.among = walk.among
        BY <1>0, <4>1 DEF WalkRecord
      <4>3. /\ Len(walk'.past) = m + 1 /\ walk'.past[m + 1] = new
            /\ \A i \in 1..m : walk'.past[i] = walk.past[i]
        BY <2>1, <4>2
      <4> HIDE DEF n, m, past, new
      <4>4. WalkInv'
        <5>1. m + 1 \in 1..(n + 1) /\ root'.label = root'.past[n + 1]
          BY <2>1, <2>2, <3>2, <3>3
        <5>2. ASSUME NEW i \in 1..(m + 1)
              PROVE  walk'.past[i] = root'.past[(n + 1) - (m + 1) + i]
          <6>1. CASE i = m + 1
            <7>1. (n + 1) - (m + 1) + i = n + 1
              BY <2>1, <6>1
            <7> QED  BY <3>3, <4>3, <6>1, <7>1
          <6>2. CASE i # m + 1
            <7>1. i \in 1..m /\ (n + 1) - (m + 1) + i = n - m + i /\ n - m + i \in 1..n
              BY <2>1, <2>2, <6>2
            <7> QED  BY <2>2, <3>3, <4>3, <7>1
          <6> QED  BY <6>1, <6>2
        <5> QED  BY <3>3, <4>3, <5>1, <5>2 DEF WalkInv
      <4>5. HandoffsWalk'
        <5>1. SUFFICES ASSUME RootProvider \in Balanced,
                              NEW i \in 1..(m + 1), NEW j \in 1..(m + 1), i < j,
                              j - i < Cardinality(walk.among)
                       PROVE  walk'.past[i] # walk'.past[j]
          BY <4>2, <4>3 DEF HandoffsWalk
        <5>2. CASE j # m + 1
          <6>1. i \in 1..m /\ j \in 1..m
            BY <2>1, <5>1, <5>2
          <6>2. walk.past[i] # walk.past[j]
            BY <5>1, <6>1 DEF RootWalk, HandoffsWalk, m
          <6> QED  BY <4>3, <6>1, <6>2
        <5>3. CASE j = m + 1
          <6>1. i \in 1..m /\ n - m + i \in 1..n /\ n + 1 - (n - m + i) = j - i
            <7>1. /\ n \in Nat /\ m \in Nat /\ m <= n /\ i \in Nat /\ 1 <= i /\ i < m + 1
                  /\ j = m + 1
              BY <2>1, <2>2, <5>1, <5>3
            <7> QED  BY <7>1
          <6>2. /\ new # past[n]
                /\ new \in Choices(RootProvider, walk.among, past[n], past)
                /\ walk.among \in SUBSET Labels(RootProvider)
            <7>1. cmd[c].pc = "hand" /\ CommandInv(c)
              BY <1>4 DEF Handoff, Works
            <7>2. cmd[c].root.label = past[n] /\ cmd[c].root.past = past
              BY <2>2, <3>4 DEF past
            <7>3. /\ cmd[c].chosen[RootProvider] # cmd[c].root.label
                  /\ cmd[c].chosen[RootProvider] \in
                       Choices(RootProvider, cmd[c].ready[RootProvider], cmd[c].root.label, cmd[c].root.past)
              BY <7>1 DEF CommandInv
            <7>4. walk.among \in SUBSET Labels(RootProvider)
              BY <1>0 DEF WalkRecord
            <7> QED  BY <3>4, <7>2, <7>3, <7>4 DEF new
          <6>3. past # <<>> /\ n = Len(past) /\ past \in Seq(Nat)
            BY <2>1, <2>2 DEF n, past
          <6>4. past[n - m + i] # new
            <7> DEFINE k == n - m + i
            <7>1. k \in 1..Len(past) /\ Len(past) + 1 - k < Cardinality(walk.among)
              BY <5>1, <6>1, <6>3
            <7> HIDE DEF k
            <7>2. past[k] # new
              BY <5>1, <6>2, <6>3, <7>1, ChoiceIsNew
            <7> QED  BY <7>2 DEF k
          <6> QED  BY <2>2, <4>3, <5>3, <6>1, <6>4
        <5> QED  BY <5>2, <5>3
      <4> QED  BY <4>4, <4>5 DEF RootWalk
    <3>5. CASE ~(cmd[c].ready[RootProvider] = walk.among /\ cmd[c].root = root)
      <4>1. walk' = [past |-> <<new>>, among |-> cmd[c].ready[RootProvider]]
        BY <1>4, <2>4, <3>5 DEF Handoff
      <4>2. walk'.past = <<new>>
        BY <4>1
      <4>3. WalkInv'
        <5>1. Len(walk'.past) = 1 /\ walk'.past[1] = new
          BY <4>2
        <5> HIDE DEF n, new, past
        <5>2. \A i \in 1..1 : walk'.past[i] = root'.past[(n + 1) - 1 + i]
          <6>1. (n + 1) - 1 + 1 = n + 1
            BY <2>1
          <6>2. walk'.past[1] = root'.past[(n + 1) - 1 + 1]
            BY <3>3, <5>1, <6>1
          <6> QED  BY <6>2
        <5>3. 1 \in 1..(n + 1) /\ root'.label = root'.past[n + 1]
          BY <2>1, <3>2, <3>3
        <5> QED  BY <3>3, <5>1, <5>2, <5>3 DEF WalkInv
      <4>4. HandoffsWalk'
        BY <4>2 DEF HandoffsWalk
      <4> QED  BY <4>3, <4>4 DEF RootWalk
    <3> QED  BY <3>4, <3>5
  <2> QED  BY <2>3, <2>4
<1>5. ASSUME NEW c \in Command, CommandMove(c), ~(Launch(c) \/ Handoff(c)) PROVE RootWalk'
  BY <1>2, <1>5 DEF CommandMove, Begin, Select, First, Stash, Put, Look, Remove, Unlink, Save, Stop, history
<1>6. CASE \E f \in Path, p \in Provider : Harness(f, p)
  BY <1>2, <1>6 DEF Harness
<1>7. CASE \E l \in Labels(RootProvider) : RecordChange(l)
  BY <1>2, <1>7 DEF RecordChange, history
<1>8. CASE UNCHANGED harnessVars
  BY <1>2, <1>8 DEF harnessVars, history
<1> QED  BY <1>3, <1>4, <1>5, <1>6, <1>7, <1>8 DEF HarnessNext, CommandMove, Chosens

-----------------------------------------------------------------------------
HarnessInv == HarnessTypeOK /\ Works /\ LockInv /\ CalmInv /\ RootWalk

LEMMA HarnessInitial == HarnessInit => HarnessInv
<1> SUFFICES ASSUME HarnessInit PROVE HarnessInv
  OBVIOUS
<1>0. /\ RootProvider \in Provider /\ 1 \in Labels(RootProvider) /\ Nobody \notin Command
      /\ \A p \in Provider : Labels(p) \in SUBSET Nat
  BY ConstantsAssumption, ProvidersOrdered
<1>1. HarnessTypeOK
  <2>1. Login(1) \in Entry /\ NotHeld \in [of : Nat, at : Place] /\ Nowhere \in Place
    BY DEF Login, Entry, NotHeld, Place
  <2>2. root \in RootRecord /\ walk \in WalkRecord
    BY <1>0 DEF HarnessInit, RootRecord, WalkRecord
  <2>3. cmd \in [Command -> CmdRecord]
    <3> HIDE DEF Idle
    <3> QED  BY IdleTyped DEF HarnessInit
  <2> QED  BY <1>0, <2>1, <2>2, <2>3 DEF HarnessInit, HarnessTypeOK
<1>2. \A c \in Command : cmd[c].pc = "idle"
  <2> HIDE DEF Idle
  <2> QED  BY IdleTyped DEF HarnessInit
<1>3. Works /\ LockInv
  BY <1>0, <1>2 DEF HarnessInit, Works, CommandInv, LockInv
<1>4. CalmInv
  BY <1>2 DEF HarnessInit, CalmInv, Alone, OwnedInv, FoundInv, HeldInv, DoneInv, AtWork, Login
<1>5. RootWalk
  <2>1. root.past = <<1>> /\ root.label = 1 /\ walk.past = <<1>>
    BY DEF HarnessInit
  <2> QED  BY <2>1 DEF RootWalk, WalkInv, HandoffsWalk
<1> QED  BY <1>1, <1>3, <1>4, <1>5 DEF HarnessInv

LEMMA WholeKept ==
    ASSUME [HarnessNext]_harnessVars, whole' PROVE whole
<1>1. ASSUME NEW c \in Command, CommandMove(c) PROVE whole
  <2>1. CASE \E r \in Requests, f \in Path : Begin(c, r, f)
    BY <2>1 DEF Begin
  <2>2. CASE \E chosen \in Chosens : Select(c, chosen)
    BY <2>2 DEF Select, history
  <2>3. CASE First(c) \/ Stash(c) \/ Put(c) \/ Look(c)
    BY <2>3 DEF First, Stash, Put, Look, history
  <2>4. CASE Remove(c) \/ Unlink(c) \/ Save(c)
    BY <2>4 DEF Remove, Unlink, Save, history
  <2>5. CASE Launch(c) \/ Handoff(c) \/ Stop(c)
    BY <2>5 DEF Launch, Handoff, Stop
  <2> QED  BY <1>1, <2>1, <2>2, <2>3, <2>4, <2>5 DEF CommandMove
<1>2. CASE \E f \in Path, p \in Provider : Harness(f, p)
  BY <1>2 DEF Harness
<1>3. CASE \E l \in Labels(RootProvider) : RecordChange(l)
  BY <1>3 DEF RecordChange, history
<1>4. CASE UNCHANGED harnessVars
  BY <1>4 DEF harnessVars, history
<1> QED  BY <1>1, <1>2, <1>3, <1>4 DEF HarnessNext, CommandMove, Chosens

LEMMA HarnessStep ==
    ASSUME HarnessInv, [HarnessNext]_harnessVars PROVE HarnessInv'
<1>1. HarnessTypeOK /\ Works /\ LockInv /\ CalmInv /\ RootWalk
  BY DEF HarnessInv
<1>2. HarnessTypeOK' /\ Works' /\ LockInv' /\ RootWalk'
  BY <1>1, HarnessTypeStep, WorksStep, LockStep, WalkStep
<1>3. ASSUME calm' PROVE Alone' /\ AllOwned' /\ (whole' => FoundInv' /\ HeldInv' /\ AllDone')
  <2>1. calm /\ Alone /\ Alone' /\ AllOwned
    BY <1>1, <1>3, AloneKept DEF CalmInv, AllOwned
  <2>2. AllOwned'
    BY <1>1, <1>3, <2>1, OwnedStep
  <2>3. ASSUME whole' PROVE FoundInv' /\ HeldInv' /\ AllDone'
    <3>1. FoundInv /\ HeldInv /\ AllDone
      BY <1>1, <2>1, <2>3, WholeKept DEF CalmInv, AllDone
    <3> QED  BY <1>1, <1>3, <2>1, <2>3, <3>1, FoundStep, HeldStep, DoneStep
  <2> QED  BY <2>1, <2>2, <2>3
<1>4. CalmInv'
  BY <1>3 DEF CalmInv, AllOwned, AllDone
<1> QED  BY <1>2, <1>4 DEF HarnessInv

(* The entries, the locks, the backup, the local state, the commands and   *)
(* the root keep to their types, whatever commands run on whatever files.  *)
THEOREM HarnessTypeCorrect == HarnessSpec => []HarnessTypeOK
<1>1. HarnessInv => HarnessTypeOK
  BY DEF HarnessInv
<1> QED  BY <1>1, HarnessInitial, HarnessStep, PTL DEF HarnessSpec

(* A login that AIM displaced is in the backup until it is put back, an    *)
(* uninstall gives every file back what it had, as long as the commands    *)
(* are given one after the other and none stops before its record; and     *)
(* handoffs use the whole pool before an account comes again, for every    *)
(* pool, every number of processes, files and providers.                   *)
THEOREM TargetsCompose == HarnessSpec => CommandsCompose
<1>1. HarnessInv => HeldKept /\ HandoffsWalk
  BY DEF HarnessInv, CalmInv, HeldInv, HeldKept, RootWalk
<1>2. ASSUME HarnessInv, NEW c \in Command, NEW p \in Provider, NEW f \in Path,
             Ends(c), cmd[c].pc = "save", cmd[c].want[p] = "off", calm, whole
      PROVE  auth[f][p].kind # "aim" /\ held[p] = NotHeld
  <2>1. Restored(c, p)
    BY <1>2 DEF HarnessInv, CalmInv, DoneInv
  <2>2. auth[f][p].kind = "aim" => f = cmd[c].at
    BY <1>2, FoundHere DEF HarnessInv, CalmInv, AllOwned
  <2> QED  BY <2>1, <2>2 DEF Restored
<1>3. ASSUME HarnessInv, [HarnessNext]_harnessVars
      PROVE  [\A c \in Command, p \in Provider :
                Ends(c) /\ cmd[c].pc = "save" /\ cmd[c].want[p] = "off" /\ calm /\ whole =>
                   \A f \in Path : auth[f][p].kind # "aim" /\ held[p] = NotHeld]_harnessVars
  BY <1>2, <1>3
<1> QED  BY <1>1, <1>3, HarnessInitial, HarnessStep, PTL DEF HarnessSpec, CommandsCompose, UninstallRestores

-----------------------------------------------------------------------------
(* OpenClaw: what a rebalance has settled at each of its steps. *)

Models == {"gone", "other", "claude", "codex"}
RebalanceSteps == {"idle", "plan", "auth", "stores", "models", "scan", "reset", "restart", "save"}

\* The shapes of what is written in part, and the ranges that are relied upon.
SyncShapes ==
    /\ config \in [Agent -> Models]
    /\ order = [a \in Agent |-> order[a]]
    /\ session = [a \in Agent |-> session[a]]
    /\ job = [pc |-> job.pc, cred |-> job.cred, old |-> job.old, next |-> job.next,
              list |-> job.list, todo |-> job.todo, wrote |-> job.wrote, ok |-> job.ok]
    /\ job.pc \in RebalanceSteps /\ job.list \in [Agent -> Models] /\ job.todo \subseteq Agent
    /\ job.wrote \in BOOLEAN /\ job.ok \in BOOLEAN /\ (job.ok => job.pc = "save")
    /\ (job.wrote => job.pc \notin {"plan", "auth"})
    /\ even \in BOOLEAN /\ written \in BOOLEAN

\* A step from `first` on, of the steps of a rebalance in their order, or its good end.
EndedWell == job.pc = "save" /\ job.ok
FromStores == EndedWell \/ job.pc \in {"stores", "models", "scan", "reset", "restart"}
FromModels == EndedWell \/ job.pc \in {"models", "scan", "reset", "restart"}
FromScan == EndedWell \/ job.pc \in {"scan", "reset", "restart"}
FromReset == EndedWell \/ job.pc \in {"reset", "restart"}

\* As long as nothing was changed, the gateway runs what is on disk, and so it does
\* in the end.
GatewayInv ==
    even =>
      /\ job.pc \in {"plan", "auth", "stores", "models", "scan"} /\ ~job.wrote => running = Disk
      /\ EndedWell => running = Disk

\* The main store has assigned labels only, and every store that is done its order.
StoresInv ==
    FromStores =>
      /\ \A l \in AgentLabel : main[l] # 0 => \E a \in Active : job.next[a] = l
      /\ \A a \in Agent : (job.pc = "stores" /\ a \in job.todo) \/ order[a] = Order(a)

\* Nobody else edits the config of an even rebalance, and every model that is done
\* is the wanted one.
ModelsInv ==
    /\ even /\ job.pc = "stores" => config = job.list
    /\ job.pc = "models" => job.todo \subseteq Active
    /\ even /\ FromModels =>
        /\ Listed(config) = Listed(job.list)
        /\ \A a \in Active : (job.pc = "models" /\ a \in job.todo) \/ config[a] = Wanted(job.next[a])

\* Every session that is done follows its agent.
Follows(a) == ~OffPin(a) /\ session[a].model \in {"none", Desired(a)}
SessionsInv ==
    ~written /\ FromReset =>
        \A a \in Active \cup Managed(job.list) : (job.pc = "reset" /\ a \in job.todo) \/ Follows(a)

SyncInv == SyncShapes /\ GatewayInv /\ StoresInv /\ ModelsInv /\ SessionsInv

-----------------------------------------------------------------------------
LEMMA LeastIs ==
    ASSUME NEW S \in SUBSET Agent, S # {}
    PROVE  Least(S) \in S
<1>1. S \in SUBSET Nat
  BY DEF Agent
<1>2. \E n \in S : \A m \in S : n <= m
  BY <1>1, LeastNumber
<1> QED  BY <1>2 DEF Least

(* An index names one agent of a list. *)
LEMMA IndexTells ==
    ASSUME NEW list, NEW a \in Listed(list), NEW b \in Listed(list), Index(list, a) = Index(list, b),
           NumAgents \in Nat
    PROVE  a = b
<1>1. \A x \in Listed(list) : x \in Nat
  BY DEF Listed, Agent
<1>2. ASSUME NEW x \in Listed(list), NEW y \in Listed(list), x < y PROVE Index(list, x) # Index(list, y)
  <2> DEFINE S == {c \in Listed(list) : c <= x}
             T == {c \in Listed(list) : c <= y}
  <2>1. S \in SUBSET T /\ y \in T /\ y \notin S
    BY <1>1, <1>2
  <2>2. IsFiniteSet(T)
    <3>1. IsFiniteSet(Agent)
      BY FS_Interval DEF Agent
    <3>2. T \subseteq Agent
      BY DEF Listed
    <3> HIDE DEF T
    <3> QED  BY <3>1, <3>2, FS_Subset
  <2>3. Cardinality(S) # Cardinality(T)
    <3> HIDE DEF S, T
    <3> QED  BY <2>1, <2>2, FS_Subset
  <2> QED  BY <2>3 DEF Index
<1> QED  BY <1>1, <1>2

(* A step of the world or of the gateway leaves the rebalance alone. *)
LEMMA AloneInv ==
    ASSUME SyncInv, job' = job, main' = main, order' = order,
           config' \in [Agent -> Models], even' \in BOOLEAN, written' \in BOOLEAN,
           session' = [a \in Agent |-> session'[a]],
           even' => even /\ config' = config, running' \in {running, Disk},
           written' \/ (~written /\ session' = session)
    PROVE  SyncInv'
<1>1. SyncShapes'
  BY DEF SyncInv, SyncShapes
<1>2. /\ Active' = Active /\ Listed(job.list)' = Listed(job.list)
      /\ Managed(job.list)' = Managed(job.list) /\ FromStores' = FromStores /\ FromModels' = FromModels
      /\ FromReset' = FromReset /\ EndedWell' = EndedWell
      /\ \A a \in Agent : Order(a)' = Order(a) /\ Desired(a)' = Desired(a)
  BY DEF Active, Listed, Managed, FromStores, FromModels, FromReset, EndedWell, Order, Desired
<1>3. StoresInv'
  BY <1>2 DEF SyncInv, StoresInv
<1>4. GatewayInv'
  BY <1>2 DEF SyncInv, GatewayInv, Disk
<1>5. ModelsInv'
  <2>1. even' => Listed(config)' = Listed(config)
    BY DEF Listed
  <2> QED  BY <1>2, <2>1 DEF SyncInv, ModelsInv
<1>6. SessionsInv'
  <2>1. Active \cup Managed(job.list) \subseteq Agent
    BY DEF Active, Managed
  <2>2. ~written' => \A a \in Agent : Follows(a)' = Follows(a)
    BY <1>2 DEF Follows, OffPin
  <2> QED  BY <1>2, <2>1, <2>2 DEF SyncInv, SessionsInv
<1> QED  BY <1>1, <1>3, <1>4, <1>5, <1>6 DEF SyncInv

(* Before it has written, and when it ends otherwise, nothing is settled. *)
LEMMA UnsettledInv ==
    ASSUME SyncShapes', job'.pc \in {"idle", "plan", "auth"} \/ (job'.pc = "save" /\ ~job'.ok),
           even' /\ job'.pc \in {"plan", "auth"} /\ ~job'.wrote => running' = Disk'
    PROVE  SyncInv'
<1>1. ~FromStores' /\ ~FromModels' /\ ~FromReset' /\ ~EndedWell'
      /\ job'.pc \notin {"stores", "models", "scan"}
  BY DEF FromStores, FromModels, FromReset, EndedWell
<1>2. StoresInv' /\ SessionsInv' /\ ModelsInv'
  BY <1>1 DEF StoresInv, SessionsInv, ModelsInv
<1>3. GatewayInv'
  BY <1>1 DEF GatewayInv
<1> QED  BY <1>2, <1>3 DEF SyncInv

LEMMA SyncInitial == ASSUME OpenclawInit PROVE SyncInv
<1>1. /\ config = [a \in Agent |-> "other"] /\ order = [a \in Agent |-> 0]
      /\ session = [a \in Agent |-> NoSession] /\ job = NoJob /\ even = TRUE /\ written = FALSE
  BY DEF OpenclawInit
<1>2. SyncShapes
  BY <1>1 DEF SyncShapes, NoJob, Models, RebalanceSteps
<1>3. job.pc = "idle"
  BY <1>1 DEF NoJob
<1> QED  BY <1>2, <1>3 DEF SyncInv, GatewayInv, StoresInv, ModelsInv, SessionsInv, FromStores,
            FromModels, FromReset, EndedWell

LEMMA WorldStep ==
    ASSUME SyncInv,
           \/ \E a \in Agent, model \in {"gone", "other", "claude"} : ConfigChange(a, model)
           \/ \E a \in Agent, n \in Tokens, l \in PoolLabel : UsageChange(a, n, l)
           \/ \E l \in AgentLabel : Maintained(l)
           \/ \E a \in Agent, pin \in {0} \cup AgentLabel : running.config[a] # "gone" /\ GatewaySession(a, pin)
           \/ GatewayRestart
           \/ UNCHANGED openclawVars
    PROVE  SyncInv'
<1>1. /\ config \in [Agent -> Models] /\ session = [a \in Agent |-> session[a]]
      /\ even \in BOOLEAN /\ written \in BOOLEAN
  BY DEF SyncInv, SyncShapes
<1>2. /\ job' = job /\ main' = main /\ order' = order
      /\ config' \in [Agent -> Models] /\ even' \in BOOLEAN /\ written' \in BOOLEAN
      /\ session' = [a \in Agent |-> session'[a]]
      /\ even' => even /\ config' = config
      /\ running' \in {running, Disk}
      /\ written' \/ (~written /\ session' = session)
  <2>1. ASSUME NEW a \in Agent, NEW model \in {"gone", "other", "claude"}, ConfigChange(a, model) PROVE <1>2
    BY <1>1, <2>1 DEF ConfigChange, Models
  <2>2. ASSUME NEW a \in Agent, NEW pin, GatewaySession(a, pin) PROVE <1>2
    BY <1>1, <2>2 DEF GatewaySession, world
  <2>3. CASE \/ \E a \in Agent, n \in Tokens, l \in PoolLabel : UsageChange(a, n, l)
             \/ \E l \in AgentLabel : Maintained(l)
             \/ GatewayRestart
             \/ UNCHANGED openclawVars
    BY <1>1, <2>3 DEF UsageChange, Maintained, GatewayRestart, openclawVars, openclawHistory, world
  <2> QED  BY <2>1, <2>2, <2>3
<1> QED  BY <1>2, AloneInv

(* A rebalance begins, plans, fails, is recorded, or dies. *)
LEMMA EndStep ==
    ASSUME SyncInv,
           RebalanceBegin \/ RebalancePlan \/ RebalanceFails \/ RebalanceSave \/ RebalanceDies
    PROVE  SyncInv'
<1>1. SyncShapes /\ GatewayInv
  BY DEF SyncInv, SyncShapes
<1>2. CASE RebalanceBegin
  <2>1. /\ job'.pc = "plan" /\ even' = (running = Disk)
        /\ job' = [pc |-> "plan", cred |-> version, old |-> assigned, next |-> assigned,
                   list |-> [a \in Agent |-> "gone"], todo |-> {}, wrote |-> FALSE, ok |-> FALSE]
    BY <1>2 DEF RebalanceBegin, NoJob
  <2>2. SyncShapes'
    <3>1. job'.list \in [Agent -> Models]
      BY <2>1 DEF Models
    <3>2. even' \in BOOLEAN
      BY <2>1
    <3>3. /\ job'.todo = {} /\ job'.wrote = FALSE /\ job'.ok = FALSE
          /\ job' = [pc |-> job'.pc, cred |-> job'.cred, old |-> job'.old, next |-> job'.next,
                     list |-> job'.list, todo |-> job'.todo, wrote |-> job'.wrote, ok |-> job'.ok]
      BY <2>1
    <3>4. config' = config /\ order' = order /\ session' = session /\ written' = FALSE
      BY <1>2 DEF RebalanceBegin, world
    <3> QED  BY <1>1, <2>1, <3>1, <3>2, <3>3, <3>4 DEF SyncShapes, RebalanceSteps
  <2>3. even' => running' = Disk'
    BY <1>2, <2>1 DEF RebalanceBegin, Disk, world
  <2> QED  BY <2>1, <2>2, <2>3, UnsettledInv
<1>3. CASE RebalancePlan
  <2>1. /\ job.pc = "plan" /\ job'.pc \in {"save", "auth"} /\ job'.ok = job.ok /\ job'.wrote = job.wrote
        /\ job'.list = job.list /\ job'.todo = job.todo
        /\ job' = [pc |-> job'.pc, cred |-> job'.cred, old |-> job'.old, next |-> job'.next,
                   list |-> job'.list, todo |-> job'.todo, wrote |-> job'.wrote, ok |-> job'.ok]
    BY <1>1, <1>3 DEF RebalancePlan, SyncShapes
  <2>2. ~job.ok
    BY <1>1, <2>1 DEF SyncShapes
  <2>3. SyncShapes'
    BY <1>1, <1>3, <2>1, <2>2 DEF SyncShapes, RebalancePlan, world, RebalanceSteps
  <2>4. even' /\ ~job'.wrote => running' = Disk'
    BY <1>1, <1>3, <2>1 DEF RebalancePlan, Disk, world, GatewayInv
  <2> QED  BY <2>1, <2>2, <2>3, <2>4, UnsettledInv
<1>4. CASE RebalanceFails
  <2>1. /\ job.pc # "save" /\ job'.pc = "save" /\ job'.ok = job.ok /\ job'.wrote = job.wrote
        /\ job'.list = job.list /\ job'.todo = job.todo
        /\ job' = [pc |-> job'.pc, cred |-> job'.cred, old |-> job'.old, next |-> job'.next,
                   list |-> job'.list, todo |-> job'.todo, wrote |-> job'.wrote, ok |-> job'.ok]
    BY <1>1, <1>4 DEF RebalanceFails, SyncShapes
  <2>2. ~job.ok
    BY <1>1, <2>1 DEF SyncShapes
  <2>3. SyncShapes'
    BY <1>1, <1>4, <2>1, <2>2 DEF SyncShapes, RebalanceFails, world, openclawHistory, RebalanceSteps
  <2> QED  BY <2>1, <2>2, <2>3, UnsettledInv
<1>5. CASE RebalanceSave \/ RebalanceDies
  <2>1. /\ job'.pc = "idle"
        /\ job' = [pc |-> "idle", cred |-> job'.cred, old |-> job'.old, next |-> job'.next,
                   list |-> [a \in Agent |-> "gone"], todo |-> {}, wrote |-> FALSE, ok |-> FALSE]
    BY <1>5 DEF RebalanceSave, RebalanceDies, NoJob
  <2>2. SyncShapes'
    <3>1. job'.list \in [Agent -> Models]
      BY <2>1 DEF Models
    <3>2. /\ job'.todo = {} /\ job'.wrote = FALSE /\ job'.ok = FALSE
          /\ job' = [pc |-> job'.pc, cred |-> job'.cred, old |-> job'.old, next |-> job'.next,
                     list |-> job'.list, todo |-> job'.todo, wrote |-> job'.wrote, ok |-> job'.ok]
      BY <2>1
    <3>3. /\ config' = config /\ order' = order /\ session' = session
          /\ even' = even /\ written' = written
      BY <1>5 DEF RebalanceSave, RebalanceDies, world, openclawHistory
    <3> QED  BY <1>1, <2>1, <3>1, <3>2, <3>3 DEF SyncShapes, RebalanceSteps
  <2> QED  BY <2>1, <2>2, UnsettledInv
<1> QED  BY <1>2, <1>3, <1>4, <1>5

(* The job a step leaves: what it has planned and read stays. *)
JobGoesTo(at, rest, changed, well) ==
    /\ job'.pc = at /\ job'.todo = rest /\ job'.wrote = changed /\ job'.ok = well
    /\ job'.next = job.next /\ job'.list = job.list
    /\ job' = [pc |-> job'.pc, cred |-> job'.cred, old |-> job'.old, next |-> job'.next,
               list |-> job'.list, todo |-> job'.todo, wrote |-> job'.wrote, ok |-> job'.ok]

LEMMA SameAgents ==
    ASSUME job'.next = job.next, job'.list = job.list
    PROVE  /\ Active' = Active /\ Managed(job.list)' = Managed(job.list)
           /\ Listed(job.list)' = Listed(job.list)
           /\ \A a : Order(a)' = Order(a) /\ Desired(a)' = Desired(a)
BY DEF Active, Managed, Listed, Order, Desired

LEMMA AuthStep == ASSUME SyncInv, RebalanceAuth PROVE SyncInv'
<1> DEFINE used == {job.next[a] : a \in {b \in Agent : config[b] # "gone"}}
           profiles == [l \in AgentLabel |-> IF l \in used THEN job.cred[l] ELSE 0]
           assignees == {a \in Agent : job.next[a] # 0 /\ config[a] # "gone"}
           rest == {a \in Agent : order[a] # 0} \cup Managed(config) \cup assignees
<1>1. SyncShapes /\ GatewayInv /\ job.pc = "auth" /\ ~job.ok
  BY DEF SyncInv, SyncShapes, RebalanceAuth
<1>2. /\ main' = profiles /\ order' = order /\ session' = session /\ config' = config
      /\ running' = running /\ even' = even /\ written' = written
      /\ job'.pc = "stores" /\ job'.todo = rest /\ job'.wrote = (main # profiles) /\ ~job'.ok
      /\ job'.next = job.next /\ job'.list = config
      /\ job' = [pc |-> job'.pc, cred |-> job'.cred, old |-> job'.old, next |-> job'.next,
                 list |-> job'.list, todo |-> job'.todo, wrote |-> job'.wrote, ok |-> job'.ok]
  BY <1>1 DEF RebalanceAuth, SyncShapes, world, openclawHistory
<1>3. SyncShapes'
  <2>1. rest \subseteq Agent
    BY DEF Managed
  <2>2. job'.wrote \in BOOLEAN
    BY <1>2
  <2>3. /\ config' = config /\ order' = order /\ session' = session
        /\ even' = even /\ written' = written /\ job'.pc = "stores" /\ ~job'.ok
        /\ job'.todo = rest /\ job'.list = config
        /\ job' = [pc |-> job'.pc, cred |-> job'.cred, old |-> job'.old, next |-> job'.next,
                   list |-> job'.list, todo |-> job'.todo, wrote |-> job'.wrote, ok |-> job'.ok]
    BY <1>2
  <2>4. job'.ok \in BOOLEAN
    BY <1>1 DEF RebalanceAuth, SyncShapes
  <2> HIDE DEF rest
  <2> QED  BY <1>1, <2>1, <2>2, <2>3, <2>4 DEF SyncShapes, RebalanceSteps
<1>4. GatewayInv'
  <2>1. ~job.wrote
    BY <1>1 DEF SyncShapes
  <2>2. even' /\ ~job'.wrote => running' = Disk'
    BY <1>1, <1>2, <2>1 DEF GatewayInv, Disk
  <2> QED  BY <1>2, <2>2 DEF GatewayInv, EndedWell
<1>5. Active' = assignees /\ Managed(job.list)' = Managed(config)
  BY <1>2 DEF Active, Managed
<1>6. StoresInv'
  <2>1. ASSUME NEW l \in AgentLabel, main'[l] # 0 PROVE \E a \in Active' : job'.next[a] = l
    <3>1. l \in used
      BY <1>2, <2>1
    <3>2. l # 0
      BY DEF AgentLabel
    <3> QED  BY <1>2, <1>5, <3>1, <3>2
  <2>2. ASSUME NEW a \in Agent PROVE a \in job'.todo \/ order'[a] = Order(a)'
    BY <1>2, <1>5 DEF Order
  <2> QED  BY <1>2, <2>1, <2>2 DEF StoresInv
<1>7. ModelsInv'
  BY <1>2 DEF ModelsInv, FromModels, EndedWell
<1>8. SessionsInv'
  BY <1>2 DEF SessionsInv, FromReset, EndedWell
<1> QED  BY <1>3, <1>4, <1>6, <1>7, <1>8 DEF SyncInv

LEMMA StoreStep == ASSUME SyncInv, RebalanceStore PROVE SyncInv'
<1>1. SyncShapes /\ GatewayInv /\ StoresInv /\ ModelsInv /\ job.pc = "stores" /\ ~job.ok
  BY DEF SyncInv, SyncShapes, RebalanceStore
<1>2. /\ main' = main /\ session' = session /\ config' = config /\ running' = running
      /\ even' = even /\ written' = written
  BY DEF RebalanceStore, world, openclawHistory
<1>3. PICK a : a = Least(job.todo)
  OBVIOUS
<1>4. CASE /\ job.todo # {} /\ order' = [order EXCEPT ![a] = Order(a)]
           /\ job' = [job EXCEPT !.todo = @ \ {a}, !.wrote = @ \/ order[a] # Order(a)]
  <2>1. JobGoesTo("stores", job.todo \ {a}, job.wrote \/ order[a] # Order(a), FALSE)
    BY <1>1, <1>4 DEF JobGoesTo, SyncShapes
  <2>2. SyncShapes'
    BY <1>1, <1>2, <1>4, <2>1 DEF JobGoesTo, SyncShapes, RebalanceSteps
  <2>3. Active' = Active /\ \A b : Order(b)' = Order(b)
    BY <2>1, SameAgents DEF JobGoesTo
  <2>4. \A b \in Agent : order'[b] = IF b = a THEN Order(a) ELSE order[b]
    BY <1>1, <1>4 DEF SyncShapes
  <2>5. GatewayInv'
    <3>1. ASSUME ~job'.wrote PROVE order' = order /\ ~job.wrote
      <4>1. ~job.wrote /\ order[a] = Order(a)
        BY <2>1, <3>1 DEF JobGoesTo
      <4>2. order = [b \in Agent |-> order[b]]
        BY <1>1 DEF SyncShapes
      <4> QED  BY <1>4, <4>1, <4>2
    <3> QED  BY <1>1, <1>2, <2>1, <3>1 DEF JobGoesTo, GatewayInv, EndedWell, Disk
  <2>6. StoresInv'
    <3>1. ASSUME NEW b \in Agent PROVE b \in job'.todo \/ order'[b] = Order(b)'
      BY <1>1, <2>1, <2>3, <2>4 DEF JobGoesTo, StoresInv, FromStores
    <3>2. \A l \in AgentLabel : main'[l] # 0 => \E b \in Active' : job'.next[b] = l
      BY <1>1, <1>2, <2>1, <2>3 DEF JobGoesTo, StoresInv, FromStores
    <3> QED  BY <2>1, <3>1, <3>2 DEF JobGoesTo, StoresInv
  <2>7. ModelsInv' /\ SessionsInv'
    BY <1>1, <1>2, <2>1 DEF JobGoesTo, ModelsInv, SessionsInv, FromModels, FromReset, EndedWell
  <2> QED  BY <2>2, <2>5, <2>6, <2>7 DEF SyncInv
<1>5. CASE /\ job.todo = {} /\ order' = order
           /\ job' = [job EXCEPT !.pc = "models", !.todo = {b \in Active : job.list[b] # Wanted(job.next[b])}]
  <2> DEFINE rest == {b \in Active : job.list[b] # Wanted(job.next[b])}
  <2>1. JobGoesTo("models", rest, job.wrote, FALSE)
    BY <1>1, <1>5 DEF JobGoesTo, SyncShapes
  <2>2. rest \subseteq Active /\ Active \subseteq Agent
    BY DEF Active
  <2> HIDE DEF rest
  <2>3. SyncShapes'
    BY <1>1, <1>2, <1>5, <2>1, <2>2 DEF JobGoesTo, SyncShapes, RebalanceSteps
  <2>4. Active' = Active /\ (\A b : Order(b)' = Order(b)) /\ Listed(job.list)' = Listed(job.list)
    BY <2>1, SameAgents DEF JobGoesTo
  <2>5. GatewayInv'
    BY <1>1, <1>2, <1>5, <2>1 DEF JobGoesTo, GatewayInv, EndedWell, Disk
  <2>6. StoresInv'
    BY <1>1, <1>2, <1>5, <2>1, <2>4 DEF JobGoesTo, StoresInv, FromStores
  <2>7. ModelsInv'
    <3>1. ASSUME even PROVE config = job.list
      BY <1>1, <3>1 DEF ModelsInv
    <3>2. \A b \in Active : b \in rest \/ job.list[b] = Wanted(job.next[b])
      BY DEF rest
    <3> QED  BY <1>1, <1>2, <2>1, <2>2, <2>4, <3>1, <3>2 DEF JobGoesTo, ModelsInv, Listed
  <2>8. SessionsInv'
    BY <2>1 DEF JobGoesTo, SessionsInv, FromReset, EndedWell
  <2> QED  BY <2>3, <2>5, <2>6, <2>7, <2>8 DEF SyncInv
<1> QED  BY <1>3, <1>4, <1>5 DEF RebalanceStore

LEMMA WantedIs == \A l : Wanted(l) \in Models \ {"gone"}
BY DEF Wanted, Models

LEMMA ModelStep == ASSUME SyncInv, RebalanceModel PROVE SyncInv'
<1>1. SyncShapes /\ GatewayInv /\ StoresInv /\ ModelsInv /\ job.pc = "models" /\ ~job.ok
  BY DEF SyncInv, SyncShapes, RebalanceModel
<1>2. /\ main' = main /\ session' = session /\ order' = order /\ running' = running
      /\ even' = even /\ written' = written
  BY DEF RebalanceModel
<1>3. PICK a : a = Least(job.todo)
  OBVIOUS
<1>4. ASSUME job.todo # {}, NEW b \in Listed(config), Index(config, b) = Index(job.list, a),
             config' = [config EXCEPT ![b] = Wanted(job.next[a])],
             job' = [job EXCEPT !.todo = @ \ {a}, !.wrote = TRUE]
      PROVE  SyncInv'
  <2>1. JobGoesTo("models", job.todo \ {a}, TRUE, FALSE)
    BY <1>1, <1>4 DEF JobGoesTo, SyncShapes
  <2>2. b \in Agent /\ config[b] # "gone" /\ config \in [Agent -> Models]
    BY <1>1 DEF Listed, SyncShapes
  <2>3. /\ config' \in [Agent -> Models] /\ Listed(config') = Listed(config)
        /\ \A c \in Agent : config'[c] = IF c = b THEN Wanted(job.next[a]) ELSE config[c]
    BY <1>4, <2>2, WantedIs DEF Listed
  <2>4. SyncShapes'
    BY <1>1, <1>2, <1>4, <2>1, <2>3 DEF JobGoesTo, SyncShapes, RebalanceSteps
  <2>5. Active' = Active /\ (\A c : Order(c)' = Order(c)) /\ Listed(job.list)' = Listed(job.list)
    BY <2>1, SameAgents DEF JobGoesTo
  <2>6. GatewayInv'
    BY <2>1 DEF JobGoesTo, GatewayInv, EndedWell
  <2>7. StoresInv'
    BY <1>1, <1>2, <2>1, <2>5 DEF JobGoesTo, StoresInv, FromStores
  <2>8. a \in job.todo /\ a \in Active
    <3>1. job.todo \in SUBSET Agent /\ job.todo \subseteq Active
      BY <1>1 DEF SyncShapes, ModelsInv
    <3> QED  BY <1>3, <1>4, <3>1, LeastIs
  <2>9. ASSUME even PROVE a = b
    <3>1. Listed(config) = Listed(job.list)
      BY <1>1, <2>9 DEF ModelsInv, FromModels
    <3>2. a \in Listed(job.list)
      BY <2>8 DEF Active, Listed
    <3>3. Index(config, b) = Index(job.list, b)
      BY <3>1 DEF Index
    <3> QED  BY <1>4, <3>1, <3>2, <3>3, IndexTells, OpenclawAssumption
  <2>10. ModelsInv'
    <3>1. ASSUME even, NEW c \in Active PROVE c \in job'.todo \/ config'[c] = Wanted(job'.next[c])
      <4>1. c \in Agent /\ (c \in job.todo \/ config[c] = Wanted(job.next[c]))
        BY <1>1, <3>1 DEF ModelsInv, FromModels, Active
      <4> QED  BY <2>1, <2>3, <2>9, <3>1, <4>1 DEF JobGoesTo
    <3>2. even => Listed(config') = Listed(job.list)
      BY <1>1, <2>3 DEF ModelsInv, FromModels
    <3>3. job'.todo \subseteq Active
      BY <1>1, <2>1 DEF JobGoesTo, ModelsInv
    <3> QED  BY <1>2, <2>1, <2>5, <3>1, <3>2, <3>3 DEF JobGoesTo, ModelsInv
  <2>11. SessionsInv'
    BY <2>1 DEF JobGoesTo, SessionsInv, FromReset, EndedWell
  <2> QED  BY <2>4, <2>6, <2>7, <2>10, <2>11 DEF SyncInv
<1>5. CASE job.todo = {} /\ job' = [job EXCEPT !.pc = "scan"] /\ config' = config
  <2>1. JobGoesTo("scan", job.todo, job.wrote, FALSE)
    BY <1>1, <1>5 DEF JobGoesTo, SyncShapes
  <2>2. SyncShapes'
    BY <1>1, <1>2, <1>5, <2>1 DEF JobGoesTo, SyncShapes, RebalanceSteps
  <2>3. Active' = Active /\ (\A b : Order(b)' = Order(b)) /\ Listed(job.list)' = Listed(job.list)
    BY <2>1, SameAgents DEF JobGoesTo
  <2>4. GatewayInv'
    BY <1>1, <1>2, <1>5, <2>1 DEF JobGoesTo, GatewayInv, EndedWell, Disk
  <2>5. StoresInv'
    BY <1>1, <1>2, <2>1, <2>3 DEF JobGoesTo, StoresInv, FromStores
  <2>6. ModelsInv'
    BY <1>1, <1>2, <1>5, <2>1, <2>3 DEF JobGoesTo, ModelsInv, FromModels, Listed
  <2>7. SessionsInv'
    BY <2>1 DEF JobGoesTo, SessionsInv, FromReset, EndedWell
  <2> QED  BY <2>2, <2>4, <2>5, <2>6, <2>7 DEF SyncInv
<1> QED  BY <1>3, <1>4, <1>5 DEF RebalanceModel

(* The sessions are looked at, and each that does not follow is named. *)
LEMMA ScanStep == ASSUME SyncInv, RebalanceScan PROVE SyncInv'
<1> DEFINE changes == {a \in Agent : NeedsReset(a)}
<1>1. SyncShapes /\ GatewayInv /\ StoresInv /\ ModelsInv /\ job.pc = "scan" /\ ~job.ok
  BY DEF SyncInv, SyncShapes, RebalanceScan
<1>2. /\ main' = main /\ order' = order /\ session' = session /\ config' = config
      /\ running' = running /\ even' = even /\ written' = written
  BY DEF RebalanceScan, world, openclawHistory
<1>3. changes \subseteq Agent
  OBVIOUS
<1>4. ASSUME NEW a \in Active \cup Managed(job.list), a \notin changes PROVE Follows(a)
  BY <1>4 DEF NeedsReset, Follows, Active, Managed
<1> HIDE DEF changes
<1>5. \/ changes # {} /\ JobGoesTo("reset", changes, job.wrote, FALSE)
      \/ changes = {} /\ job.wrote /\ JobGoesTo("restart", job.todo, job.wrote, FALSE)
      \/ changes = {} /\ ~job.wrote /\ JobGoesTo("save", job.todo, job.wrote, TRUE)
  BY <1>1 DEF RebalanceScan, JobGoesTo, SyncShapes, changes
<1>6. SyncShapes'
  BY <1>1, <1>2, <1>3, <1>5 DEF JobGoesTo, SyncShapes, RebalanceSteps
<1>7. job'.next = job.next /\ job'.list = job.list
  BY <1>5 DEF JobGoesTo
<1>8. /\ Active' = Active /\ Managed(job.list)' = Managed(job.list)
      /\ Listed(job.list)' = Listed(job.list)
      /\ \A a : Order(a)' = Order(a) /\ Desired(a)' = Desired(a)
  BY <1>7, SameAgents
<1>9. GatewayInv'
  BY <1>1, <1>2, <1>5 DEF JobGoesTo, GatewayInv, EndedWell, Disk
<1>10. StoresInv'
  BY <1>1, <1>2, <1>5, <1>7, <1>8 DEF JobGoesTo, StoresInv, FromStores
<1>11. ModelsInv'
  BY <1>1, <1>2, <1>5, <1>7, <1>8 DEF JobGoesTo, ModelsInv, FromModels, Listed
<1>12. SessionsInv'
  <2>1. \A a \in Active \cup Managed(job.list) : Follows(a)' = Follows(a)
    BY <1>2, <1>7, <1>8 DEF Follows, OffPin
  <2>2. job'.pc = "reset" => job'.todo = changes
    BY <1>5 DEF JobGoesTo
  <2>3. job'.pc # "reset" => changes = {}
    BY <1>5 DEF JobGoesTo
  <2> QED  BY <1>4, <1>8, <2>1, <2>2, <2>3 DEF SessionsInv
<1> QED  BY <1>6, <1>9, <1>10, <1>11, <1>12 DEF SyncInv

(* The sessions are reset, one agent after the other. *)
LEMMA ResetStep == ASSUME SyncInv, RebalanceReset PROVE SyncInv'
<1>1. /\ SyncShapes /\ GatewayInv /\ StoresInv /\ ModelsInv /\ SessionsInv
      /\ job.pc = "reset" /\ ~job.ok
  BY DEF SyncInv, SyncShapes, RebalanceReset
<1>2. /\ main' = main /\ order' = order /\ config' = config
      /\ running' = running /\ even' = even /\ written' = written
  BY DEF RebalanceReset, world, openclawHistory
<1>3. PICK a : a = Least(job.todo)
  OBVIOUS
<1>4. PICK at, rest :
        /\ JobGoesTo(at, rest, job.wrote, FALSE)
        /\ \/ at = "reset" /\ rest = job.todo \ {a} /\ a \in Agent
              /\ session' = IF NeedsReset(a) THEN [session EXCEPT ![a] = Cleared(a)] ELSE session
           \/ at = "restart" /\ job.todo = {} /\ rest = {} /\ session' = session
  <2>1. CASE /\ job.todo # {} /\ job' = [job EXCEPT !.todo = @ \ {a}]
             /\ session' = IF NeedsReset(a) THEN [session EXCEPT ![a] = Cleared(a)] ELSE session
    <3>1. job.todo \in SUBSET Agent
      BY <1>1 DEF SyncShapes
    <3>2. a \in Agent
      BY <1>3, <2>1, <3>1, LeastIs
    <3>3. JobGoesTo("reset", job.todo \ {a}, job.wrote, FALSE)
      BY <1>1, <2>1 DEF JobGoesTo, SyncShapes
    <3> QED  BY <2>1, <3>2, <3>3
  <2>2. CASE job.todo = {} /\ job' = [job EXCEPT !.pc = "restart"] /\ session' = session
    <3>1. JobGoesTo("restart", {}, job.wrote, FALSE)
      BY <1>1, <2>2 DEF JobGoesTo, SyncShapes
    <3> QED  BY <2>2, <3>1
  <2> QED  BY <1>3, <2>1, <2>2 DEF RebalanceReset
<1>5. job'.next = job.next /\ job'.list = job.list
  BY <1>4 DEF JobGoesTo
<1>6. /\ Active' = Active /\ Managed(job.list)' = Managed(job.list)
      /\ Listed(job.list)' = Listed(job.list)
      /\ \A b : Order(b)' = Order(b) /\ Desired(b)' = Desired(b)
  BY <1>5, SameAgents
<1>7. /\ session' = [b \in Agent |-> session'[b]]
      /\ \A b \in Agent : session'[b] = IF b = a /\ NeedsReset(a) /\ at = "reset" THEN Cleared(a) ELSE session[b]
  <2>1. session = [b \in Agent |-> session[b]]
    BY <1>1 DEF SyncShapes
  <2> QED  BY <1>4, <2>1
<1>8. SyncShapes'
  BY <1>1, <1>2, <1>4, <1>7 DEF JobGoesTo, SyncShapes, RebalanceSteps
<1>9. GatewayInv'
  BY <1>4 DEF JobGoesTo, GatewayInv, EndedWell
<1>10. StoresInv'
  BY <1>1, <1>2, <1>4, <1>5, <1>6 DEF JobGoesTo, StoresInv, FromStores
<1>11. ModelsInv'
  BY <1>1, <1>2, <1>4, <1>5, <1>6 DEF JobGoesTo, ModelsInv, FromModels, Listed
<1>12. SessionsInv'
  <2>1. ASSUME NEW b \in Active \cup Managed(job.list), ~written, b \notin job.todo
        PROVE  Follows(b)
    BY <1>1, <2>1 DEF SessionsInv, FromReset
  <2>2. ASSUME NEW b \in Agent, Follows(b) PROVE Follows(b)'
    <3>1. CASE session'[b] = session[b]
      BY <1>5, <1>6, <2>2, <3>1 DEF Follows, OffPin
    <3>2. CASE session'[b] = Cleared(b)
      BY <1>5, <1>6, <2>2, <3>2 DEF Follows, OffPin, Cleared
    <3> QED  BY <1>7, <3>1, <3>2
  <2>3. ASSUME a \in Active \cup Managed(job.list), at = "reset" PROVE Follows(a)'
    <3>1. a \in Agent
      BY <2>3 DEF Active, Managed
    <3>2. CASE NeedsReset(a)
      <4>1. session'[a] = Cleared(a)
        BY <1>7, <2>3, <3>1, <3>2
      <4> QED  BY <1>5, <1>6, <4>1 DEF Follows, OffPin, Cleared
    <3>3. CASE ~NeedsReset(a)
      <4>1. Follows(a)
        BY <2>3, <3>3 DEF NeedsReset, Follows
      <4> QED  BY <2>2, <3>1, <4>1
    <3> QED  BY <3>2, <3>3
  <2>4. ASSUME ~written, NEW b \in Active \cup Managed(job.list), ~(job'.pc = "reset" /\ b \in job'.todo)
        PROVE  Follows(b)'
    <3>1. b \in Agent
      BY DEF Active, Managed
    <3>2. CASE b \in job.todo
      BY <1>4, <2>3, <2>4, <3>2 DEF JobGoesTo
    <3> QED  BY <2>1, <2>2, <2>4, <3>1, <3>2
  <2> QED  BY <1>2, <1>6, <2>4 DEF SessionsInv
<1> QED  BY <1>8, <1>9, <1>10, <1>11, <1>12 DEF SyncInv

(* The gateway restarts, and runs what is on disk. *)
LEMMA RestartStep == ASSUME SyncInv, RebalanceRestart PROVE SyncInv'
<1>1. /\ SyncShapes /\ StoresInv /\ ModelsInv /\ SessionsInv /\ job.pc = "restart" /\ ~job.ok
  BY DEF SyncInv, SyncShapes, RebalanceRestart
<1>2. /\ main' = main /\ order' = order /\ session' = session /\ config' = config
      /\ running' = Disk /\ even' = even /\ written' = written
  BY DEF RebalanceRestart, world, openclawHistory
<1>3. JobGoesTo("save", job.todo, job.wrote, TRUE)
  BY <1>1 DEF RebalanceRestart, JobGoesTo, SyncShapes
<1>4. SyncShapes'
  BY <1>1, <1>2, <1>3 DEF JobGoesTo, SyncShapes, RebalanceSteps
<1>5. job'.next = job.next /\ job'.list = job.list
  BY <1>3 DEF JobGoesTo
<1>6. /\ Active' = Active /\ Managed(job.list)' = Managed(job.list)
      /\ Listed(job.list)' = Listed(job.list)
      /\ \A a : Order(a)' = Order(a) /\ Desired(a)' = Desired(a)
  BY <1>5, SameAgents
<1>7. GatewayInv'
  BY <1>2, <1>3 DEF JobGoesTo, GatewayInv, Disk
<1>8. StoresInv'
  BY <1>1, <1>2, <1>3, <1>5, <1>6 DEF JobGoesTo, StoresInv, FromStores
<1>9. ModelsInv'
  BY <1>1, <1>2, <1>3, <1>5, <1>6 DEF JobGoesTo, ModelsInv, FromModels, Listed
<1>10. SessionsInv'
  <2>1. \A a : Follows(a)' = Follows(a)
    BY <1>2, <1>5, <1>6 DEF Follows, OffPin
  <2> QED  BY <1>1, <1>2, <1>3, <1>6, <2>1 DEF JobGoesTo, SessionsInv, FromReset
<1> QED  BY <1>4, <1>7, <1>8, <1>9, <1>10 DEF SyncInv

LEMMA SyncInvStep == ASSUME SyncInv, [OpenclawNext]_openclawVars PROVE SyncInv'
BY EndStep, AuthStep, StoreStep, ModelStep, ScanStep, ResetStep, RestartStep, WorldStep
   DEF OpenclawNext

LEMMA SyncInvAlways == OpenclawSpec => []SyncInv
<1>1. OpenclawInit => SyncInv
  BY SyncInitial
<1>2. SyncInv /\ [OpenclawNext]_openclawVars => SyncInv'
  BY SyncInvStep
<1> QED  BY <1>1, <1>2, PTL DEF OpenclawSpec

(* `aim rebalance openclaw` answers well only when nothing but what is assigned can *)
(* be consumed: the profiles the gateway knows, the order of every agent's store    *)
(* and the model of every assigned agent; whatever failed, died or was done to the  *)
(* sessions and credentials before, if nobody edits the config meanwhile and the    *)
(* gateway ran what was on disk when the rebalance began.                           *)
THEOREM RebalanceCloses == OpenclawSpec => OnlyAssignedConsumable
<1> DEFINE Closed ==
      EndsWell /\ even =>
        /\ \A l \in AgentLabel : running.main[l] # 0 => \E a \in Active : job.next[a] = l
        /\ \A a \in Agent : running.order[a] \in AgentLabel => a \in Active /\ job.next[a] = running.order[a]
        /\ \A a \in Managed(job.list) \ Active : running.order[a] = Barred
        /\ \A a \in Active : running.config[a] = Wanted(job.next[a])
<1>1. SyncInv => Closed
  <2> SUFFICES ASSUME SyncInv, EndsWell, even PROVE Closed
    OBVIOUS
  <2>1. EndedWell /\ FromStores /\ FromModels /\ job.pc = "save"
    BY DEF EndsWell, EndedWell, FromStores, FromModels
  <2>2. running.main = main /\ running.order = order /\ running.config = config
    BY <2>1 DEF SyncInv, GatewayInv, Disk
  <2>3. \A l \in AgentLabel : main[l] # 0 => \E a \in Active : job.next[a] = l
    BY <2>1 DEF SyncInv, StoresInv
  <2>4. \A a \in Agent : order[a] = Order(a)
    BY <2>1 DEF SyncInv, StoresInv
  <2>5. 0 \notin AgentLabel /\ Barred \notin AgentLabel
    BY OpenclawAssumption DEF AgentLabel, Barred
  <2>6. ASSUME NEW a \in Agent, order[a] \in AgentLabel PROVE a \in Active /\ job.next[a] = order[a]
    BY <2>4, <2>5, <2>6 DEF Order
  <2>7. ASSUME NEW a \in Managed(job.list) \ Active PROVE order[a] = Barred
    BY <2>4 DEF Order, Managed
  <2>8. ASSUME NEW a \in Active PROVE config[a] = Wanted(job.next[a])
    BY <2>1 DEF SyncInv, ModelsInv
  <2> QED  BY <2>2, <2>3, <2>6, <2>7, <2>8
<1>2. SyncInv => [Closed]_openclawVars
  BY <1>1
<1> QED  BY <1>2, SyncInvAlways, PTL DEF OnlyAssignedConsumable

(* And then no session of an agent it places is left on another account or model,   *)
(* unless the gateway has written a session while the rebalance ran.                *)
THEOREM RebalanceMovesSessions == OpenclawSpec => SessionsFollow
<1> DEFINE Followed ==
      EndsWell /\ ~written =>
        \A a \in Active \cup Managed(job.list) :
           ~OffPin(a) /\ session[a].model \in {"none", Desired(a)}
<1>1. SyncInv => Followed
  BY DEF SyncInv, SessionsInv, FromReset, EndedWell, EndsWell, Follows
<1>2. SyncInv => [Followed]_openclawVars
  BY <1>1
<1> QED  BY <1>2, SyncInvAlways, PTL DEF SessionsFollow

-----------------------------------------------------------------------------
(* OpenClaw: a plan that is repeated. *)

\* The labels and the demand a plan is made from, and the assignments that the next one
\* will be made from.
Usable == PoolLabel \ spent
Demand == DemandWeights([a \in Managed(config) |-> usage[a]])
Replan(c) == PlanAssignments(Usable, Headroom, Headroom, Demand, c)
Latest == IF job.pc = "idle" THEN assigned ELSE job.next

\* The first plan of its inputs puts every agent on a usable label, and the second one
\* is made again from then on.
RepeatsInv ==
    /\ usage \in [Agent -> Nat] /\ repeats \in 0..2
    /\ job.pc = "plan" => job.next = job.old
    /\ repeats > 0 => \A a \in Managed(config) : Latest[a] \in Usable
    /\ repeats = 2 => \A a \in Managed(config) : Replan(Latest)[a] = Latest[a]

LEMMA ManagedAgents == \A list : Managed(list) \subseteq Agent /\ IsFiniteSet(Managed(list))
<1>1. IsFiniteSet(Agent)
  BY OpenclawAssumption, FS_Interval DEF Agent
<1>2. \A list : Managed(list) \subseteq Agent
  BY DEF Managed
<1> QED  BY <1>1, <1>2, FS_Subset

LEMMA ReplanInput ==
    ASSUME usage \in [Agent -> Nat], Usable # {}
    PROVE  PlanInput(Usable, Headroom, Headroom, Demand) /\ DOMAIN Demand = Managed(config)
<1> DEFINE used == [a \in Managed(config) |-> usage[a]]
<1>1. DOMAIN used = Managed(config) /\ \A a \in Managed(config) : used[a] \in Nat
  BY ManagedAgents
<1>2. IsFiniteSet(Managed(config)) /\ Managed(config) \subseteq Nat
  BY ManagedAgents DEF Agent
<1> HIDE DEF used
<1>3. DemandWeights(used) \in [Managed(config) -> Nat]
  BY <1>1, <1>2, DemandTyped
<1>4. IsFiniteSet(PoolLabel) /\ PoolLabel \subseteq Nat
  BY OpenclawAssumption, FS_Interval DEF PoolLabel
<1>5. IsFiniteSet(Usable) /\ Usable \subseteq Nat
  BY <1>4, FS_Subset DEF Usable
<1>6. \A l \in Usable : Headroom[l] \in Nat \ {0} /\ Headroom[l] \in Nat
  BY OpenclawAssumption DEF Usable
<1> QED  BY <1>2, <1>3, <1>5, <1>6 DEF PlanInput, Demand, used

(* What is planned leaves repeated plans settled. *)
LEMMA PlanStep ==
    ASSUME SyncShapes, RepeatsInv, RebalancePlan
    PROVE  /\ RepeatsInv'
           /\ job'.pc = "auth" /\ repeats = 2 => \A a \in Managed(config) : job'.next[a] = job.old[a]
<1>1. /\ usage' = usage /\ config' = config /\ spent' = spent /\ assigned' = assigned
      /\ Usable' = Usable /\ Demand' = Demand /\ Managed(config)' = Managed(config)
  BY DEF RebalancePlan, world, Usable, Demand, Managed
<1>2. \A c : Replan(c)' = PlanAssignments(Usable, Headroom, Headroom, Demand, c')
  BY <1>1 DEF Replan
<1>3. job.pc = "plan" /\ job.next = job.old /\ Latest = job.old
  BY DEF RebalancePlan, RepeatsInv, Latest
<1>4. CASE PoolLabel \subseteq spent
  <2>1. job'.pc = "save" /\ repeats' = 0
    BY <1>4 DEF RebalancePlan, SyncShapes
  <2> QED  BY <1>1, <2>1 DEF RepeatsInv
<1>5. CASE ~(PoolLabel \subseteq spent)
  <2> DEFINE new == NextAssignments(job.old)
  <2>1. /\ job'.pc = "auth" /\ job'.next = new
        /\ repeats' = IF repeats = 2 THEN 2 ELSE repeats + 1
    BY <1>5 DEF RebalancePlan, SyncShapes
  <2>2. Usable # {} /\ usage \in [Agent -> Nat] /\ repeats \in 0..2
    BY <1>5 DEF Usable, RepeatsInv
  <2>3. PlanInput(Usable, Headroom, Headroom, Demand) /\ DOMAIN Demand = Managed(config)
    BY <2>2, ReplanInput
  <2>4. \A a \in Managed(config) : new[a] = Replan(job.old)[a]
    BY ManagedAgents DEF NextAssignments, Replan, Usable, Demand
  <2>5. \A a \in Managed(config) : Replan(job.old)[a] \in Usable
    BY <2>3, EverySubjectPlaced DEF Replan
  <2> HIDE DEF new
  <2>6. Latest' = new
    BY <2>1 DEF Latest
  <2>7. ASSUME repeats > 0 PROVE Replan(new) = Replan(job.old)
    <3>1. \A a \in DOMAIN Demand : job.old[a] \in Usable /\ new[a] \in {job.old[a], Replan(job.old)[a]}
      BY <1>3, <2>3, <2>4, <2>7 DEF RepeatsInv
    <3> QED  BY <2>3, <3>1, PlanSettles DEF Replan
  <2>8. repeats' = 2 => \A a \in Managed(config) : Replan(new)[a] = new[a]
    BY <2>1, <2>2, <2>4, <2>7
  <2>9. repeats = 2 => \A a \in Managed(config) : new[a] = job.old[a]
    BY <1>3, <2>4 DEF RepeatsInv
  <2>10. \A a : Replan(Latest)'[a] = Replan(new)[a]
    BY <1>1, <2>6 DEF Replan
  <2>11. RepeatsInv'
    BY <1>1, <2>1, <2>2, <2>4, <2>5, <2>6, <2>8, <2>10 DEF RepeatsInv
  <2> QED  BY <2>1, <2>9, <2>11
<1> QED  BY <1>4, <1>5

LEMMA RepeatsKept ==
    ASSUME RepeatsInv, usage' = usage, spent' = spent, Managed(config)' = Managed(config),
           repeats' = repeats, Latest' = Latest, job'.pc = "plan" => job'.next = job'.old
    PROVE  RepeatsInv'
<1>1. Usable' = Usable /\ Demand' = Demand
  BY DEF Usable, Demand
<1>2. Replan(Latest)' = Replan(Latest)
  BY <1>1 DEF Replan
<1> QED  BY <1>1, <1>2 DEF RepeatsInv

LEMMA RepeatsStep ==
    ASSUME SyncShapes, RepeatsInv, [OpenclawNext]_openclawVars
    PROVE  RepeatsInv'
<1>1. CASE RebalanceDies
           \/ (\E a \in Agent, model \in {"gone", "other", "claude"} : ConfigChange(a, model))
           \/ (\E a \in Agent, n \in Tokens, l \in PoolLabel : UsageChange(a, n, l))
  <2>1. repeats' = 0 /\ (job'.pc = "plan" => job'.next = job'.old)
    BY <1>1 DEF RebalanceDies, ConfigChange, UsageChange, NoJob, RepeatsInv
  <2>2. usage' \in [Agent -> Nat]
    BY <1>1, OpenclawAssumption DEF RebalanceDies, ConfigChange, UsageChange, world, RepeatsInv
  <2> QED  BY <2>1, <2>2 DEF RepeatsInv
<1>2. CASE RebalanceModel
  <2>1. /\ usage' = usage /\ spent' = spent /\ job'.pc \in {"models", "scan"} /\ job.pc = "models"
        /\ job'.next = job.next
    BY <1>2 DEF RebalanceModel, SyncShapes
  <2>2. Latest' = Latest
    BY <2>1 DEF Latest
  <2>3. CASE Managed(config') = Managed(config)
    <3>1. Managed(config)' = Managed(config) /\ repeats' = repeats
      BY <1>2, <2>3 DEF RebalanceModel, Managed
    <3> QED  BY <2>1, <2>2, <3>1, RepeatsKept
  <2>4. CASE Managed(config') # Managed(config)
    <3>1. repeats' = 0
      BY <1>2, <2>4 DEF RebalanceModel
    <3> QED  BY <2>1, <3>1 DEF RepeatsInv
  <2> QED  BY <2>3, <2>4
<1>3. CASE \/ RebalanceBegin \/ RebalanceAuth \/ RebalanceStore \/ RebalanceScan \/ RebalanceReset
           \/ RebalanceRestart \/ RebalanceFails \/ RebalanceSave
  <2>1. /\ usage' = usage /\ spent' = spent /\ config' = config /\ repeats' = repeats
    BY <1>3 DEF RebalanceBegin, RebalanceAuth, RebalanceStore, RebalanceScan, RebalanceReset,
       RebalanceRestart, RebalanceFails, RebalanceSave, world, openclawHistory
  <2>2. Latest' = Latest /\ (job'.pc = "plan" => job'.next = job'.old)
    <3>1. CASE RebalanceBegin
      BY <3>1 DEF RebalanceBegin, NoJob, Latest
    <3>2. CASE RebalanceSave
      BY <3>2 DEF RebalanceSave, NoJob, Latest
    <3>3. CASE \/ RebalanceAuth \/ RebalanceStore \/ RebalanceScan \/ RebalanceReset
               \/ RebalanceRestart \/ RebalanceFails
      <4>1. job'.next = job.next /\ job.pc # "idle" /\ job'.pc \notin {"idle", "plan"}
        BY <3>3 DEF RebalanceAuth, RebalanceStore, RebalanceScan, RebalanceReset, RebalanceRestart,
           RebalanceFails, SyncShapes
      <4> QED  BY <4>1 DEF Latest
    <3> QED  BY <1>3, <3>1, <3>2, <3>3
  <2>3. Managed(config)' = Managed(config)
    BY <2>1 DEF Managed
  <2> QED  BY <2>1, <2>2, <2>3, RepeatsKept
<1>4. CASE \/ \E l \in AgentLabel : Maintained(l)
           \/ \E a \in Agent, pin \in {0} \cup AgentLabel : running.config[a] # "gone" /\ GatewaySession(a, pin)
           \/ GatewayRestart
           \/ UNCHANGED openclawVars
  <2>1. /\ usage' = usage /\ spent' = spent /\ config' = config /\ repeats' = repeats
        /\ assigned' = assigned /\ job' = job
    BY <1>4 DEF Maintained, GatewaySession, GatewayRestart, openclawVars, world, openclawHistory
  <2>2. Latest' = Latest /\ Managed(config)' = Managed(config)
    BY <2>1 DEF Latest, Managed
  <2> QED  BY <2>1, <2>2, RepeatsKept DEF RepeatsInv
<1> QED  BY <1>1, <1>2, <1>3, <1>4, PlanStep DEF OpenclawNext

(* Planned again from the same headroom, demand and agents, nobody is moved: not by *)
(* the third plan, nor by any later one, whatever has failed in between.            *)
THEOREM RebalancesSettle == OpenclawSpec => RebalanceSettles
<1> DEFINE Settled ==
      job.pc = "plan" /\ job'.pc = "auth" /\ repeats = 2 =>
        \A a \in Managed(config) : job'.next[a] = job.old[a]
<1>1. OpenclawInit => RepeatsInv
  BY DEF OpenclawInit, RepeatsInv, NoJob
<1>2. SyncInv => SyncShapes
  BY DEF SyncInv
<1>3. SyncShapes /\ RepeatsInv /\ [OpenclawNext]_openclawVars => RepeatsInv'
  BY RepeatsStep
<1>4. SyncShapes /\ RepeatsInv /\ [OpenclawNext]_openclawVars => [Settled]_openclawVars
  <2> SUFFICES ASSUME SyncShapes, RepeatsInv, OpenclawNext, job.pc = "plan", job'.pc = "auth"
               PROVE  Settled
    OBVIOUS
  <2>1. RebalancePlan
    BY DEF OpenclawNext, RebalanceBegin, RebalanceAuth, RebalanceStore, RebalanceModel, RebalanceScan,
       RebalanceReset, RebalanceRestart, RebalanceFails, RebalanceSave, RebalanceDies, ConfigChange,
       UsageChange, Maintained, GatewaySession, GatewayRestart, NoJob, SyncShapes
  <2> QED  BY <2>1, PlanStep
<1> QED  BY <1>1, <1>2, <1>3, <1>4, SyncInvAlways, PTL DEF OpenclawSpec, RebalanceSettles

(* All that a rebalance promises. *)
THEOREM RebalancesReach == OpenclawSpec => RebalanceReaches
BY RebalanceCloses, RebalanceMovesSessions, RebalancesSettle DEF RebalanceReaches

-----------------------------------------------------------------------------
(* Hermes: what a job has settled of the homes. *)

AuthRecord ==
    [state : {"ok"} \cup Unusable, label : {0} \cup FleetLabel, version : Nat, pooled : BOOLEAN]
FleetJob ==
    [pc : FleetSteps, cred : [FleetLabel -> Nat], usage : [FleetLabel -> Usage],
     move : [Home -> {0} \cup FleetLabel], sync : [Home -> {0} \cup FleetLabel],
     status : {"none", "noop", "applied", "blocked"}]

FleetTypeOK ==
    /\ home \in [Home -> AuthRecord]
    /\ tokens \in [FleetLabel -> Nat] /\ stale \in [FleetLabel -> Nat]
    /\ left \in [FleetLabel -> Usage] /\ demand \in [Home -> Nat]
    /\ fleet \in [Fleet -> FleetJob]
    /\ fleetJobs \in [Fleet -> Nat] /\ fleetEvents \in Nat
    /\ undisturbed \in [Fleet -> BOOLEAN]

\* The home holds what the job has loaded, of a label its probe found eligible.
Served(w, h) == Holds(h, fleet[w].cred, EligibleLabels(fleet[w].usage))

\* A label that a job is to write is an eligible one; it has one reason to write a home.
WritesInv(w) ==
    fleet[w].pc = "write" =>
      \A h \in Home :
        /\ fleet[w].move[h] \in {0} \cup EligibleLabels(fleet[w].usage)
        /\ fleet[w].sync[h] \in {0} \cup EligibleLabels(fleet[w].usage)
        /\ fleet[w].move[h] = 0 \/ fleet[w].sync[h] = 0

\* As long as nobody else has written a home since it looked, a job has served every
\* home it does not have to write any more.
ServedInv(w) ==
    undisturbed[w] =>
      /\ fleet[w].pc = "write" =>
           \A h \in Home : fleet[w].move[h] = 0 /\ fleet[w].sync[h] = 0 => Served(w, h)
      /\ fleet[w].pc = "save" /\ fleet[w].status \in {"noop", "applied"} =>
           \A h \in Home : Served(w, h)

FleetInv == FleetTypeOK /\ \A w \in Fleet : WritesInv(w) /\ ServedInv(w)

LEMMA NoJobTyped == NoFleetJob \in FleetJob /\ NoFleetJob.pc = "idle"
BY DEF NoFleetJob, FleetJob, FleetSteps, Usage

LEMMA FleetInitial == ASSUME FleetInit PROVE FleetInv
<1>1. home \in [Home -> AuthRecord]
  <2>1. 1 \in FleetLabel
    BY FleetAssumption DEF FleetLabel
  <2>2. Auth(0, 0, TRUE) \in AuthRecord /\ Auth(1, 1, TRUE) \in AuthRecord
    BY <2>1 DEF Auth, AuthRecord
  <2> QED  BY <2>2 DEF FleetInit
<1>2. FleetTypeOK
  BY <1>1, NoJobTyped, FleetAssumption DEF FleetInit, FleetTypeOK, Usage, Eligible
<1>3. \A w \in Fleet : fleet[w].pc = "idle"
  BY NoJobTyped DEF FleetInit
<1> QED  BY <1>2, <1>3 DEF FleetInv, WritesInv, ServedInv

(* The plan of the homes. *)
LEMMA HomePlanEligible ==
    ASSUME FleetTypeOK, NEW use \in [FleetLabel -> Usage], EligibleLabels(use) # {}
    PROVE  HomePlan(use) \in [Home -> EligibleLabels(use)]
<1> DEFINE labels == EligibleLabels(use)
           percent == [l \in labels |-> Percent[use[l]]]
           weights == DemandWeights(demand)
<1>1. IsFiniteSet(FleetLabel) /\ FleetLabel \subseteq Nat /\ IsFiniteSet(Home) /\ Home \subseteq Nat
  BY FleetAssumption, FS_Interval DEF FleetLabel, Home
<1>2. IsFiniteSet(labels) /\ labels \subseteq Nat
  BY <1>1, FS_Subset DEF EligibleLabels
<1>3. \A l \in labels : percent[l] \in Nat \ {0} /\ percent[l] \in Nat
  BY FleetAssumption DEF EligibleLabels
<1>4. weights \in [Home -> Nat]
  BY <1>1, DemandTyped DEF FleetTypeOK
<1> HIDE DEF percent, weights
<1>5. PlanInput(labels, percent, percent, weights)
  BY <1>1, <1>2, <1>3, <1>4 DEF PlanInput
<1>6. PlanAssignments(labels, percent, percent, weights, [h \in Home |-> home[h].label])
        \in [DOMAIN weights -> labels]
  BY <1>5, EverySubjectPlaced
<1>7. DOMAIN weights = Home
  BY <1>4
<1> QED  BY <1>6, <1>7 DEF HomePlan, percent, weights

(* What a look decides. *)
LEMMA DecidedWell ==
    ASSUME FleetInv, NEW w \in Fleet, fleet[w].pc = "look", fleet' = [fleet EXCEPT ![w] = Decided(w)],
           home' = home, undisturbed' = [undisturbed EXCEPT ![w] = TRUE]
    PROVE  Decided(w) \in FleetJob /\ WritesInv(w)' /\ ServedInv(w)'
<1> DEFINE use == fleet[w].usage   cred == fleet[w].cred   fresh == HomePlan(use)
           move == [h \in Home |-> IF fresh[h] = home[h].label THEN 0 ELSE fresh[h]]
           sync == Resyncs(fresh, cred)
<1>1. fleet[w] \in FleetJob /\ home \in [Home -> AuthRecord] /\ fleet'[w] = Decided(w)
      /\ use \in [FleetLabel -> Usage]
  BY DEF FleetInv, FleetTypeOK, FleetJob
<1>2. CASE Decided(w) = [fleet[w] EXCEPT !.pc = "save", !.status = "blocked"]
  <2>1. Decided(w) \in FleetJob /\ Decided(w).pc = "save" /\ Decided(w).status = "blocked"
    BY <1>1, <1>2 DEF FleetJob, FleetSteps
  <2> QED  BY <1>1, <2>1 DEF WritesInv, ServedInv
<1>3. CASE /\ Decided(w) = [fleet[w] EXCEPT !.pc = "save", !.status = "noop"]
           /\ NothingToDo(use, cred) /\ \A h \in Home : ~Blocked(h)
  <2>1. /\ Decided(w) \in FleetJob /\ Decided(w).pc = "save"
        /\ Decided(w).usage = use /\ Decided(w).cred = cred
    BY <1>1, <1>3 DEF FleetJob, FleetSteps
  <2>2. ASSUME NEW h \in Home PROVE Holds(h, cred, EligibleLabels(use))
    <3>1. /\ home[h].label # 0 /\ ~NeedsSync(h, cred) /\ use[home[h].label] = "ample"
          /\ ~Blocked(h) /\ home[h] \in AuthRecord
      BY <1>1, <1>3 DEF NothingToDo
    <3> HIDE DEF use, cred
    <3>2. home[h].label \in FleetLabel /\ home[h].state = "ok" /\ home[h].pooled
          /\ home[h].version = cred[home[h].label]
      BY <3>1 DEF NeedsSync, Blocked, AuthRecord
    <3> QED  BY <3>1, <3>2 DEF Holds, EligibleLabels, Eligible
  <2>3. \A h \in Home : Served(w, h)'
    BY <1>1, <2>1, <2>2 DEF Served, Holds
  <2> QED  BY <1>1, <2>1, <2>3 DEF WritesInv, ServedInv
<1>4. CASE /\ Decided(w) = [fleet[w] EXCEPT !.pc = "write", !.move = move, !.sync = sync]
           /\ EligibleLabels(use) # {} /\ \A h \in Home : ~Blocked(h)
  <2>1. fresh \in [Home -> EligibleLabels(use)]
    BY <1>1, <1>4, HomePlanEligible DEF FleetInv
  <2>2. EligibleLabels(use) \subseteq FleetLabel /\ 0 \notin FleetLabel
    BY DEF EligibleLabels, FleetLabel
  <2> HIDE DEF fresh
  <2>3. \A h \in Home : /\ move[h] \in {0} \cup EligibleLabels(use)
                        /\ sync[h] \in {0} \cup EligibleLabels(use)
                        /\ move[h] = 0 \/ sync[h] = 0
                        /\ move[h] = 0 => fresh[h] = home[h].label
                        /\ sync[h] = 0 /\ fresh[h] = home[h].label => ~NeedsSync(h, cred)
    BY <2>1, <2>2 DEF Resyncs
  <2>4. move \in [Home -> {0} \cup FleetLabel] /\ sync \in [Home -> {0} \cup FleetLabel]
    BY <2>2, <2>3 DEF Resyncs
  <2> HIDE DEF move, sync
  <2>5. /\ Decided(w) \in FleetJob /\ Decided(w).pc = "write"
        /\ Decided(w).usage = use /\ Decided(w).cred = cred
        /\ Decided(w).move = move /\ Decided(w).sync = sync
    BY <1>1, <1>4, <2>4 DEF FleetJob, FleetSteps
  <2>6. WritesInv(w)'
    BY <1>1, <2>3, <2>5 DEF WritesInv
  <2>7. ASSUME NEW h \in Home, move[h] = 0, sync[h] = 0 PROVE Holds(h, cred, EligibleLabels(use))
    <3>1. ~NeedsSync(h, cred) /\ home[h].label \in EligibleLabels(use) /\ ~Blocked(h)
          /\ home[h] \in AuthRecord /\ home[h].label # 0
      BY <1>1, <1>4, <2>1, <2>2, <2>3, <2>7
    <3> HIDE DEF use, cred
    <3> QED  BY <3>1 DEF NeedsSync, Blocked, AuthRecord, Holds
  <2>8. ServedInv(w)'
    BY <1>1, <2>5, <2>7 DEF ServedInv, Served, Holds
  <2> QED  BY <2>5, <2>6, <2>8
<1> HIDE DEF fresh
<1>5. \/ Decided(w) = [fleet[w] EXCEPT !.pc = "save", !.status = "blocked"]
      \/ /\ Decided(w) = [fleet[w] EXCEPT !.pc = "save", !.status = "noop"]
         /\ NothingToDo(use, cred) /\ \A h \in Home : ~Blocked(h)
      \/ /\ Decided(w) = [fleet[w] EXCEPT !.pc = "write", !.move = move, !.sync = sync]
         /\ EligibleLabels(use) # {} /\ \A h \in Home : ~Blocked(h)
  BY DEF Decided, fresh
<1> QED  BY <1>2, <1>3, <1>4, <1>5

(* A job that is not touched, with its homes, keeps what it has settled. *)
LEMMA FleetOthers ==
    ASSUME NEW w \in Fleet, WritesInv(w), ServedInv(w), fleet'[w] = fleet[w],
           undisturbed'[w] => undisturbed[w] /\ home' = home
    PROVE  WritesInv(w)' /\ ServedInv(w)'
BY DEF WritesInv, ServedInv, Served, Holds

LEMMA FleetQuiet ==
    ASSUME NEW w \in Fleet,
           fleet'[w].pc \notin {"write", "save"} \/ (fleet'[w].pc = "save" /\ fleet'[w].status = "blocked")
    PROVE  WritesInv(w)' /\ ServedInv(w)'
BY DEF WritesInv, ServedInv

(* The home that is written next. *)
LEMMA WrittenIs ==
    ASSUME NEW w, ToWrite(w) # {}, NEW h, h = CHOOSE x \in ToWrite(w) : \A i \in ToWrite(w) : x <= i
    PROVE  h \in Home /\ (fleet[w].move[h] # 0 \/ fleet[w].sync[h] # 0)
<1>1. ToWrite(w) \in SUBSET Nat
  BY DEF ToWrite, Home
<1>2. \E n \in ToWrite(w) : \A m \in ToWrite(w) : n <= m
  BY <1>1, LeastNumber
<1>3. h \in ToWrite(w)
  BY <1>2
<1>4. \A x \in ToWrite(w) : x \in Home /\ (fleet[w].move[x] # 0 \/ fleet[w].sync[x] # 0)
  BY DEF ToWrite
<1> QED  BY <1>3, <1>4

LEMMA WriteWell ==
    ASSUME FleetInv, NEW w \in Fleet, FleetWrite(w)
    PROVE  /\ FleetTypeOK' /\ WritesInv(w)' /\ ServedInv(w)'
           /\ \A x \in Fleet \ {w} : fleet'[x] = fleet[x] /\ (undisturbed'[x] => undisturbed[x] /\ home' = home)
<1> DEFINE h == CHOOSE x \in ToWrite(w) : \A i \in ToWrite(w) : x <= i
           l == fleet[w].move[h] + fleet[w].sync[h]
           v == fleet[w].cred[l]
<1>1. /\ fleet[w].pc = "write" /\ fleet[w] \in FleetJob /\ FleetTypeOK /\ WritesInv(w) /\ ServedInv(w)
      /\ tokens' = tokens /\ stale' = stale /\ left' = left /\ demand' = demand
      /\ fleetJobs' = fleetJobs /\ fleetEvents' = fleetEvents
  BY DEF FleetInv, FleetTypeOK, FleetWrite
<1>2. CASE ToWrite(w) = {} /\ fleet' = [fleet EXCEPT ![w].pc = "save", ![w].status = "applied"]
           /\ home' = home /\ undisturbed' = undisturbed
  <2>1. \A x \in Home : fleet[w].move[x] = 0 /\ fleet[w].sync[x] = 0
    BY <1>2 DEF ToWrite
  <2>2. /\ fleet'[w] \in FleetJob /\ fleet'[w].pc = "save"
        /\ fleet'[w].cred = fleet[w].cred /\ fleet'[w].usage = fleet[w].usage
    BY <1>1, <1>2 DEF FleetTypeOK, FleetJob, FleetSteps
  <2>3. FleetTypeOK'
    BY <1>1, <1>2, <2>2 DEF FleetTypeOK
  <2>4. ServedInv(w)'
    BY <1>1, <1>2, <2>1, <2>2 DEF ServedInv, Served, Holds
  <2> QED  BY <1>1, <1>2, <2>2, <2>3, <2>4 DEF WritesInv, FleetTypeOK
<1>3. CASE fleet' = [fleet EXCEPT ![w].pc = "save", ![w].status = "blocked"]
           /\ home' = home /\ undisturbed' = undisturbed
  <2>1. fleet'[w] \in FleetJob /\ fleet'[w].pc = "save" /\ fleet'[w].status = "blocked"
    BY <1>1, <1>3 DEF FleetTypeOK, FleetJob, FleetSteps
  <2>2. FleetTypeOK'
    BY <1>1, <1>3, <2>1 DEF FleetTypeOK
  <2> QED  BY <1>1, <1>3, <2>1, <2>2, FleetQuiet DEF FleetTypeOK
<1>4. CASE ToWrite(w) # {} /\ home' = [home EXCEPT ![h] = Auth(l, v, TRUE)]
           /\ undisturbed' = [x \in Fleet |-> x = w /\ undisturbed[w]]
           /\ fleet' = [fleet EXCEPT ![w].move[h] = 0, ![w].sync[h] = 0]
  <2> DEFINE labels == EligibleLabels(fleet[w].usage)
  <2>1. h \in Home /\ (fleet[w].move[h] # 0 \/ fleet[w].sync[h] # 0)
    BY <1>4, WrittenIs
  <2> HIDE DEF h
  <2>2. labels \subseteq FleetLabel /\ 0 \notin FleetLabel /\ FleetLabel \subseteq Nat
    BY DEF EligibleLabels, FleetLabel
  <2>3. l \in labels
    <3> DEFINE m == fleet[w].move[h]   s == fleet[w].sync[h]
    <3>1. m \in {0} \cup labels /\ s \in {0} \cup labels /\ (m = 0 \/ s = 0) /\ (m # 0 \/ s # 0)
      BY <1>1, <2>1 DEF WritesInv
    <3> HIDE DEF m, s, labels
    <3>2. m + s \in labels
      BY <2>2, <3>1
    <3> QED  BY <3>2 DEF m, s
  <2> HIDE DEF l, labels
  <2>4. v \in Nat /\ Auth(l, v, TRUE) \in AuthRecord
    BY <1>1, <2>2, <2>3 DEF FleetJob, Auth, AuthRecord
  <2>5. /\ fleet'[w] = [fleet[w] EXCEPT !.move[h] = 0, !.sync[h] = 0]
        /\ fleet' = [x \in Fleet |-> IF x = w THEN fleet'[w] ELSE fleet[x]]
    BY <1>1, <1>4 DEF FleetTypeOK
  <2>6. /\ fleet'[w].pc = "write" /\ fleet'[w].cred = fleet[w].cred /\ fleet'[w].usage = fleet[w].usage
        /\ fleet'[w].move = [fleet[w].move EXCEPT ![h] = 0]
        /\ fleet'[w].sync = [fleet[w].sync EXCEPT ![h] = 0]
        /\ fleet'[w] \in FleetJob
    <3> DEFINE move == [fleet[w].move EXCEPT ![h] = 0]   sync == [fleet[w].sync EXCEPT ![h] = 0]
    <3>1. fleet'[w] = [fleet[w] EXCEPT !.move = move, !.sync = sync]
      BY <1>1, <2>5 DEF FleetJob
    <3>2. move \in [Home -> {0} \cup FleetLabel] /\ sync \in [Home -> {0} \cup FleetLabel]
      BY <1>1 DEF FleetJob
    <3> HIDE DEF move, sync
    <3>3. /\ fleet'[w].pc = "write" /\ fleet'[w].cred = fleet[w].cred /\ fleet'[w].usage = fleet[w].usage
          /\ fleet'[w].move = move /\ fleet'[w].sync = sync /\ fleet'[w] \in FleetJob
      BY <1>1, <3>1, <3>2 DEF FleetJob
    <3> QED  BY <3>3 DEF move, sync
  <2>7. \A x \in Home : /\ fleet'[w].move[x] = IF x = h THEN 0 ELSE fleet[w].move[x]
                        /\ fleet'[w].sync[x] = IF x = h THEN 0 ELSE fleet[w].sync[x]
    BY <1>1, <2>6 DEF FleetJob
  <2>8. \A x \in Home : home'[x] = IF x = h THEN Auth(l, v, TRUE) ELSE home[x]
    BY <1>1, <1>4 DEF FleetTypeOK
  <2>9. home' \in [Home -> AuthRecord] /\ fleet' \in [Fleet -> FleetJob]
        /\ undisturbed' \in [Fleet -> BOOLEAN]
    <3>1. home' \in [Home -> AuthRecord]
      BY <1>1, <1>4, <2>4 DEF FleetTypeOK
    <3>2. fleet' \in [Fleet -> FleetJob]
      BY <1>1, <2>5, <2>6 DEF FleetTypeOK
    <3>3. undisturbed' \in [Fleet -> BOOLEAN]
      BY <1>1, <1>4 DEF FleetTypeOK
    <3> QED  BY <3>1, <3>2, <3>3
  <2>10. FleetTypeOK'
    BY <1>1, <2>9 DEF FleetTypeOK
  <2>11. WritesInv(w)'
    BY <1>1, <2>6, <2>7 DEF WritesInv
  <2>12. ASSUME undisturbed'[w], NEW x \in Home, fleet'[w].move[x] = 0, fleet'[w].sync[x] = 0
         PROVE  Served(w, x)'
    <3>1. CASE x = h
      <4>1. home'[x] = Auth(l, v, TRUE)
        BY <2>8, <3>1
      <4>2. fleet'[w].cred[l] = v /\ EligibleLabels(fleet[w].usage)' = labels
        BY <2>6 DEF labels, EligibleLabels
      <4> QED  BY <2>3, <4>1, <4>2 DEF Served, Holds, Auth
    <3>2. CASE x # h
      <4>1. undisturbed[w] /\ Served(w, x)
        BY <1>1, <1>4, <2>7, <2>12, <3>2 DEF ServedInv
      <4> QED  BY <2>6, <2>8, <3>2, <4>1 DEF Served, Holds
    <3> QED  BY <3>1, <3>2
  <2>13. ServedInv(w)'
    BY <2>6, <2>12 DEF ServedInv
  <2>14. \A x \in Fleet \ {w} : fleet'[x] = fleet[x] /\ ~undisturbed'[x]
    BY <1>4, <2>5
  <2> QED  BY <2>10, <2>11, <2>13, <2>14
<1> QED  BY <1>2, <1>3, <1>4 DEF FleetWrite

LEMMA FleetInvStep == ASSUME FleetInv, [FleetNext]_fleetVars PROVE FleetInv'
<1>1. FleetTypeOK /\ \A w \in Fleet : WritesInv(w) /\ ServedInv(w)
  BY DEF FleetInv
<1>2. ASSUME NEW w \in Fleet, FleetBegin(w) \/ FleetSave(w) \/ FleetFails(w) \/ FleetProbe(w) PROVE FleetInv'
  <2>1. home' = home /\ undisturbed' = undisturbed
    BY <1>2 DEF FleetBegin, FleetSave, FleetFails, FleetProbe
  <2>2. fleet'[w] \in FleetJob /\ fleet'[w].pc \in {"probe", "look", "idle"}
        /\ fleet' = [x \in Fleet |-> IF x = w THEN fleet'[w] ELSE fleet[x]]
    <3>1. CASE FleetBegin(w)
      BY <1>1, <3>1, NoJobTyped DEF FleetBegin, FleetTypeOK, FleetJob, FleetSteps
    <3>2. CASE FleetSave(w) \/ FleetFails(w)
      <4>1. fleet' = [fleet EXCEPT ![w] = NoFleetJob] /\ fleet \in [Fleet -> FleetJob]
        BY <1>1, <3>2 DEF FleetSave, FleetFails, FleetTypeOK
      <4> QED  BY <4>1, NoJobTyped
    <3>3. CASE FleetProbe(w)
      <4> DEFINE use == [l \in FleetLabel |-> Probed(w, l)]
      <4>1. use \in [FleetLabel -> Usage]
        BY <1>1 DEF Probed, FleetTypeOK, Usage
      <4>2. fleet \in [Fleet -> FleetJob] /\ fleet' = [fleet EXCEPT ![w].pc = "look", ![w].usage = use]
        BY <1>1, <3>3 DEF FleetProbe, FleetTypeOK
      <4> HIDE DEF use
      <4>3. fleet'[w] = [fleet[w] EXCEPT !.pc = "look", !.usage = use]
            /\ fleet' = [x \in Fleet |-> IF x = w THEN fleet'[w] ELSE fleet[x]]
        BY <4>2
      <4>4. fleet[w] \in FleetJob /\ fleet'[w] = [fleet[w] EXCEPT !.pc = "look", !.usage = use]
        BY <4>2, <4>3
      <4>5. fleet'[w] \in FleetJob /\ fleet'[w].pc = "look"
        BY <4>1, <4>4 DEF FleetJob, FleetSteps
      <4> QED  BY <4>3, <4>5
    <3> QED  BY <1>2, <3>1, <3>2, <3>3
  <2>3. FleetTypeOK'
    <3>1. /\ tokens' = tokens /\ stale' = stale /\ left' = left /\ demand' = demand
          /\ fleetJobs' \in [Fleet -> Nat] /\ fleetEvents' \in Nat
      BY <1>1, <1>2 DEF FleetBegin, FleetSave, FleetFails, FleetProbe, FleetTypeOK
    <3>2. fleet' \in [Fleet -> FleetJob]
      BY <1>1, <2>2 DEF FleetTypeOK
    <3> QED  BY <1>1, <2>1, <3>1, <3>2 DEF FleetTypeOK
  <2>4. \A x \in Fleet : WritesInv(x)' /\ ServedInv(x)'
    BY <1>1, <2>1, <2>2, FleetQuiet, FleetOthers
  <2> QED  BY <2>3, <2>4 DEF FleetInv
<1>3. ASSUME NEW w \in Fleet, FleetLook(w) PROVE FleetInv'
  <2>1. /\ fleet[w].pc = "look" /\ fleet' = [fleet EXCEPT ![w] = Decided(w)]
        /\ home' = home /\ undisturbed' = [undisturbed EXCEPT ![w] = TRUE]
        /\ tokens' = tokens /\ stale' = stale /\ left' = left /\ demand' = demand
        /\ fleetJobs' = fleetJobs /\ fleetEvents' = fleetEvents
    BY <1>3 DEF FleetLook
  <2>2. Decided(w) \in FleetJob /\ WritesInv(w)' /\ ServedInv(w)'
    BY <2>1, DecidedWell
  <2>3. FleetTypeOK'
    BY <1>1, <2>1, <2>2 DEF FleetTypeOK
  <2>4. \A x \in Fleet \ {w} : fleet'[x] = fleet[x] /\ undisturbed'[x] = undisturbed[x]
    BY <1>1, <2>1 DEF FleetTypeOK
  <2>5. \A x \in Fleet \ {w} : WritesInv(x)' /\ ServedInv(x)'
    BY <1>1, <2>1, <2>4, FleetOthers
  <2> QED  BY <2>2, <2>3, <2>5 DEF FleetInv
<1>4. ASSUME NEW w \in Fleet, FleetWrite(w) PROVE FleetInv'
  <2>1. /\ FleetTypeOK' /\ WritesInv(w)' /\ ServedInv(w)'
        /\ \A x \in Fleet \ {w} : fleet'[x] = fleet[x] /\ (undisturbed'[x] => undisturbed[x] /\ home' = home)
    BY <1>4, WriteWell
  <2>2. \A x \in Fleet \ {w} : WritesInv(x)' /\ ServedInv(x)'
    BY <1>1, <2>1, FleetOthers
  <2> QED  BY <2>1, <2>2 DEF FleetInv
<1>5. ASSUME fleet' = fleet, FleetTypeOK',
             \A x \in Fleet : undisturbed'[x] => undisturbed[x] /\ home' = home
      PROVE  FleetInv'
  BY <1>1, <1>5, FleetOthers DEF FleetInv
<1>6. ASSUME NEW h \in Home, NEW a \in OtherAuths(home[h]), HomeWrites(h, a) PROVE FleetInv'
  <2>1. a \in AuthRecord
    <3>1. home[h] \in AuthRecord
      BY <1>1 DEF FleetTypeOK
    <3>2. /\ Auth(home[h].label, 0, TRUE) \in AuthRecord /\ Auth(0, 0, TRUE) \in AuthRecord
          /\ [home[h] EXCEPT !.pooled = FALSE] \in AuthRecord
      BY <3>1 DEF Auth, AuthRecord
    <3>3. \A s \in Unusable : [Auth(0, 0, FALSE) EXCEPT !.state = s] \in AuthRecord
      BY DEF Auth, AuthRecord
    <3> QED  BY <3>2, <3>3 DEF OtherAuths
  <2>2. FleetTypeOK'
    BY <1>1, <1>6, <2>1 DEF FleetTypeOK, HomeWrites, FleetEvent
  <2>3. fleet' = fleet /\ \A x \in Fleet : ~undisturbed'[x]
    BY <1>6 DEF HomeWrites
  <2> QED  BY <1>5, <2>2, <2>3
<1>7. CASE \/ \E l \in FleetLabel, u \in Usage : UsageMoves(l, u)
           \/ \E l \in FleetLabel : TokensMaintained(l)
           \/ \E l \in FleetLabel : TokensExpire(l)
           \/ UNCHANGED fleetVars
  <2>1. FleetTypeOK'
    BY <1>1, <1>7 DEF FleetTypeOK, UsageMoves, TokensMaintained, TokensExpire, FleetEvent, fleetVars
  <2>2. fleet' = fleet /\ home' = home /\ undisturbed' = undisturbed
    BY <1>7 DEF UsageMoves, TokensMaintained, TokensExpire, fleetVars
  <2> QED  BY <1>5, <2>1, <2>2
<1> QED  BY <1>2, <1>3, <1>4, <1>6, <1>7 DEF FleetNext, FleetStep

(* Every variable of the fleet keeps to its type. *)
THEOREM FleetTypeCorrect == FleetSpec => []FleetTypeOK
<1>1. FleetInit => FleetInv
  BY FleetInitial
<1>2. FleetInv /\ [FleetNext]_fleetVars => FleetInv'
  BY FleetInvStep
<1>3. FleetInv => FleetTypeOK
  BY DEF FleetInv
<1> QED  BY <1>1, <1>2, <1>3, PTL DEF FleetSpec

(* A job of `aim hermes watch` or `aim rebalance hermes` that ends well, and during *)
(* which nobody else wrote a home, leaves every home with the tokens it loaded of a *)
(* label that has headroom, in both places of its auth.json.                        *)
THEOREM FleetIsServed == FleetSpec => FleetServed
<1> DEFINE Done ==
      \A w \in Fleet :
         fleet[w].pc = "save" /\ fleet'[w].pc = "idle" /\ undisturbed[w]
            /\ fleet[w].status \in {"noop", "applied"} =>
         \A h \in Home : Holds(h, fleet[w].cred, EligibleLabels(fleet[w].usage))
<1>1. FleetInit => FleetInv
  BY FleetInitial
<1>2. FleetInv /\ [FleetNext]_fleetVars => FleetInv'
  BY FleetInvStep
<1>3. FleetInv => [Done]_fleetVars
  BY DEF FleetInv, ServedInv, Served
<1> QED  BY <1>1, <1>2, <1>3, PTL DEF FleetSpec, FleetServed
=============================================================================
