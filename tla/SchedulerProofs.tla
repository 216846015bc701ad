--------------------------- MODULE SchedulerProofs ---------------------------
(***************************************************************************)
(* Proofs about GainPerCostScheduler and the driver LocalTypedEM on top of *)
(* it.  The ranking is a strict order, so the greedy pass over it is well  *)
(* defined and its budget adds up; the fairness bounds follow from a count *)
(* of how many nodes were served lately.                                   *)
(***************************************************************************)
EXTENDS LocalTypedEM, FiniteSetTheorems, WellFoundedInduction, TLAPS

-----------------------------------------------------------------------------
(* Finite sets                                                             *)

(* A nonempty collection of subsets of a finite set has a smallest one ... *)
LEMMA Smallest ==
  ASSUME NEW T, IsFiniteSet(T), NEW G, G # {}, \A U \in G : U \subseteq T
  PROVE  \E U \in G : \A V \in G : V \subseteq U => V = U
<1>1. IsWellFoundedOn(StrictSubsetOrdering(T), FiniteSubsetsOf(T))
  BY FS_StrictSubsetOrderingWellFounded
<1>2. FiniteSubsetsOf(T) = SUBSET T
  BY FS_FiniteSubsetsOfFinite
<1>3. PICK U \in G : \A V \in G : ~(<<V, U>> \in StrictSubsetOrdering(T))
  <2>1. G \subseteq FiniteSubsetsOf(T)
    BY <1>2
  <2> QED
    BY <1>1, <2>1, WFMin
<1>4. ASSUME NEW V \in G, V \subseteq U PROVE V = U
  <2>1. V \in SUBSET T /\ U \in SUBSET T
    OBVIOUS
  <2>2. V # U => <<V, U>> \in StrictSubsetOrdering(T)
    BY <1>4, <2>1 DEF StrictSubsetOrdering
  <2> QED
    BY <1>3, <2>2
<1> QED
  BY <1>4

(* ... and a largest one.                                                  *)
LEMMA Largest ==
  ASSUME NEW T, IsFiniteSet(T), NEW G, G # {}, \A U \in G : U \subseteq T
  PROVE  \E U \in G : \A V \in G : U \subseteq V => V = U
<1> DEFINE H == {T \ U : U \in G}
<1>1. (\A W \in H : W \subseteq T) /\ H # {}
  OBVIOUS
<1>2. PICK W \in H : \A V \in H : V \subseteq W => V = W
  <2> HIDE DEF H
  <2> QED
    BY <1>1, Smallest
<1>3. PICK U \in G : W = T \ U
  OBVIOUS
<1>4. ASSUME NEW V \in G, U \subseteq V PROVE V = U
  <2>1. T \ V \in H /\ T \ V \subseteq W
    BY <1>3, <1>4
  <2>2. T \ V = T \ U
    BY <1>2, <1>3, <2>1
  <2> QED
    BY <2>2, <1>4
<1> QED
  BY <1>4

(* R orders the elements of E strictly and totally.                        *)
StrictOrder(R, E) ==
  /\ \A x \in E : <<x, x>> \notin R
  /\ \A x, y \in E : x # y => <<x, y>> \in R \/ <<y, x>> \in R
  /\ \A x, y, z \in E : <<x, y>> \in R /\ <<y, z>> \in R => <<x, z>> \in R

(* A nonempty finite set that is strictly ordered has a first ...          *)
LEMMA First ==
  ASSUME NEW R, NEW P, IsFiniteSet(P), P # {}, StrictOrder(R, P)
  PROVE  \E x \in P : \A y \in P \ {x} : <<x, y>> \in R
<1> DEFINE upTo(x) == {z \in P : z = x \/ <<z, x>> \in R}
           G == {upTo(x) : x \in P}
<1>1. (\A U \in G : U \subseteq P) /\ G # {}
  OBVIOUS
<1>2. PICK U \in G : \A V \in G : V \subseteq U => V = U
  <2> HIDE DEF G
  <2> QED
    BY <1>1, Smallest
<1>3. PICK x \in P : U = upTo(x)
  OBVIOUS
<1>4. ASSUME NEW y \in P \ {x}, <<x, y>> \notin R PROVE FALSE
  <2>1. <<y, x>> \in R
    BY <1>4 DEF StrictOrder
  <2>2. upTo(y) \subseteq upTo(x)
    BY <2>1 DEF StrictOrder
  <2>3. x \in upTo(x) /\ x \notin upTo(y)
    BY <1>4
  <2>4. upTo(y) \in G
    OBVIOUS
  <2> HIDE DEF upTo, G
  <2> QED
    BY <1>2, <1>3, <2>2, <2>3, <2>4
<1> QED
  BY <1>4

(* ... and a last element.                                                 *)
LEMMA Last ==
  ASSUME NEW R, NEW P, IsFiniteSet(P), P # {}, StrictOrder(R, P)
  PROVE  \E x \in P : \A y \in P \ {x} : <<y, x>> \in R
<1> DEFINE upTo(x) == {z \in P : z = x \/ <<z, x>> \in R}
           G == {upTo(x) : x \in P}
<1>1. (\A U \in G : U \subseteq P) /\ G # {}
  OBVIOUS
<1>2. PICK U \in G : \A V \in G : U \subseteq V => V = U
  <2> HIDE DEF G
  <2> QED
    BY <1>1, Largest
<1>3. PICK x \in P : U = upTo(x)
  OBVIOUS
<1>4. ASSUME NEW y \in P \ {x}, <<y, x>> \notin R PROVE FALSE
  <2>1. <<x, y>> \in R
    BY <1>4 DEF StrictOrder
  <2>2. upTo(x) \subseteq upTo(y)
    BY <2>1 DEF StrictOrder
  <2>3. y \in upTo(y) /\ y \notin upTo(x)
    BY <1>4
  <2>4. upTo(y) \in G
    OBVIOUS
  <2> HIDE DEF upTo, G
  <2> QED
    BY <1>2, <1>3, <2>2, <2>3, <2>4
<1> QED
  BY <1>4

-----------------------------------------------------------------------------
(* Costs                                                                   *)

(* What the nodes of S cost together, unit by unit.                        *)
LEMMA CostFacts ==
  ASSUME NEW D, IsFiniteSet(D), NEW cost \in [D -> Nat \ {0}]
  PROVE  /\ \A S \in SUBSET D : CostOf(S, cost) \in Nat
         /\ CostOf({}, cost) = 0
         /\ \A S, T \in SUBSET D : S \subseteq T => CostOf(S, cost) <= CostOf(T, cost)
         /\ \A S \in SUBSET D, x \in D :
              x \notin S => CostOf(S \cup {x}, cost) = CostOf(S, cost) + cost[x]
<1> DEFINE column(n) == {n} \X (1..cost[n])
           units(S) == UNION {column(n) : n \in S}
<1>1. ASSUME NEW x \in D PROVE IsFiniteSet(column(x)) /\ Cardinality(column(x)) = cost[x]
  <2>1. cost[x] \in Nat /\ cost[x] >= 1
    OBVIOUS
  <2>2. IsFiniteSet(1..cost[x]) /\ Cardinality(1..cost[x]) = cost[x]
    BY <2>1, FS_Interval
  <2>3. IsFiniteSet({x}) /\ Cardinality({x}) = 1
    BY FS_Singleton
  <2>4. /\ IsFiniteSet({x} \X (1..cost[x]))
        /\ Cardinality({x} \X (1..cost[x])) = Cardinality({x}) * Cardinality(1..cost[x])
    BY <2>2, <2>3, FS_Product
  <2> QED
    BY <2>1, <2>2, <2>3, <2>4
<1>2. ASSUME NEW S \in SUBSET D PROVE IsFiniteSet(units(S))
  <2>0. IsFiniteSet(S)
    BY FS_Subset
  <2> DEFINE f == [n \in S |-> column(n)]
             C == {column(n) : n \in S}
  <2>1. f \in Surjection(S, C)
    BY DEF Surjection
  <2>2. IsFiniteSet(C)
    <3> HIDE DEF f, C
    <3> QED
      BY <2>0, <2>1, FS_Surjection
  <2>3. \A c \in C : IsFiniteSet(c)
    BY <1>1
  <2>4. IsFiniteSet(UNION C)
    <3> HIDE DEF C
    <3> QED
      BY <2>2, <2>3, FS_UNION
  <2> QED
    BY <2>4
<1>3. \A S : CostOf(S, cost) = Cardinality(units(S))
  BY DEF CostOf
<1>4. ASSUME NEW S \in SUBSET D PROVE CostOf(S, cost) \in Nat
  <2> HIDE DEF units
  <2> QED
    BY <1>2, <1>3, FS_CardinalityType
<1>5. CostOf({}, cost) = 0
  <2>1. units({}) = {}
    OBVIOUS
  <2> HIDE DEF units
  <2> QED
    BY <1>3, <2>1, FS_EmptySet
<1>6. ASSUME NEW S \in SUBSET D, NEW T \in SUBSET D, S \subseteq T
      PROVE  CostOf(S, cost) <= CostOf(T, cost)
  <2>1. units(S) \subseteq units(T)
    BY <1>6
  <2> HIDE DEF units
  <2> QED
    BY <1>2, <1>3, <2>1, FS_Subset
<1>7. ASSUME NEW S \in SUBSET D, NEW x \in D, x \notin S
      PROVE  CostOf(S \cup {x}, cost) = CostOf(S, cost) + cost[x]
  <2>1. units(S \cup {x}) = units(S) \cup column(x)
    OBVIOUS
  <2>2. units(S) \cap column(x) = {}
    BY <1>7
  <2>3. IsFiniteSet(units(S)) /\ IsFiniteSet(column(x)) /\ Cardinality(column(x)) = cost[x]
    BY <1>1, <1>2
  <2>4. Cardinality(units(S)) \in Nat /\ cost[x] \in Nat
    <3> HIDE DEF units
    <3> QED
      BY <1>3, <1>4
  <2>5. Cardinality(units(S) \cap column(x)) = 0
    BY <2>2, FS_EmptySet
  <2>6. Cardinality(units(S) \cup column(x))
          = Cardinality(units(S)) + Cardinality(column(x)) - Cardinality(units(S) \cap column(x))
    <3> HIDE DEF units, column
    <3> QED
      BY <2>3, FS_Union
  <2>7. CostOf(S \cup {x}, cost) = Cardinality(units(S) \cup column(x))
    BY <1>3, <2>1
  <2>8. CostOf(S, cost) = Cardinality(units(S))
    BY <1>3
  <2> HIDE DEF units, column
  <2> QED
    BY <2>3, <2>4, <2>5, <2>6, <2>7, <2>8
<1> QED
  BY <1>4, <1>5, <1>6, <1>7

-----------------------------------------------------------------------------
(* The greedy pass                                                         *)

(* S holds those elements of W that fit after the ones of S before them.   *)
Greedy(R, W, cost, S) ==
  \A n \in W : n \in S <=> Fits(S \cap {m \in W : <<m, n>> \in R}, n, cost)

(* The greedy pass over a ranking has a result: a part of the ranking that *)
(* it has passed and that cannot be extended is all of it.                 *)
LEMMA GreedyExists ==
  ASSUME NEW R, NEW W, IsFiniteSet(W), StrictOrder(R, W), NEW cost
  PROVE  \E S \in SUBSET W : Greedy(R, W, cost, S)
<1> DEFINE front(n) == {m \in W : <<m, n>> \in R}
           Passed(P, S) ==
             \A n \in P : front(n) \subseteq P /\ (n \in S <=> Fits(S \cap front(n), n, cost))
           G == {P \in SUBSET W : \E S \in SUBSET P : Passed(P, S)}
<1>1. {} \in G
  OBVIOUS
<1>2. PICK P \in G : \A Q \in G : P \subseteq Q => Q = P
  <2>1. \A Q \in G : Q \subseteq W
    OBVIOUS
  <2> HIDE DEF G
  <2> QED
    BY <1>1, <2>1, Largest
<1>3. PICK S \in SUBSET P : Passed(P, S)
  OBVIOUS
<1>4. P \subseteq W
  OBVIOUS
<1>5. ASSUME P # W PROVE FALSE
  <2>1. IsFiniteSet(W \ P) /\ W \ P # {}
    BY <1>4, <1>5, FS_Subset
  <2>2. StrictOrder(R, W \ P)
    BY DEF StrictOrder
  <2>3. PICK x \in W \ P : \A y \in (W \ P) \ {x} : <<x, y>> \in R
    BY <2>1, <2>2, First
  <2>4. front(x) \subseteq P
    <3>1. ASSUME NEW m \in W, <<m, x>> \in R, m \notin P PROVE FALSE
      <4>1. m # x
        BY <3>1 DEF StrictOrder
      <4>2. <<x, m>> \in R
        BY <2>3, <3>1, <4>1
      <4> QED
        BY <3>1, <4>2 DEF StrictOrder
    <3> QED
      BY <3>1
  <2> DEFINE S2 == IF Fits(S \cap front(x), x, cost) THEN S \cup {x} ELSE S
             Q == P \cup {x}
  <2>5. S2 \subseteq Q
    OBVIOUS
  <2>6. ASSUME NEW n \in P
        PROVE  front(n) \subseteq Q /\ (n \in S2 <=> Fits(S2 \cap front(n), n, cost))
    <3>1. front(n) \subseteq P /\ x \notin front(n) /\ n # x
      BY <1>3, <2>3, <2>6
    <3>2. S2 \cap front(n) = S \cap front(n)
      BY <3>1
    <3>3. n \in S2 <=> n \in S
      BY <3>1
    <3> HIDE DEF S2, front
    <3> QED
      BY <1>3, <3>1, <3>2, <3>3
  <2>7. front(x) \subseteq Q /\ (x \in S2 <=> Fits(S2 \cap front(x), x, cost))
    <3>1. x \notin S /\ x \notin front(x)
      BY <2>3, <2>4
    <3>2. S2 \cap front(x) = S \cap front(x)
      BY <3>1
    <3>3. x \in S2 <=> Fits(S \cap front(x), x, cost)
      BY <3>1
    <3> HIDE DEF S2, front
    <3> QED
      BY <2>4, <3>2, <3>3
  <2>8. Passed(Q, S2)
    <3> HIDE DEF S2, front
    <3> QED
      BY <2>6, <2>7
  <2>9. Q \in G
    <3>1. Q \in SUBSET W
      BY <1>4, <2>3
    <3> HIDE DEF S2, front, Passed, Q
    <3> QED
      BY <2>5, <2>8, <3>1
  <2>10. P \subseteq Q /\ Q # P
    BY <2>3
  <2> HIDE DEF G, Q
  <2> QED
    BY <1>2, <2>9, <2>10
<1>6. Greedy(R, W, cost, S)
  <2>1. ASSUME NEW n \in W PROVE n \in S <=> Fits(S \cap front(n), n, cost)
    <3> HIDE DEF front
    <3> QED
      BY <1>3, <1>5
  <2> QED
    BY <2>1 DEF Greedy
<1> QED
  BY <1>4, <1>6

(* What it selects is within the budget, and nothing else fits.            *)
LEMMA GreedyBudget ==
  ASSUME NEW D, IsFiniteSet(D), NEW cost \in [D -> Nat \ {0}],
         NEW R, NEW W \in SUBSET D, StrictOrder(R, W),
         NEW S \in SUBSET W, Greedy(R, W, cost, S)
  PROVE  /\ CostOf(S, cost) * BudgetShare[2] <= CostOf(D, cost) * BudgetShare[1]
         /\ \A n \in W \ S : ~Fits(S, n, cost)
<1> DEFINE front(n) == {m \in W : <<m, n>> \in R}
<1>1. BudgetShare[1] \in Nat /\ BudgetShare[2] \in Nat
  BY SchedulerAssumption
<1>2. \A n \in W : n \in S <=> Fits(S \cap front(n), n, cost)
  BY DEF Greedy
<1>3. DOMAIN cost = D
  OBVIOUS
<1>4. S \in SUBSET D /\ IsFiniteSet(S)
  BY FS_Subset
<1>5. \A T \in SUBSET D : CostOf(T, cost) \in Nat
  BY CostFacts
<1>6. \A n \in D : cost[n] \in Nat
  OBVIOUS
<1>7. CostOf(S, cost) * BudgetShare[2] <= CostOf(D, cost) * BudgetShare[1]
  <2>1. CASE S = {}
    <3>1. CostOf(S, cost) = 0 /\ CostOf(D, cost) \in Nat
      BY <1>5, <2>1, CostFacts
    <3>2. 0 <= CostOf(D, cost) * BudgetShare[1]
      BY <1>1, <3>1
    <3> QED
      BY <1>1, <3>1, <3>2
  <2>2. CASE S # {}
    <3>1. StrictOrder(R, S)
      BY DEF StrictOrder
    <3>2. PICK x \in S : \A y \in S \ {x} : <<y, x>> \in R
      BY <1>4, <2>2, <3>1, Last
    <3>3. S \cap front(x) = S \ {x}
      BY <3>2 DEF StrictOrder
    <3>4. Fits(S \ {x}, x, cost)
      BY <1>2, <3>3
    <3>5. CostOf(S, cost) = CostOf(S \ {x}, cost) + cost[x]
      <4>1. S \ {x} \in SUBSET D /\ x \in D /\ x \notin S \ {x} /\ (S \ {x}) \cup {x} = S
        BY <1>4
      <4>2. CostOf((S \ {x}) \cup {x}, cost) = CostOf(S \ {x}, cost) + cost[x]
        <5> DEFINE T == S \ {x}
        <5>1. T \in SUBSET D /\ x \in D /\ x \notin T
          BY <4>1
        <5> HIDE DEF T
        <5>2. CostOf(T \cup {x}, cost) = CostOf(T, cost) + cost[x]
          BY <5>1, CostFacts
        <5> QED
          BY <5>2 DEF T
      <4> QED
        BY <4>1, <4>2
    <3> QED
      BY <1>3, <3>4, <3>5 DEF Fits
  <2> QED
    BY <2>1, <2>2
<1>8. ASSUME NEW n \in W \ S, Fits(S, n, cost) PROVE FALSE
  <2>1. ~Fits(S \cap front(n), n, cost)
    BY <1>2
  <2> DEFINE a == CostOf(S \cap front(n), cost)
             b == CostOf(S, cost)
  <2>2. a \in Nat /\ b \in Nat /\ a <= b
    <3>1. S \cap front(n) \in SUBSET D /\ S \cap front(n) \subseteq S
      BY <1>4
    <3> QED
      BY <1>4, <3>1, CostFacts
  <2>3. cost[n] \in Nat
    BY <1>6
  <2>4. (a + cost[n]) * BudgetShare[2] <= (b + cost[n]) * BudgetShare[2]
    <3> HIDE DEF a, b
    <3>1. a + cost[n] <= b + cost[n] /\ a + cost[n] \in Nat /\ b + cost[n] \in Nat
      BY <2>2, <2>3
    <3> QED
      BY <1>1, <3>1
  <2>5. /\ (b + cost[n]) * BudgetShare[2] <= CostOf(D, cost) * BudgetShare[1]
        /\ ~((a + cost[n]) * BudgetShare[2] <= CostOf(D, cost) * BudgetShare[1])
    BY <1>3, <1>8, <2>1 DEF Fits
  <2>6. CostOf(D, cost) * BudgetShare[1] \in Nat
    <3>1. CostOf(D, cost) \in Nat
      BY <1>5
    <3> QED
      BY <1>1, <3>1
  <2>7. (a + cost[n]) * BudgetShare[2] \in Nat /\ (b + cost[n]) * BudgetShare[2] \in Nat
    <3> HIDE DEF a, b
    <3> QED
      BY <1>1, <2>2, <2>3
  <2> HIDE DEF a, b
  <2> QED
    BY <2>4, <2>5, <2>6, <2>7
<1> QED
  BY <1>7, <1>8

-----------------------------------------------------------------------------
(* The ranking                                                             *)

(* Gains per cost are compared without dividing: the comparison of a / p   *)
(* with b / q as a * q > b * p is transitive for positive costs.           *)
LEMMA Ratios ==
  ASSUME NEW a \in Int, NEW b \in Int, NEW c \in Int,
         NEW p \in Nat \ {0}, NEW q \in Nat \ {0}, NEW r \in Nat \ {0},
         a * q >= b * p, b * r >= c * q
  PROVE  /\ a * r >= c * p
         /\ a * q > b * p \/ b * r > c * q => a * r > c * p
<1>1. (a * q) * r >= (b * p) * r /\ (a * q > b * p => (a * q) * r > (b * p) * r)
  OBVIOUS
<1>2. (b * r) * p >= (c * q) * p /\ (b * r > c * q => (b * r) * p > (c * q) * p)
  OBVIOUS
<1>3. (b * p) * r = (b * r) * p /\ (a * q) * r = (a * r) * q /\ (c * q) * p = (c * p) * q
  OBVIOUS
<1>4. /\ (a * r) * q >= (c * p) * q
      /\ a * q > b * p \/ b * r > c * q => (a * r) * q > (c * p) * q
  BY <1>1, <1>2, <1>3
<1>5. \A x, y \in Int : (x * q >= y * q => x >= y) /\ (x * q > y * q => x > y)
  OBVIOUS
<1>6. a * r \in Int /\ c * p \in Int
  OBVIOUS
<1> QED
  BY <1>4, <1>5, <1>6

(* What a round is scheduled from.                                         *)
LEMMA OfferFacts ==
  ASSUME NEW offers \in Offers, NEW version \in Nat
  PROVE  /\ DOMAIN offers \in SUBSET Nodes /\ IsFiniteSet(DOMAIN offers)
         /\ Costs(offers, version) \in [DOMAIN offers -> Nat \ {0}]
         /\ \A n \in DOMAIN offers : Gain(offers, version, n) \in Int
         /\ Bootstrap(offers, version) \subseteq Worthwhile(offers, version)
         /\ Worthwhile(offers, version) \subseteq DOMAIN offers
<1>1. PICK E \in SUBSET Nodes : offers \in [E -> Evidence \cup {Unmeasured}]
  BY DEF Offers
<1>2. \A n \in E : Usable(offers, version, n) => offers[n] \in Evidence
  BY <1>1 DEF Usable
<1>3. \A n \in E : Usable(offers, version, n) => offers[n].gain \in Int /\ offers[n].risk \in Nat
  BY <1>2 DEF Evidence
<1>4. BaseCost \in [Nodes -> Nat \ {0}]
  BY SchedulerAssumption
<1>5. IsFiniteSet(E)
  BY SchedulerAssumption, FS_Subset
<1>6. Costs(offers, version) \in [E -> Nat \ {0}]
  <2>1. ASSUME NEW n \in E
        PROVE  BaseCost[n] + (IF Usable(offers, version, n) THEN offers[n].risk ELSE 0)
                 \in Nat \ {0}
    BY <1>3, <1>4
  <2> QED
    BY <1>1, <2>1 DEF Costs
<1>7. \A n \in E : Gain(offers, version, n) \in Int
  BY <1>3 DEF Gain
<1> QED
  BY <1>1, <1>5, <1>6, <1>7 DEF Bootstrap, Worthwhile

(* The order of schedule()'s sort key on the nodes that are offered.       *)
Ranking(offers, version) ==
  {p \in (DOMAIN offers) \X (DOMAIN offers) : Ahead(p[1], p[2], offers, version)}

LEMMA RankingIsStrict ==
  ASSUME NEW offers \in Offers, NEW version \in Nat
  PROVE  StrictOrder(Ranking(offers, version), DOMAIN offers)
<1> DEFINE E == DOMAIN offers
           cost == Costs(offers, version)
           boot == Bootstrap(offers, version)
           w(n) == IF n \in boot THEN 0 ELSE Gain(offers, version, n)
           Better(m, n) == \/ w(m) * cost[n] > w(n) * cost[m]
                           \/ w(m) * cost[n] = w(n) * cost[m] /\ Path[m] < Path[n]
           Tier(m, n) == \/ m \in boot /\ n \notin boot
                         \/ (m \in boot <=> n \in boot) /\ Better(m, n)
           Key(m, n) == \/ Starved(m) /\ ~Starved(n)
                        \/ (Starved(m) <=> Starved(n)) /\ Tier(m, n)
<1>1. \A m, n \in E : <<m, n>> \in Ranking(offers, version) <=> Key(m, n)
  <2>1. \A m, n \in E : <<m, n>> \in Ranking(offers, version) <=> Ahead(m, n, offers, version)
    BY DEF Ranking
  <2>2. \A m, n : Ahead(m, n, offers, version) <=> Key(m, n)
    BY DEF Ahead
  <2> QED
    BY <2>1, <2>2
<1>2. /\ \A n \in E : cost[n] \in Nat \ {0} /\ Path[n] \in Nat
      /\ \A m, n \in E : Path[m] = Path[n] => m = n
      /\ \A n \in E : w(n) \in Int
  <2>1. /\ E \subseteq Nodes /\ cost \in [E -> Nat \ {0}]
        /\ \A n \in E : Gain(offers, version, n) \in Int
    BY OfferFacts
  <2> QED
    BY <2>1, SchedulerAssumption
<1> HIDE DEF E, cost, boot, w
<1>3. \A m, n \in E : w(m) * cost[n] \in Int
  <2>1. ASSUME NEW m \in E, NEW n \in E PROVE w(m) * cost[n] \in Int
    <3>1. w(m) \in Int /\ cost[n] \in Int
      BY <1>2
    <3> QED
      BY <3>1
  <2> QED
    BY <2>1
<1>4. \A x \in E : ~Better(x, x)
  BY <1>2, <1>3
<1>5. \A x, y \in E : x # y => Better(x, y) \/ Better(y, x)
  BY <1>2, <1>3
<1>6. ASSUME NEW x \in E, NEW y \in E, NEW z \in E, Better(x, y), Better(y, z)
      PROVE  Better(x, z)
  <2>1. /\ w(x) \in Int /\ w(y) \in Int /\ w(z) \in Int
        /\ cost[x] \in Nat \ {0} /\ cost[y] \in Nat \ {0} /\ cost[z] \in Nat \ {0}
        /\ Path[x] \in Nat /\ Path[y] \in Nat /\ Path[z] \in Nat
    BY <1>2
  <2>2. w(x) * cost[y] >= w(y) * cost[x] /\ w(y) * cost[z] >= w(z) * cost[y]
    BY <1>3, <1>6
  <2>3. /\ w(x) * cost[z] >= w(z) * cost[x]
        /\ \/ w(x) * cost[y] > w(y) * cost[x] \/ w(y) * cost[z] > w(z) * cost[y]
           => w(x) * cost[z] > w(z) * cost[x]
    BY <2>1, <2>2, Ratios
  <2>4. CASE w(x) * cost[z] > w(z) * cost[x]
    BY <2>4
  <2>5. CASE ~(w(x) * cost[z] > w(z) * cost[x])
    <3>1. Path[x] < Path[y] /\ Path[y] < Path[z]
      BY <1>6, <2>3, <2>5
    <3>2. w(x) * cost[z] = w(z) * cost[x]
      BY <1>3, <2>3, <2>5
    <3> QED
      BY <2>1, <3>1, <3>2
  <2> QED
    BY <2>4, <2>5
<1> HIDE DEF Better
<1>7. /\ \A x \in E : ~Key(x, x)
      /\ \A x, y \in E : x # y => Key(x, y) \/ Key(y, x)
  BY <1>4, <1>5
<1>8. ASSUME NEW x \in E, NEW y \in E, NEW z \in E, Key(x, y), Key(y, z)
      PROVE  Key(x, z)
  BY <1>6, <1>8
<1> QED
  BY <1>1, <1>7, <1>8 DEF StrictOrder, E

(* schedule()'s selection is the result of the greedy pass.                *)
LEMMA SelectedFacts ==
  ASSUME NEW offers \in Offers, NEW version \in Nat
  PROVE  LET worth == Worthwhile(offers, version)
             cost == Costs(offers, version)
             S == Selected(offers, version)
         IN /\ S \subseteq worth
            /\ Greedy(Ranking(offers, version), worth, cost, S)
            /\ CostOf(S, cost) * BudgetShare[2] <= CostOf(DOMAIN offers, cost) * BudgetShare[1]
            /\ \A n \in worth \ S : ~Fits(S, n, cost)
<1> DEFINE worth == Worthwhile(offers, version)
           cost == Costs(offers, version)
           R == Ranking(offers, version)
           S == Selected(offers, version)
           front == [n \in worth |-> {m \in worth : Ahead(m, n, offers, version)}]
<1>1. /\ worth \subseteq DOMAIN offers /\ IsFiniteSet(DOMAIN offers)
      /\ cost \in [DOMAIN offers -> Nat \ {0}]
  BY OfferFacts
<1>2. IsFiniteSet(worth)
  BY <1>1, FS_Subset
<1>3. StrictOrder(R, worth)
  <2>1. StrictOrder(R, DOMAIN offers)
    BY RankingIsStrict
  <2> HIDE DEF R, worth
  <2> QED
    BY <1>1, <2>1 DEF StrictOrder
<1>4. \E T \in SUBSET worth : Greedy(R, worth, cost, T)
  <2> HIDE DEF R, worth, cost
  <2> QED
    BY <1>2, <1>3, GreedyExists
<1>5. \A n \in worth : front[n] = {m \in worth : <<m, n>> \in R}
  <2> HIDE DEF worth
  <2> QED
    BY <1>1 DEF Ranking
<1>6. \A T : Greedy(R, worth, cost, T)
             <=> \A n \in worth : n \in T <=> Fits(T \cap front[n], n, cost)
  <2> HIDE DEF R, worth, cost, front
  <2> QED
    BY <1>5 DEF Greedy
<1>7. S = CHOOSE T \in SUBSET worth : \A n \in worth : n \in T <=> Fits(T \cap front[n], n, cost)
  BY DEF Selected
<1>8. S \in SUBSET worth /\ Greedy(R, worth, cost, S)
  <2> HIDE DEF R, worth, cost, front, S
  <2>1. \E T \in SUBSET worth : \A n \in worth : n \in T <=> Fits(T \cap front[n], n, cost)
    BY <1>4, <1>6
  <2>2. S \in SUBSET worth /\ \A n \in worth : n \in S <=> Fits(S \cap front[n], n, cost)
    BY <1>7, <2>1
  <2> QED
    BY <1>6, <2>2
<1>9. /\ CostOf(S, cost) * BudgetShare[2] <= CostOf(DOMAIN offers, cost) * BudgetShare[1]
      /\ \A n \in worth \ S : ~Fits(S, n, cost)
  <2> HIDE DEF R, worth, cost, S
  <2> QED
    BY <1>1, <1>3, <1>8, GreedyBudget
<1> QED
  BY <1>8, <1>9

-----------------------------------------------------------------------------
(* The invariant of the scheduler                                          *)

ClockTypes ==
  /\ committedCount \in [Nodes -> Nat]
  /\ skipRounds \in [Nodes -> Nat]
  /\ nextRound \in Nat
  /\ lastCommitted \in [Nodes -> SUBSET (0..(nextRound - 1))]
  /\ undisturbed \in BOOLEAN
  /\ \A s, t \in pending : s = t

(* A node that has been starved the longest is taken, whenever every node  *)
(* could have been.                                                        *)
ServesStarved(s) ==
  /\ s.eligible = Nodes /\ s.worthwhile = Nodes
  /\ \A n \in Nodes : Fits({}, n, s.cost)
  => \A n \in Nodes : \E t \in s.selected : Starved(n) => Starved(t)

(* What a pending schedule keeps of the round it was made in.              *)
Sound(s) ==
  /\ s.round \in Nat /\ s.round < nextRound
  /\ s.eligible \subseteq Nodes
  /\ s.cost \in [s.eligible -> Nat \ {0}]
  /\ s.selected \subseteq s.worthwhile /\ s.worthwhile \subseteq s.eligible
  /\ CostOf(s.selected, s.cost) * BudgetShare[2] <= CostOf(s.eligible, s.cost) * BudgetShare[1]
  /\ \A n \in s.worthwhile \ s.selected : ~Fits(s.selected, n, s.cost)
  /\ ServesStarved(s)

SoundPending == \A s \in pending : Sound(s)

(* Before its first round a scheduler knows nothing.                       *)
StartsFresh ==
  nextRound = 0 => pending = {} /\ undisturbed /\ \A n \in Nodes : skipRounds[n] = 0

(* The counting argument of the fairness bound: one node is served in each *)
(* round, and a starved one if there is any, so when a node has waited for *)
(* k rounds too long, k nodes were served within these k rounds.           *)
ServedLately ==
  undisturbed =>
    \A n \in Nodes, k \in 1..Cardinality(Nodes) :
      skipRounds[n] >= MaxSkipRounds + k =>
        Cardinality({m \in Nodes : skipRounds[m] < k}) >= k

SchedulerInv == ClockTypes /\ SoundPending /\ StartsFresh

(* The first node of the ranking is selected if it fits by itself.         *)
LEMMA ServesFirst ==
  ASSUME NEW offers \in Offers, NEW version \in Nat,
         DOMAIN offers = Nodes, Worthwhile(offers, version) = Nodes,
         \A n \in Nodes : Fits({}, n, Costs(offers, version)),
         NEW n \in Nodes
  PROVE  \E t \in Selected(offers, version) : Starved(n) => Starved(t)
<1> DEFINE R == Ranking(offers, version)
           S == Selected(offers, version)
<1>1. StrictOrder(R, Nodes)
  BY RankingIsStrict
<1>2. Greedy(R, Nodes, Costs(offers, version), S)
  BY SelectedFacts
<1>3. PICK t \in Nodes : \A m \in Nodes \ {t} : <<t, m>> \in R
  <2> HIDE DEF R
  <2> QED
    BY <1>1, SchedulerAssumption, First
<1>4. t \in S
  <2>1. S \cap {m \in Nodes : <<m, t>> \in R} = {}
    <3> HIDE DEF R, S
    <3> QED
      BY <1>1, <1>3 DEF StrictOrder
  <2> HIDE DEF R, S
  <2> QED
    BY <1>2, <2>1 DEF Greedy
<1>5. Starved(n) => Starved(t)
  <2>1. n # t => Ahead(t, n, offers, version)
    BY <1>3 DEF Ranking
  <2> QED
    BY <2>1 DEF Ahead
<1> QED
  BY <1>4, <1>5

LEMMA SchedulerInvInit ==
  ASSUME SchedulerInit
  PROVE  SchedulerInv /\ ServedLately
<1>1. ClockTypes /\ SoundPending /\ StartsFresh
  BY DEF SchedulerInit, ClockTypes, SoundPending, StartsFresh
<1>2. ServedLately
  <2>1. ASSUME NEW n \in Nodes, NEW k \in 1..Cardinality(Nodes), skipRounds[n] >= MaxSkipRounds + k
        PROVE  FALSE
    <3>1. Cardinality(Nodes) \in Nat /\ MaxSkipRounds \in Nat /\ k \in Nat /\ k >= 1
      BY SchedulerAssumption, FS_CardinalityType
    <3> QED
      BY <2>1, <3>1 DEF SchedulerInit
  <2> QED
    BY <2>1 DEF ServedLately
<1> QED
  BY <1>1, <1>2 DEF SchedulerInv

LEMMA ScheduleStep ==
  ASSUME SchedulerInv,
         NEW offers \in Offers, NEW version \in Nat, NEW round \in Nat,
         Schedule(offers, version, round)
  PROVE  SchedulerInv'
<1>1. PICK s :
        /\ pending' = {s} /\ nextRound' = round + 1 /\ round >= nextRound
        /\ UNCHANGED <<committedCount, skipRounds, lastCommitted, undisturbed>>
        /\ s.round = round /\ s.eligible = DOMAIN offers
        /\ s.selected = Selected(offers, version)
        /\ s.worthwhile = Worthwhile(offers, version) /\ s.cost = Costs(offers, version)
  <2> DEFINE r == [round |-> round, eligible |-> DOMAIN offers,
                   selected |-> Selected(offers, version),
                   worthwhile |-> Worthwhile(offers, version),
                   cost |-> Costs(offers, version)]
  <2>1. /\ pending' = {r} /\ nextRound' = round + 1 /\ round >= nextRound
        /\ UNCHANGED <<committedCount, skipRounds, lastCommitted, undisturbed>>
    BY DEF Schedule, clocks
  <2>2. /\ r.round = round /\ r.eligible = DOMAIN offers
        /\ r.selected = Selected(offers, version)
        /\ r.worthwhile = Worthwhile(offers, version) /\ r.cost = Costs(offers, version)
    OBVIOUS
  <2> HIDE DEF r
  <2> QED
    BY <2>1, <2>2
<1>2. ClockTypes'
  <2>1. nextRound' \in Nat /\ nextRound \in Nat /\ nextRound <= nextRound'
    BY <1>1 DEF SchedulerInv, ClockTypes
  <2>2. 0..(nextRound - 1) \subseteq 0..(nextRound' - 1)
    <3>1. \A a, b \in Nat : a <= b => 0..(a - 1) \subseteq 0..(b - 1)
      OBVIOUS
    <3> QED
      BY <2>1, <3>1
  <2>3. lastCommitted \in [Nodes -> SUBSET (0..(nextRound' - 1))]
    BY <2>2 DEF SchedulerInv, ClockTypes
  <2> QED
    BY <1>1, <2>1, <2>3 DEF SchedulerInv, ClockTypes
<1>4. Sound(s)'
  <2>1. s.round \in Nat /\ s.round < nextRound'
    BY <1>1
  <2>2. s.eligible \subseteq Nodes /\ s.cost \in [s.eligible -> Nat \ {0}]
    BY <1>1, OfferFacts
  <2>3. s.selected \subseteq s.worthwhile /\ s.worthwhile \subseteq s.eligible
    BY <1>1, SelectedFacts, OfferFacts
  <2>4. /\ CostOf(s.selected, s.cost) * BudgetShare[2]
             <= CostOf(s.eligible, s.cost) * BudgetShare[1]
        /\ \A n \in s.worthwhile \ s.selected : ~Fits(s.selected, n, s.cost)
    BY <1>1, SelectedFacts
  <2>5. ServesStarved(s)
    BY <1>1, ServesFirst DEF ServesStarved
  <2>6. ServesStarved(s)'
    BY <1>1, <2>5 DEF ServesStarved, Starved
  <2> QED
    BY <2>1, <2>2, <2>3, <2>4, <2>6 DEF Sound
<1>5. SoundPending'
  <2>1. \A t \in pending' : t = s
    BY <1>1
  <2> QED
    BY <1>4, <2>1 DEF SoundPending
<1>6. StartsFresh'
  <2>1. nextRound' # 0
    BY <1>1
  <2> QED
    BY <2>1 DEF StartsFresh
<1> QED
  BY <1>2, <1>5, <1>6 DEF SchedulerInv

LEMMA RecordTerminalStep ==
  ASSUME SchedulerInv, NEW committed \in SUBSET Nodes, RecordTerminal(committed)
  PROVE  SchedulerInv'
<1>1. PICK s \in pending :
        /\ committed \subseteq s.selected
        /\ committedCount' = [n \in Nodes |->
                                committedCount[n] + IF n \in committed THEN 1 ELSE 0]
        /\ skipRounds' = [n \in Nodes |-> IF n \in committed THEN 0
                                          ELSE IF n \in s.eligible THEN skipRounds[n] + 1
                                          ELSE skipRounds[n]]
        /\ lastCommitted' = [n \in Nodes |-> IF n \in committed THEN {s.round}
                                             ELSE lastCommitted[n]]
        /\ pending' = {}
        /\ undisturbed' = (undisturbed /\ GaveEveryChance(s, committed))
        /\ nextRound' = nextRound
  BY DEF RecordTerminal
<1>2. Sound(s) /\ s.round \in Nat /\ s.round < nextRound
  BY DEF SchedulerInv, SoundPending, Sound
<1>3. ClockTypes
  BY DEF SchedulerInv
<1>4. ClockTypes'
  <2>1. s.round \in 0..(nextRound - 1)
    BY <1>2, <1>3 DEF ClockTypes
  <2>2. /\ committedCount' \in [Nodes -> Nat]
        /\ skipRounds' \in [Nodes -> Nat]
    BY <1>1, <1>3 DEF ClockTypes
  <2>3. lastCommitted' \in [Nodes -> SUBSET (0..(nextRound - 1))]
    BY <1>1, <1>3, <2>1 DEF ClockTypes
  <2>4. undisturbed' \in BOOLEAN
    BY <1>1
  <2> QED
    BY <1>1, <1>3, <2>2, <2>3, <2>4 DEF ClockTypes
<1>5. SoundPending'
  BY <1>1 DEF SoundPending
<1>6. StartsFresh'
  BY <1>1, <1>2, <1>3 DEF StartsFresh, ClockTypes
<1> QED
  BY <1>4, <1>5, <1>6 DEF SchedulerInv

LEMMA ResetStep ==
  ASSUME Reset
  PROVE  SchedulerInv' /\ ServedLately'
<1>1. (ClockTypes /\ SoundPending /\ StartsFresh)'
  BY DEF Reset, ClockTypes, SoundPending, StartsFresh
<1>2. ServedLately'
  <2>1. ASSUME NEW n \in Nodes, NEW k \in 1..Cardinality(Nodes), skipRounds'[n] >= MaxSkipRounds + k
        PROVE  FALSE
    <3>1. Cardinality(Nodes) \in Nat /\ MaxSkipRounds \in Nat /\ k \in Nat /\ k >= 1
      BY SchedulerAssumption, FS_CardinalityType
    <3> QED
      BY <2>1, <3>1 DEF Reset
  <2> QED
    BY <2>1 DEF ServedLately
<1> QED
  BY <1>1, <1>2 DEF SchedulerInv

(* A round that gave every node its chance serves one of them.             *)
LEMMA ServedLatelyStep ==
  ASSUME MaxSkipRounds >= Cardinality(Nodes) - 1,
         SchedulerInv, ServedLately, NEW committed \in SUBSET Nodes, RecordTerminal(committed)
  PROVE  ServedLately'
<1>1. PICK s \in pending :
        /\ skipRounds' = [n \in Nodes |-> IF n \in committed THEN 0
                                          ELSE IF n \in s.eligible THEN skipRounds[n] + 1
                                          ELSE skipRounds[n]]
        /\ undisturbed' = (undisturbed /\ GaveEveryChance(s, committed))
  BY DEF RecordTerminal
<1> SUFFICES ASSUME undisturbed',
                    NEW n \in Nodes, NEW k \in 1..Cardinality(Nodes),
                    skipRounds'[n] >= MaxSkipRounds + k
             PROVE  Cardinality({m \in Nodes : skipRounds'[m] < k}) >= k
  BY DEF ServedLately
<1>2. undisturbed /\ GaveEveryChance(s, committed) /\ ServesStarved(s)
  BY <1>1 DEF SchedulerInv, SoundPending, Sound
<1>3. skipRounds \in [Nodes -> Nat] /\ MaxSkipRounds \in Nat /\ Cardinality(Nodes) \in Nat
  BY SchedulerAssumption, FS_CardinalityType DEF SchedulerInv, ClockTypes
<1>4. skipRounds' = [m \in Nodes |-> IF m \in committed THEN 0 ELSE skipRounds[m] + 1]
  BY <1>1, <1>2 DEF GaveEveryChance
<1>5. PICK t \in committed : Starved(n) => Starved(t)
  BY <1>2 DEF GaveEveryChance, ServesStarved
<1> DEFINE A == {m \in Nodes : skipRounds[m] < k - 1}
           B == {m \in Nodes : skipRounds'[m] < k}
<1>6. k \in Nat /\ k >= 1 /\ k <= Cardinality(Nodes)
  BY <1>3
<1>7. A \cup {t} \subseteq B
  <2>1. skipRounds'[t] = 0
    BY <1>4
  <2>2. ASSUME NEW m \in A PROVE skipRounds'[m] < k
    <3>1. skipRounds[m] \in Nat /\ skipRounds[m] < k - 1 /\ m \in Nodes
      BY <1>3
    <3>2. skipRounds'[m] = 0 \/ skipRounds'[m] = skipRounds[m] + 1
      BY <1>4, <3>1
    <3> QED
      BY <1>6, <3>1, <3>2
  <2> QED
    BY <1>6, <2>1, <2>2
<1>8. /\ IsFiniteSet(A) /\ IsFiniteSet(B)
      /\ Cardinality(A) \in Nat /\ Cardinality(B) \in Nat
      /\ Cardinality(A \cup {t}) <= Cardinality(B)
  <2>1. A \in SUBSET Nodes /\ B \in SUBSET Nodes
    OBVIOUS
  <2>2. IsFiniteSet(A) /\ IsFiniteSet(B)
    <3> HIDE DEF A, B
    <3> QED
      BY <2>1, SchedulerAssumption, FS_Subset
  <2> HIDE DEF A, B
  <2> QED
    BY <1>7, <2>2, FS_Subset, FS_CardinalityType
<1>9. Cardinality(A \cup {t}) = IF t \in A THEN Cardinality(A) ELSE Cardinality(A) + 1
  <2> HIDE DEF A
  <2> QED
    BY <1>8, FS_AddElement
<1>10. n \notin committed /\ skipRounds'[n] = skipRounds[n] + 1
  <2>1. skipRounds'[n] # 0
    <3>1. MaxSkipRounds + k >= 1
      BY <1>3, <1>6
    <3> QED
      BY <1>3, <1>6, <3>1
  <2> QED
    BY <1>4, <2>1
<1>11. CASE k = 1
  <2>1. A = {}
    BY <1>3, <1>11
  <2>2. Cardinality(A) = 0 /\ t \notin A
    BY <2>1, FS_EmptySet
  <2> HIDE DEF A, B
  <2>3. Cardinality(B) >= 1
    BY <1>8, <1>9, <2>2
  <2> QED
    BY <1>11, <2>3 DEF B
<1>12. CASE k # 1
  <2>1. skipRounds[n] \in Nat /\ skipRounds[n] >= MaxSkipRounds + (k - 1)
    BY <1>3, <1>6, <1>10
  <2>2. k - 1 \in 1..Cardinality(Nodes)
    BY <1>3, <1>6, <1>12
  <2>3. Cardinality(A) >= k - 1
    BY <1>2, <2>1, <2>2 DEF ServedLately
  <2>4. Starved(n)
    <3>1. BudgetShare[1] > 0
      <4>1. Fits({}, n, s.cost)
        BY <1>2 DEF GaveEveryChance
      <4> DEFINE c == s.cost[n]
                 d == CostOf(DOMAIN s.cost, s.cost)
      <4>2. s.cost \in [Nodes -> Nat \ {0}] /\ DOMAIN s.cost = Nodes
        BY <1>2 DEF SchedulerInv, SoundPending, Sound, GaveEveryChance
      <4>3. CostOf({}, s.cost) = 0 /\ d \in Nat
        BY <4>2, SchedulerAssumption, CostFacts
      <4>4. c \in Nat /\ c >= 1
        BY <4>2
      <4>5. (0 + c) * BudgetShare[2] <= d * BudgetShare[1]
        BY <4>1, <4>3 DEF Fits
      <4> HIDE DEF c, d
      <4>6. BudgetShare[1] \in Nat /\ BudgetShare[2] \in Nat /\ BudgetShare[2] >= 1
        BY SchedulerAssumption
      <4>7. c * BudgetShare[2] >= 1
        BY <4>4, <4>6
      <4>8. BudgetShare[1] = 0 => d * BudgetShare[1] = 0
        BY <4>3
      <4> QED
        BY <4>4, <4>5, <4>6, <4>7, <4>8
    <3>2. skipRounds[n] > 0 /\ skipRounds[n] >= MaxSkipRounds
      BY <1>3, <1>6, <1>12, <2>1
    <3> QED
      BY <3>1, <3>2 DEF Starved
  <2>5. t \notin A
    <3>1. skipRounds[t] >= MaxSkipRounds /\ skipRounds[t] \in Nat
      BY <1>3, <1>5, <2>4 DEF Starved
    <3> QED
      BY <1>3, <1>6, <3>1
  <2> HIDE DEF A, B
  <2>6. Cardinality(B) >= k
    BY <1>6, <1>8, <1>9, <2>3, <2>5
  <2> QED
    BY <2>6 DEF B
<1> QED
  BY <1>11, <1>12

LEMMA SchedulerInvNext ==
  ASSUME SchedulerInv, [SchedulerNext]_schedulerVars
  PROVE  SchedulerInv'
<1>1. CASE \E offers \in Offers, version \in Nat, round \in Nat : Schedule(offers, version, round)
  BY <1>1, ScheduleStep
<1>2. CASE \E committed \in SUBSET Nodes : RecordTerminal(committed)
  BY <1>2, RecordTerminalStep
<1>3. CASE Reset
  BY <1>3, ResetStep
<1>4. CASE UNCHANGED schedulerVars
  BY <1>4 DEF schedulerVars, clocks, SchedulerInv, ClockTypes, SoundPending, Sound,
              ServesStarved, Starved, StartsFresh
<1> QED
  BY <1>1, <1>2, <1>3, <1>4 DEF SchedulerNext

LEMMA ServedLatelyNext ==
  ASSUME MaxSkipRounds >= Cardinality(Nodes) - 1,
         SchedulerInv, ServedLately, [SchedulerNext]_schedulerVars
  PROVE  ServedLately'
<1>1. CASE \E offers \in Offers, version \in Nat, round \in Nat : Schedule(offers, version, round)
  BY <1>1 DEF Schedule, clocks, ServedLately
<1>2. CASE \E committed \in SUBSET Nodes : RecordTerminal(committed)
  BY <1>2, ServedLatelyStep
<1>3. CASE Reset
  BY <1>3, ResetStep
<1>4. CASE UNCHANGED schedulerVars
  BY <1>4 DEF schedulerVars, clocks, ServedLately
<1> QED
  BY <1>1, <1>2, <1>3, <1>4 DEF SchedulerNext

-----------------------------------------------------------------------------
(* The scheduler by itself                                                 *)

(* What the invariants say of the properties.                              *)
LEMMA SchedulerInvImplies ==
  ASSUME SchedulerInv
  PROVE  SchedulerTypeOK /\ BudgetUsedUp
<1>1. SchedulerTypeOK
  <2>1. ASSUME NEW n \in Nodes, NEW r \in lastCommitted[n] PROVE r < nextRound
    <3>1. r \in 0..(nextRound - 1) /\ nextRound \in Nat
      BY DEF SchedulerInv, ClockTypes
    <3> QED
      BY <3>1
  <2> QED
    BY <2>1 DEF SchedulerTypeOK, SchedulerInv, ClockTypes, SoundPending, Sound
<1>2. BudgetUsedUp
  BY DEF BudgetUsedUp, SchedulerInv, SoundPending, Sound
<1> QED
  BY <1>1, <1>2

LEMMA ServedLatelyImplies ==
  ASSUME SchedulerInv, ServedLately
  PROVE  BoundedStarvation
<1> SUFFICES ASSUME undisturbed, NEW n \in Nodes,
                    ~(skipRounds[n] <= MaxSkipRounds + Cardinality(Nodes) - 1)
             PROVE  FALSE
  BY DEF BoundedStarvation
<1> DEFINE N == Cardinality(Nodes)
           B == {m \in Nodes : skipRounds[m] < N}
<1>1. skipRounds[n] \in Nat /\ MaxSkipRounds \in Nat /\ N \in Nat
  BY SchedulerAssumption, FS_CardinalityType DEF SchedulerInv, ClockTypes
<1>2. N # 0
  BY SchedulerAssumption, FS_EmptySet
<1>3. skipRounds[n] >= MaxSkipRounds + N /\ N \in 1..N
  BY <1>1, <1>2
<1>4. Cardinality(B) >= N
  BY <1>3 DEF ServedLately
<1>5. n \notin B /\ B \in SUBSET Nodes
  BY <1>1, <1>3
<1>6. Cardinality(B) <= N /\ Cardinality(B) \in Nat
  <2> HIDE DEF B
  <2> QED
    BY <1>5, SchedulerAssumption, FS_Subset, FS_CardinalityType
<1>7. B = Nodes
  <2> HIDE DEF B
  <2>1. Cardinality(Nodes) = Cardinality(B)
    BY <1>1, <1>4, <1>6
  <2> QED
    BY <1>5, <2>1, SchedulerAssumption, FS_Subset
<1> QED
  BY <1>5, <1>7

LEMMA SchedulerInvariant == SchedulerSpec => []SchedulerInv
<1>1. SchedulerInit => SchedulerInv
  BY SchedulerInvInit
<1>2. SchedulerInv /\ [SchedulerNext]_schedulerVars => SchedulerInv'
  BY SchedulerInvNext
<1> QED
  BY <1>1, <1>2, PTL DEF SchedulerSpec

(* Type correctness of the scheduler, for every budget and any evidence.   *)
THEOREM SchedulerTyped == SchedulerSpec => []SchedulerTypeOK
<1>1. SchedulerInv => SchedulerTypeOK
  BY SchedulerInvImplies
<1> QED
  BY <1>1, SchedulerInvariant, PTL

(* schedule() keeps to its budget and leaves nothing out that would fit.   *)
THEOREM BudgetKept == SchedulerSpec => []BudgetUsedUp
<1>1. SchedulerInv => BudgetUsedUp
  BY SchedulerInvImplies
<1> QED
  BY <1>1, SchedulerInvariant, PTL

(* The fairness clocks: while each round gives every node its chance, no   *)
(* node waits for more than max_skip_rounds and one round for each of the  *)
(* others, if max_skip_rounds is at least the number of the others.        *)
THEOREM StarvationIsBounded ==
  ASSUME MaxSkipRounds >= Cardinality(Nodes) - 1
  PROVE  SchedulerSpec => []BoundedStarvation
<1>1. SchedulerInit => ServedLately
  BY SchedulerInvInit
<1>2. SchedulerInv /\ ServedLately /\ [SchedulerNext]_schedulerVars => ServedLately'
  BY ServedLatelyNext
<1>3. SchedulerInv /\ ServedLately => BoundedStarvation
  BY ServedLatelyImplies
<1> QED
  BY <1>1, <1>2, <1>3, SchedulerInvariant, PTL DEF SchedulerSpec

-----------------------------------------------------------------------------
(* The invariant of the driver                                             *)

(* A run that goes on is within its limits; between runs nothing is kept.  *)
RunLimits ==
  /\ phase \in {"schedule", "update"} => its < MaxIts /\ stall < StallPatience
  /\ phase \in {"off", "lost"} =>
       /\ its = 0 /\ modelVersion = 0 /\ stall = 0 /\ tried = {}
       /\ gainStats = [n \in Nodes |-> NoStats]
       /\ waited = [n \in Nodes |-> 0]
       /\ ~guided /\ ~failed

(* A component that was not tried in the stall has waited for all of it.   *)
UntriedWaited == \A n \in Nodes \ tried : waited[n] >= stall

LocalInv == LocalTypeOK /\ RunLimits /\ UntriedWaited

(* The run of an undisturbed driver is one of an undisturbed scheduler,    *)
(* whose clocks count the rounds a component waits for.                    *)
InTurn ==
  phase \in {"schedule", "update", "done"} /\ Orderly =>
    /\ undisturbed
    /\ waited = skipRounds
    /\ \A s \in pending : s.eligible = Nodes /\ s.worthwhile = Nodes /\ s.cost = BaseCost

(* What the default configuration of the driver gives each component: its  *)
(* gain is never too small, its cost never too large to be selected, and   *)
(* max_skip_rounds covers the other components.  The default budget may    *)
(* miss the second one by a rounding error.                                *)
FairConfiguration ==
  /\ MinimumGain <= 0
  /\ \A n \in Nodes : Fits({}, n, BaseCost)
  /\ MaxSkipRounds >= Cardinality(Nodes) - 1

(* The evidence of a round is what schedule() accepts; of its own it is    *)
(* never negative and carries no risk of staleness.                        *)
LEMMA LocalOffersFacts ==
  ASSUME LocalTypeOK, NEW provided \in Provisions
  PROVE  LET offers == LocalOffers(provided)
         IN /\ offers \in Offers
            /\ MinimumGain <= 0 /\ Silent(provided) =>
                 /\ DOMAIN offers = Nodes
                 /\ \A version \in Nat :
                      Worthwhile(offers, version) = Nodes /\ Costs(offers, version) = BaseCost
<1> DEFINE offers == LocalOffers(provided)
           own(n) == [gain |-> LowerBound(gainStats[n]), version |-> gainStats[n].version,
                      sampled |-> TRUE, risk |-> 0]
<1>1. PICK E \in SUBSET Nodes : provided.rows \in [E -> Evidence]
  BY DEF Provisions
<1>2. ASSUME NEW n \in Nodes, gainStats[n].count # 0
      PROVE  own(n) \in Evidence /\ own(n).gain \in Nat
  <2> DEFINE s == gainStats[n]
  <2>1. s.count \in Nat /\ s.gain \in Nat /\ s.version \in Nat /\ s.count >= 1
    BY <1>2 DEF LocalTypeOK, Stats
  <2>2. LowerBound(s) \in Nat
    <3> HIDE DEF s
    <3>1. 18 * s.gain \in Nat /\ 12 * s.gain \in Nat
      BY <2>1
    <3>2. \A a \in Nat, b \in Nat \ {0} : a \div b \in Nat
      OBVIOUS
    <3> QED
      BY <2>1, <3>1, <3>2 DEF LowerBound
  <2>3. own(n).gain = LowerBound(s)
    OBVIOUS
  <2> QED
    BY <2>1, <2>2, <2>3 DEF Evidence
<1>3. offers = [n \in Nodes \ provided.foreign |->
                  IF n \in DOMAIN provided.rows THEN provided.rows[n]
                  ELSE IF gainStats[n].count = 0 THEN Unmeasured ELSE own(n)]
  BY DEF LocalOffers
<1> HIDE DEF own, offers
<1>4. offers \in [Nodes \ provided.foreign -> Evidence \cup {Unmeasured}]
  <2>1. ASSUME NEW n \in Nodes \ provided.foreign
        PROVE  offers[n] \in Evidence \cup {Unmeasured}
    BY <1>1, <1>2, <1>3
  <2> QED
    BY <1>3, <2>1
<1>5. offers \in Offers /\ (Silent(provided) => DOMAIN offers = Nodes)
  BY <1>3, <1>4 DEF Offers, Silent
<1>6. ASSUME MinimumGain <= 0, Silent(provided), NEW version \in Nat
      PROVE  Worthwhile(offers, version) = Nodes /\ Costs(offers, version) = BaseCost
  <2>1. ASSUME NEW n \in Nodes, Usable(offers, version, n)
        PROVE  offers[n].gain \in Nat /\ offers[n].risk = 0
    <3>1. gainStats[n].count # 0 /\ offers[n] = own(n)
      BY <1>3, <1>6, <2>1 DEF Usable, Silent
    <3>2. own(n).risk = 0
      BY DEF own
    <3> QED
      BY <1>2, <3>1, <3>2
  <2>2. ASSUME NEW n \in Nodes PROVE Gain(offers, version, n) >= MinimumGain
    <3>1. Gain(offers, version, n) \in Nat /\ MinimumGain \in Int
      BY <2>1, SchedulerAssumption DEF Gain
    <3> QED
      BY <1>6, <3>1
  <2>3. Worthwhile(offers, version) = Nodes
    BY <1>5, <1>6, <2>2 DEF Worthwhile, Bootstrap
  <2>4. BaseCost \in [Nodes -> Nat \ {0}]
    BY SchedulerAssumption
  <2> DEFINE risk(n) == IF Usable(offers, version, n) THEN offers[n].risk ELSE 0
  <2>5. ASSUME NEW n \in Nodes PROVE BaseCost[n] + risk(n) = BaseCost[n]
    <3>1. risk(n) = 0 /\ BaseCost[n] \in Nat
      BY <2>1, <2>4
    <3> HIDE DEF risk
    <3> QED
      BY <3>1
  <2>6. Costs(offers, version) = [n \in Nodes |-> BaseCost[n]]
    BY <1>5, <1>6, <2>5 DEF Costs
  <2> QED
    BY <2>3, <2>4, <2>6
<1> QED
  BY <1>5, <1>6 DEF offers

LEMMA LocalInvInit ==
  ASSUME SchedulerInit, LocalInit
  PROVE  LocalInv /\ InTurn
<1>1. MaxIts \in Nat \ {0} /\ StallPatience \in Nat \ {0} /\ Root \notin Nodes
  BY LocalAssumption
<1>2. NoStats \in Stats /\ NoStats.version = 0
  BY DEF NoStats, Stats
<1>3. LocalTypeOK
  <2>1. its \in 0..MaxIts /\ modelVersion \in 0..its /\ stall \in 0..StallPatience
    BY <1>1 DEF LocalInit
  <2>2. gainStats \in [Nodes -> Stats] /\ \A n \in Nodes : gainStats[n].version <= modelVersion
    BY <1>2 DEF LocalInit
  <2>3. generations \in [Nodes \cup {Root} -> 0..modelVersion] /\ generations[Root] = modelVersion
    BY DEF LocalInit
  <2>4. waited \in [Nodes -> Nat] /\ tried = {} /\ guided = FALSE /\ failed = FALSE
    BY DEF LocalInit
  <2> QED
    BY <2>1, <2>2, <2>3, <2>4 DEF LocalInit, LocalTypeOK, Phases
<1>4. RunLimits /\ UntriedWaited /\ InTurn
  BY DEF LocalInit, RunLimits, UntriedWaited, InTurn
<1> QED
  BY <1>3, <1>4 DEF LocalInv

(* The variables of the driver are as before its first run.                *)
LEMMA ClearedStep ==
  ASSUME Cleared, phase' \in {"off", "lost"}
  PROVE  LocalInv' /\ InTurn'
<1>1. MaxIts \in Nat \ {0} /\ StallPatience \in Nat \ {0} /\ Root \notin Nodes
  BY LocalAssumption
<1>2. NoStats \in Stats /\ NoStats.version = 0
  BY DEF NoStats, Stats
<1>3. LocalTypeOK'
  <2>1. its' \in 0..MaxIts /\ modelVersion' \in 0..its' /\ stall' \in 0..StallPatience
    BY <1>1 DEF Cleared
  <2>2. gainStats' \in [Nodes -> Stats] /\ \A n \in Nodes : gainStats'[n].version <= modelVersion'
    BY <1>2 DEF Cleared
  <2>3. /\ generations' \in [Nodes \cup {Root} -> 0..modelVersion']
        /\ generations'[Root] = modelVersion'
    BY DEF Cleared
  <2>4. waited' \in [Nodes -> Nat] /\ tried' = {} /\ guided' = FALSE /\ failed' = FALSE
    BY DEF Cleared
  <2> QED
    BY <2>1, <2>2, <2>3, <2>4 DEF Cleared, LocalTypeOK, Phases
<1>4. RunLimits' /\ UntriedWaited' /\ InTurn'
  BY DEF Cleared, RunLimits, UntriedWaited, InTurn
<1> QED
  BY <1>3, <1>4 DEF LocalInv

(* Nothing but the scheduler changes between the runs.                     *)
LEMMA BetweenRunsStep ==
  ASSUME LocalInv, phase \in {"off", "lost"}, phase' \in {"off", "lost"},
         UNCHANGED <<its, modelVersion, gainStats, stall, generations, waited, tried,
                     guided, failed>>
  PROVE  LocalInv' /\ InTurn'
<1>1. LocalTypeOK'
  BY DEF LocalInv, LocalTypeOK, Phases
<1>2. RunLimits' /\ UntriedWaited' /\ InTurn'
  BY DEF LocalInv, RunLimits, UntriedWaited, InTurn
<1> QED
  BY <1>1, <1>2 DEF LocalInv

LEMMA BeginStep ==
  ASSUME SchedulerInv, LocalInv, Begin
  PROVE  LocalInv' /\ InTurn'
<1>1. /\ phase = "off" /\ phase' = "schedule" /\ pending' = {} /\ nextRound = 0
      /\ UNCHANGED <<its, modelVersion, gainStats, stall, generations, waited, tried,
                     guided, failed, skipRounds, undisturbed>>
  BY DEF Begin, schedulerVars, clocks
<1>2. LocalTypeOK'
  BY <1>1 DEF LocalInv, LocalTypeOK, Phases
<1>3. RunLimits'
  BY <1>1, LocalAssumption DEF LocalInv, RunLimits
<1>4. UntriedWaited'
  BY <1>1 DEF LocalInv, UntriedWaited
<1>5. waited = [n \in Nodes |-> 0]
  BY <1>1 DEF LocalInv, RunLimits
<1>6. undisturbed /\ skipRounds = [n \in Nodes |-> 0]
  <2>1. skipRounds \in [Nodes -> Nat] /\ \A n \in Nodes : skipRounds[n] = 0
    BY <1>1 DEF SchedulerInv, StartsFresh, ClockTypes
  <2> QED
    BY <1>1, <2>1 DEF SchedulerInv, StartsFresh
<1>7. InTurn'
  BY <1>1, <1>5, <1>6 DEF InTurn
<1> QED
  BY <1>2, <1>3, <1>4, <1>7 DEF LocalInv

LEMMA ScheduleRoundStep ==
  ASSUME SchedulerInv, LocalInv, NEW provided \in Provisions, ScheduleRound(provided)
  PROVE  LocalInv' /\ (FairConfiguration /\ InTurn => InTurn')
<1> DEFINE offers == LocalOffers(provided)
<1>1. /\ phase = "schedule" /\ phase' = "update" /\ guided' = (guided \/ ~Silent(provided))
      /\ Schedule(offers, modelVersion, its)
      /\ UNCHANGED <<its, modelVersion, gainStats, stall, generations, waited, tried, failed>>
  BY DEF ScheduleRound
<1>2. PICK s : /\ pending' = {s} /\ s.round = its /\ s.eligible = DOMAIN offers
               /\ s.worthwhile = Worthwhile(offers, modelVersion)
               /\ s.cost = Costs(offers, modelVersion)
  <2> DEFINE r == [round |-> its, eligible |-> DOMAIN offers,
                   selected |-> Selected(offers, modelVersion),
                   worthwhile |-> Worthwhile(offers, modelVersion),
                   cost |-> Costs(offers, modelVersion)]
  <2>1. pending' = {r}
    BY <1>1 DEF Schedule
  <2>2. /\ r.round = its /\ r.eligible = DOMAIN offers
        /\ r.worthwhile = Worthwhile(offers, modelVersion)
        /\ r.cost = Costs(offers, modelVersion)
    OBVIOUS
  <2> HIDE DEF r
  <2> QED
    BY <2>1, <2>2
<1>3. LocalTypeOK'
  BY <1>1, <1>2 DEF LocalInv, LocalTypeOK, Phases
<1>4. RunLimits' /\ UntriedWaited'
  BY <1>1 DEF LocalInv, RunLimits, UntriedWaited
<1>5. ASSUME FairConfiguration, InTurn, Orderly' PROVE
        /\ undisturbed' /\ waited' = skipRounds'
        /\ s.eligible = Nodes /\ s.worthwhile = Nodes /\ s.cost = BaseCost
  <2>1. Orderly /\ Silent(provided)
    BY <1>1, <1>5 DEF Orderly, LocalInv, LocalTypeOK
  <2>2. undisturbed' /\ waited' = skipRounds'
    BY <1>1, <1>5, <2>1 DEF InTurn, Schedule, clocks
  <2>3. modelVersion \in Nat /\ LocalTypeOK
    BY DEF LocalInv, LocalTypeOK
  <2>4. /\ DOMAIN offers = Nodes
        /\ Worthwhile(offers, modelVersion) = Nodes /\ Costs(offers, modelVersion) = BaseCost
    BY <1>5, <2>1, <2>3, LocalOffersFacts DEF FairConfiguration
  <2> QED
    BY <1>2, <2>2, <2>4
<1>6. FairConfiguration /\ InTurn => InTurn'
  <2>1. \A t \in pending' : t = s
    BY <1>2
  <2> QED
    BY <1>5, <2>1 DEF InTurn
<1> QED
  BY <1>3, <1>4, <1>6 DEF LocalInv

(* The rest of a round: whichever way it ends, what the driver counts      *)
(* agrees with what the scheduler counts.                                  *)
LEMMA FinishRoundStep ==
  ASSUME SchedulerInv, LocalInv,
         NEW accepted \in BOOLEAN, NEW gain \in Gains, FinishRound(accepted, gain)
  PROVE  /\ LocalInv'
         /\ FairConfiguration /\ InTurn => InTurn'
         /\ \E committed \in SUBSET Nodes : RecordTerminal(committed)
<1> DEFINE Committed(s) == IF accepted THEN s.selected ELSE {}
<1>1. PICK s \in pending :
        /\ phase = "update" /\ RecordTerminal(Committed(s))
        /\ modelVersion' = modelVersion + IF accepted THEN 1 ELSE 0
        /\ generations' = [n \in DOMAIN generations |->
                             generations[n] + IF n \in Written(s, accepted) THEN 1 ELSE 0]
        /\ gainStats' = [n \in Nodes |->
                           IF n \in s.selected
                           THEN Updated(gainStats[n], gain \div Cardinality(s.selected),
                                        modelVersion')
                           ELSE gainStats[n]]
        /\ waited' = [n \in Nodes |-> IF n \in s.selected THEN 0 ELSE waited[n] + 1]
        /\ stall' = StallAfter(gain)
        /\ tried' = IF gain < Delta THEN tried \cup s.selected ELSE {}
        /\ its' = its + 1
        /\ phase' = IF stall' >= StallPatience \/ its' = MaxIts THEN "done" ELSE "schedule"
        /\ failed' = (failed \/ ~accepted)
        /\ guided' = guided
  BY DEF FinishRound
<1>2. Sound(s) /\ s.selected \in SUBSET Nodes
  BY DEF SchedulerInv, SoundPending, Sound
<1>3. /\ its \in 0..MaxIts /\ modelVersion \in 0..its /\ stall \in 0..StallPatience
      /\ its < MaxIts /\ stall < StallPatience
      /\ gainStats \in [Nodes -> Stats] /\ waited \in [Nodes -> Nat] /\ tried \subseteq Nodes
      /\ generations \in [Nodes \cup {Root} -> 0..modelVersion]
      /\ generations[Root] = modelVersion
      /\ \A n \in Nodes : gainStats[n].version <= modelVersion
      /\ guided \in BOOLEAN /\ failed \in BOOLEAN
  BY <1>1 DEF LocalInv, LocalTypeOK, RunLimits
<1>4. /\ gain \in Nat /\ Delta \in Nat /\ MaxIts \in Nat /\ StallPatience \in Nat
      /\ Root \notin Nodes
  BY LocalAssumption
<1>5. pending' = {}
  BY <1>1 DEF RecordTerminal
<1>6. /\ its' \in 0..MaxIts /\ modelVersion' \in 0..its' /\ stall' \in 0..StallPatience
      /\ modelVersion' \in Nat /\ modelVersion <= modelVersion'
  BY <1>1, <1>3, <1>4 DEF StallAfter
<1>7. /\ gainStats' \in [Nodes -> Stats]
      /\ \A n \in Nodes : gainStats'[n].version <= modelVersion'
  <2>1. ASSUME NEW n \in Nodes
        PROVE  gainStats'[n] \in Stats /\ gainStats'[n].version <= modelVersion'
    <3>0. gainStats[n] \in Stats /\ gainStats[n].version <= modelVersion
      BY <1>3
    <3>1. CASE n \notin s.selected
      <4>1. gainStats'[n] = gainStats[n]
        BY <1>1, <3>1
      <4> QED
        BY <1>3, <1>6, <3>0, <4>1 DEF Stats
    <3>2. CASE n \in s.selected
      <4> DEFINE share == gain \div Cardinality(s.selected)
                 g == gainStats[n]
      <4>1. share \in Nat
        <5>1. IsFiniteSet(s.selected)
          BY <1>2, SchedulerAssumption, FS_Subset
        <5>2. Cardinality(s.selected) \in Nat \ {0}
          BY <3>2, <5>1, FS_CardinalityType, FS_EmptySet
        <5>3. \A a \in Nat, b \in Nat \ {0} : a \div b \in Nat
          OBVIOUS
        <5> QED
          BY <1>4, <5>2, <5>3
      <4>2. gainStats'[n] = Updated(g, share, modelVersion')
        BY <1>1, <3>2
      <4> HIDE DEF share
      <4>3. g.count \in Nat /\ g.gain \in Nat /\ g.version \in Nat
        BY <3>0 DEF Stats
      <4>4. Updated(g, share, modelVersion')
              \in [count : Nat, gain : Nat, version : {modelVersion'}]
        <5>1. CASE g.version # modelVersion'
          BY <4>1, <5>1 DEF Updated
        <5>2. CASE g.version = modelVersion'
          <6>1. g = [count |-> g.count, gain |-> g.gain, version |-> g.version]
            BY <3>0 DEF Stats
          <6>2. Updated(g, share, modelVersion')
                  = [count |-> g.count + 1, gain |-> g.gain + share, version |-> g.version]
            <7> HIDE DEF g
            <7> QED
              BY <5>2, <6>1 DEF Updated
          <6> QED
            BY <4>1, <4>3, <5>2, <6>2
        <5> QED
          BY <5>1, <5>2
      <4> QED
        BY <1>6, <4>2, <4>4 DEF Stats
    <3> QED
      BY <3>1, <3>2
  <2>2. \A n \in Nodes : gainStats'[n] \in Stats
    BY <2>1
  <2>3. DOMAIN gainStats' = Nodes /\ gainStats' = [n \in Nodes |-> gainStats'[n]]
    BY <1>1
  <2> QED
    BY <2>1, <2>2, <2>3
<1>8. /\ generations' \in [Nodes \cup {Root} -> 0..modelVersion']
      /\ generations'[Root] = modelVersion'
  <2>1. ASSUME NEW n \in Nodes \cup {Root}
        PROVE  /\ generations[n] + (IF n \in Written(s, accepted) THEN 1 ELSE 0)
                    \in 0..modelVersion'
               /\ n = Root =>
                    generations[n] + (IF n \in Written(s, accepted) THEN 1 ELSE 0) = modelVersion'
    <3>1. generations[n] \in Nat /\ generations[n] <= modelVersion /\ modelVersion \in Nat
      BY <1>3
    <3>2. CASE accepted
      BY <1>1, <1>3, <3>1, <3>2 DEF Written
    <3>3. CASE ~accepted
      BY <1>1, <1>3, <3>1, <3>3 DEF Written
    <3> QED
      BY <3>2, <3>3
  <2>2. DOMAIN generations = Nodes \cup {Root}
    BY <1>3
  <2> QED
    BY <1>1, <2>1, <2>2
<1>9. /\ waited' \in [Nodes -> Nat] /\ tried' \subseteq Nodes
      /\ guided' \in BOOLEAN /\ failed' \in BOOLEAN
  BY <1>1, <1>2, <1>3
<1>10. LocalTypeOK'
  BY <1>1, <1>5, <1>6, <1>7, <1>8, <1>9 DEF LocalTypeOK, Phases
<1>11. RunLimits'
  <2>1. phase' = "schedule" => its' < MaxIts /\ stall' < StallPatience
    BY <1>1, <1>4, <1>6
  <2> QED
    BY <1>1, <2>1 DEF RunLimits
<1>12. UntriedWaited'
  <2>1. ASSUME NEW n \in Nodes \ tried' PROVE waited'[n] >= stall'
    <3>1. waited'[n] \in Nat
      BY <1>9
    <3>2. CASE gain < Delta
      <4>1. n \notin s.selected /\ n \notin tried /\ stall' = stall + 1
        BY <1>1, <2>1, <3>2 DEF StallAfter
      <4>2. waited'[n] = waited[n] + 1 /\ waited[n] >= stall /\ waited[n] \in Nat
        BY <1>1, <1>3, <4>1 DEF LocalInv, UntriedWaited
      <4> QED
        BY <1>3, <4>1, <4>2
    <3>3. CASE ~(gain < Delta)
      BY <1>1, <3>1, <3>3 DEF StallAfter
    <3> QED
      BY <3>2, <3>3
  <2> QED
    BY <2>1 DEF UntriedWaited
<1>13. PICK t \in pending :
         /\ skipRounds' = [n \in Nodes |-> IF n \in Committed(s) THEN 0
                                           ELSE IF n \in t.eligible THEN skipRounds[n] + 1
                                           ELSE skipRounds[n]]
         /\ undisturbed' = (undisturbed /\ GaveEveryChance(t, Committed(s)))
  BY <1>1 DEF RecordTerminal
<1>14. t = s
  BY DEF SchedulerInv, ClockTypes
<1>15. ASSUME FairConfiguration, InTurn, Orderly'
       PROVE  undisturbed' /\ waited' = skipRounds'
  <2>1. Orderly /\ accepted
    BY <1>1, <1>15 DEF Orderly
  <2>2. /\ undisturbed /\ waited = skipRounds
        /\ s.eligible = Nodes /\ s.worthwhile = Nodes /\ s.cost = BaseCost
    BY <1>1, <1>15, <2>1 DEF InTurn
  <2>3. Committed(s) = s.selected
    BY <2>1
  <2>4. GaveEveryChance(s, s.selected)
    BY <1>15, <2>2 DEF GaveEveryChance, FairConfiguration
  <2>5. undisturbed'
    BY <1>13, <1>14, <2>2, <2>3, <2>4
  <2>6. skipRounds' = [n \in Nodes |-> IF n \in s.selected THEN 0 ELSE skipRounds[n] + 1]
    BY <1>13, <1>14, <2>2, <2>3
  <2> QED
    BY <1>1, <2>2, <2>5, <2>6
<1>16. FairConfiguration /\ InTurn => InTurn'
  BY <1>5, <1>15 DEF InTurn
<1>17. \E committed \in SUBSET Nodes : RecordTerminal(committed)
  <2>1. Committed(s) \in SUBSET Nodes
    BY <1>2
  <2> QED
    BY <1>1, <2>1
<1> QED
  BY <1>10, <1>11, <1>12, <1>16, <1>17 DEF LocalInv

-----------------------------------------------------------------------------
(* The driver on top of the scheduler                                      *)

LocalStep == Directly(SchedulerNext) \/ LocalNext(Provisions)
localSpecVars == <<schedulerVars, localVars>>

(* Each step of the driver is a step of the scheduler, or none.            *)
LEMMA LocalStepFacts ==
  ASSUME SchedulerInv, LocalInv, [LocalStep]_localSpecVars
  PROVE  /\ [SchedulerNext]_schedulerVars
         /\ LocalInv'
         /\ FairConfiguration /\ InTurn => InTurn'
<1>1. CASE Directly(SchedulerNext)
  <2>1. /\ phase = "off" /\ phase' = "off" /\ SchedulerNext
        /\ UNCHANGED <<its, modelVersion, gainStats, stall, generations, waited, tried,
                       guided, failed>>
    BY <1>1 DEF Directly, localVars
  <2> QED
    BY <2>1, BetweenRunsStep
<1>2. CASE Begin
  BY <1>2, BeginStep DEF Begin
<1>3. ASSUME NEW provided \in Provisions, ScheduleRound(provided)
      PROVE  SchedulerNext /\ LocalInv' /\ (FairConfiguration /\ InTurn => InTurn')
  <2>1. LocalOffers(provided) \in Offers
    BY LocalOffersFacts DEF LocalInv
  <2>2. modelVersion \in Nat /\ its \in Nat
    BY DEF LocalInv, LocalTypeOK
  <2>3. SchedulerNext
    BY <1>3, <2>1, <2>2 DEF ScheduleRound, SchedulerNext
  <2> QED
    BY <1>3, <2>3, ScheduleRoundStep
<1>4. ASSUME NEW accepted \in BOOLEAN, NEW gain \in Gains, FinishRound(accepted, gain)
      PROVE  SchedulerNext /\ LocalInv' /\ (FairConfiguration /\ InTurn => InTurn')
  BY <1>4, FinishRoundStep DEF SchedulerNext
<1>5. CASE ProviderRaises \/ StepRaises \/ Return
  <2>1. Cleared /\ phase' \in {"off", "lost"} /\ UNCHANGED schedulerVars
    BY <1>5 DEF ProviderRaises, StepRaises, Return
  <2> QED
    BY <2>1, ClearedStep
<1>6. CASE ResetBetweenRuns
  <2>1. /\ phase \in {"off", "lost"} /\ phase' = "off" /\ Reset
        /\ UNCHANGED <<its, modelVersion, gainStats, stall, generations, waited, tried,
                       guided, failed>>
    BY <1>6 DEF ResetBetweenRuns
  <2> QED
    BY <2>1, BetweenRunsStep DEF SchedulerNext
<1>7. CASE UNCHANGED localSpecVars
  <2>1. UNCHANGED schedulerVars /\ UNCHANGED localVars
    BY <1>7 DEF localSpecVars
  <2>2. LocalInv'
    BY <2>1 DEF schedulerVars, clocks, localVars, LocalInv, LocalTypeOK, RunLimits, UntriedWaited
  <2>3. InTurn => InTurn'
    BY <2>1 DEF schedulerVars, clocks, localVars, InTurn, Orderly
  <2> QED
    BY <2>1, <2>2, <2>3
<1> QED
  BY <1>1, <1>2, <1>3, <1>4, <1>5, <1>6, <1>7 DEF LocalStep, LocalNext

LEMMA LocalInvariant == LocalSpec => [](SchedulerInv /\ LocalInv)
<1>1. SchedulerInit /\ LocalInit => SchedulerInv /\ LocalInv
  BY SchedulerInvInit, LocalInvInit
<1>2. SchedulerInv /\ LocalInv /\ [LocalStep]_localSpecVars => (SchedulerInv /\ LocalInv)'
  BY LocalStepFacts, SchedulerInvNext
<1>3. LocalSpec => SchedulerInit /\ LocalInit /\ [][LocalStep]_localSpecVars
  BY DEF LocalSpec, LocalStep, localSpecVars
<1> QED
  BY <1>1, <1>2, <1>3, PTL

(* run_typed_mixture_em uses its scheduler as the scheduler is meant to be *)
(* used: all it does to it are calls of schedule(), record_terminal() and  *)
(* reset(), with arguments they accept.  So what holds of any scheduler    *)
(* holds of the one that the driver is given.                              *)
THEOREM DriverUsesScheduler == LocalSpec => SchedulerSpec
<1>1. SchedulerInv /\ LocalInv /\ [LocalStep]_localSpecVars => [SchedulerNext]_schedulerVars
  BY LocalStepFacts
<1>2. LocalSpec => SchedulerInit /\ [][LocalStep]_localSpecVars
  BY DEF LocalSpec, LocalStep, localSpecVars
<1> QED
  BY <1>1, <1>2, LocalInvariant, PTL DEF SchedulerSpec

(* Type correctness of the driver, for any gain provider.                  *)
THEOREM LocalTyped == LocalSpec => []LocalTypeOK
<1>1. LocalInv => LocalTypeOK
  BY DEF LocalInv
<1> QED
  BY <1>1, LocalInvariant, PTL

LEMMA InTurnImplies ==
  ASSUME FairConfiguration, SchedulerInv, ServedLately, LocalInv, InTurn
  PROVE  TurnsComeRound /\ StallsAfterTryingAll
<1>1. MaxSkipRounds \in Nat /\ Cardinality(Nodes) \in Nat /\ Cardinality(Nodes) >= 1
  BY SchedulerAssumption, LocalAssumption, FS_CardinalityType, FS_EmptySet
<1>2. TurnsComeRound
  <2>1. ASSUME Orderly, NEW n \in Nodes
        PROVE  waited[n] <= MaxSkipRounds + Cardinality(Nodes) - 1
    <3>1. CASE phase \in {"schedule", "update", "done"}
      <4>1. undisturbed /\ waited[n] = skipRounds[n]
        BY <2>1, <3>1 DEF InTurn
      <4> QED
        BY <4>1, ServedLatelyImplies DEF BoundedStarvation
    <3>2. CASE phase \in {"off", "lost"}
      <4>1. waited[n] = 0
        BY <3>2 DEF LocalInv, RunLimits
      <4> QED
        BY <1>1, <4>1
    <3> QED
      BY <3>1, <3>2 DEF LocalInv, LocalTypeOK, Phases
  <2> QED
    BY <2>1 DEF TurnsComeRound
<1>3. StallsAfterTryingAll
  <2> SUFFICES ASSUME stall >= StallPatience, Orderly,
                      StallPatience >= MaxSkipRounds + Cardinality(Nodes),
                      NEW n \in Nodes \ tried
               PROVE  FALSE
    BY DEF StallsAfterTryingAll, LocalInv, LocalTypeOK
  <2>1. waited[n] >= stall /\ waited[n] \in Nat /\ stall \in Nat
    BY LocalAssumption DEF LocalInv, UntriedWaited, LocalTypeOK
  <2>2. waited[n] <= MaxSkipRounds + Cardinality(Nodes) - 1
    BY <1>2 DEF TurnsComeRound
  <2> QED
    BY <1>1, <2>1, <2>2, LocalAssumption
<1> QED
  BY <1>2, <1>3

(* In a fair configuration every run of the driver is in turn.             *)
LEMMA RunsAreInTurn ==
  ASSUME FairConfiguration
  PROVE  LocalSpec => [](TurnsComeRound /\ StallsAfterTryingAll)
<1>0. MaxSkipRounds >= Cardinality(Nodes) - 1
  BY DEF FairConfiguration
<1>1. SchedulerInit /\ LocalInit => ServedLately /\ InTurn
  BY SchedulerInvInit, LocalInvInit
<1>2. SchedulerInv /\ LocalInv /\ ServedLately /\ InTurn /\ [LocalStep]_localSpecVars
        => (ServedLately /\ InTurn)'
  BY <1>0, LocalStepFacts, ServedLatelyNext
<1>3. LocalSpec => SchedulerInit /\ LocalInit /\ [][LocalStep]_localSpecVars
  BY DEF LocalSpec, LocalStep, localSpecVars
<1>4. SchedulerInv /\ ServedLately /\ LocalInv /\ InTurn => TurnsComeRound /\ StallsAfterTryingAll
  BY InTurnImplies
<1> QED
  BY <1>1, <1>2, <1>3, <1>4, LocalInvariant, PTL

(* The fairness of the driver: in a fair configuration, a run that is left *)
(* to its own evidence selects each component again within max_skip_rounds *)
(* and one round for each of the others.                                   *)
THEOREM TurnsCome ==
  ASSUME FairConfiguration
  PROVE  LocalSpec => []TurnsComeRound
BY RunsAreInTurn, PTL

(* In a fair configuration a patient run does not stall for lack of gain   *)
(* before it has tried every component in vain.                            *)
THEOREM StallsAreTried ==
  ASSUME FairConfiguration
  PROVE  LocalSpec => []StallsAfterTryingAll
BY RunsAreInTurn, PTL

=============================================================================
