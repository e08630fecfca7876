------------------------- MODULE ProjectInitProofs -------------------------
(***************************************************************************)
(* Proofs about ProjectInit, for any tables and columns, any budget and    *)
(* prices, any number of commands and of things that happen to them.       *)
(***************************************************************************)
EXTENDS ProjectInit, Integers, FiniteSetTheorems, TLAPS

-----------------------------------------------------------------------------
(* Finite orders                                                           *)

\* An order on S is given by the predecessors pred[t] of each element t.
StrictOrder(S, pred) ==
  /\ pred \in [S -> SUBSET S]
  /\ \A t \in S : t \notin pred[t]
  /\ \A t, u \in S : t # u => t \in pred[u] \/ u \in pred[t]
  /\ \A t, u, v \in S : t \in pred[u] /\ u \in pred[v] => t \in pred[v]

LEMMA IntervalSize ==
  ASSUME NEW n \in Nat
  PROVE  /\ IsFiniteSet(1..n) /\ Cardinality(1..n) = n
         /\ IsFiniteSet(0..(n - 1)) /\ Cardinality(0..(n - 1)) = n
<1>1. 0 \in Int /\ 1 \in Int /\ n \in Int /\ n - 1 \in Int
  OBVIOUS
<1>2. IsFiniteSet(1..n) /\ Cardinality(1..n) = IF 1 > n THEN 0 ELSE n - 1 + 1
  BY <1>1, FS_Interval
<1>3. /\ IsFiniteSet(0..(n - 1))
      /\ Cardinality(0..(n - 1)) = IF 0 > n - 1 THEN 0 ELSE (n - 1) - 0 + 1
  BY <1>1, FS_Interval
<1>4. Cardinality(1..n) = n
  BY <1>2
<1>5. Cardinality(0..(n - 1)) = n
  BY <1>3
<1>6. QED
  BY <1>2, <1>3, <1>4, <1>5

\* No two elements have the same number of predecessors.
LEMMA RanksDiffer ==
  ASSUME NEW S, IsFiniteSet(S), NEW pred, StrictOrder(S, pred)
  PROVE  /\ \A t \in S : IsFiniteSet(pred[t]) /\ Cardinality(pred[t]) \in Nat
         /\ \A t \in S : Cardinality(pred[t]) < Cardinality(S)
         /\ \A t, u \in S : Cardinality(pred[t]) = Cardinality(pred[u]) => t = u
<1>1. Cardinality(S) \in Nat
  BY FS_CardinalityType
<1>2. ASSUME NEW t \in S
      PROVE  IsFiniteSet(pred[t]) /\ Cardinality(pred[t]) \in Nat
  BY FS_Subset, FS_CardinalityType DEF StrictOrder
<1>3. ASSUME NEW t \in S
      PROVE  Cardinality(pred[t]) < Cardinality(S)
  <2>1. pred[t] \in SUBSET S /\ pred[t] # S
    BY DEF StrictOrder
  <2>2. Cardinality(pred[t]) <= Cardinality(S) /\ Cardinality(pred[t]) # Cardinality(S)
    BY <2>1, FS_Subset
  <2>3. QED
    BY <1>1, <1>2, <2>2
<1>4. ASSUME NEW t \in S, NEW u \in S, t \in pred[u]
      PROVE  Cardinality(pred[t]) < Cardinality(pred[u])
  <2>1. pred[t] \in SUBSET pred[u] /\ t \notin pred[t]
    BY <1>4 DEF StrictOrder
  <2>2. /\ Cardinality(pred[t]) <= Cardinality(pred[u])
        /\ Cardinality(pred[t]) = Cardinality(pred[u]) => pred[t] = pred[u]
    BY <1>2, <2>1, FS_Subset
  <2>3. pred[t] # pred[u]
    BY <1>4, <2>1
  <2>4. QED
    BY <1>2, <2>2, <2>3
<1>5. ASSUME NEW t \in S, NEW u \in S, t # u
      PROVE  Cardinality(pred[t]) # Cardinality(pred[u])
  <2>1. Cardinality(pred[t]) \in Nat /\ Cardinality(pred[u]) \in Nat
    BY <1>2
  <2>2. t \in pred[u] \/ u \in pred[t]
    BY <1>5 DEF StrictOrder
  <2>3. QED
    BY <1>4, <2>1, <2>2
<1>6. QED
  BY <1>2, <1>3, <1>5

\* There is an element with k predecessors for each k less than the size of the order: the
\* ranks are an injection between sets of one size, hence onto.
LEMMA EveryRank ==
  ASSUME NEW S, IsFiniteSet(S), NEW pred, StrictOrder(S, pred),
         NEW k \in Nat, k < Cardinality(S)
  PROVE  \E t \in S : Cardinality(pred[t]) = k
<1> DEFINE n    == Cardinality(S)
           rank == [t \in S |-> Cardinality(pred[t])]
<1>1. n \in Nat
  BY FS_CardinalityType
<1>2. rank \in [S -> 0..(n - 1)]
  <2>1. ASSUME NEW t \in S
        PROVE  Cardinality(pred[t]) \in 0..(n - 1)
    <3>1. Cardinality(pred[t]) \in Nat /\ Cardinality(pred[t]) < n
      BY RanksDiffer
    <3> HIDE DEF n
    <3>2. QED
      BY <1>1, <3>1
  <2>2. QED
    BY <2>1
<1>3. \A t, u \in S : rank[t] = rank[u] => t = u
  BY RanksDiffer
<1>4. IsFiniteSet(0..(n - 1)) /\ Cardinality(0..(n - 1)) = n
  <2> HIDE DEF n
  <2>1. QED
    BY <1>1, IntervalSize
<1>5. rank \in Injection(S, 0..(n - 1))
  <2> HIDE DEF rank, n
  <2>1. QED
    BY <1>2, <1>3 DEF Injection, IsInjective
<1>6. rank \in Surjection(S, 0..(n - 1))
  <2> HIDE DEF rank
  <2>1. QED
    BY <1>4, <1>5, FS_Injection
<1>7. PICK t \in S : rank[t] = k
  <2>1. k \in 0..(n - 1)
    <3>1. k < n
      OBVIOUS
    <3> HIDE DEF n
    <3>2. QED
      BY <1>1, <3>1
  <2> HIDE DEF rank, n
  <2>2. QED
    BY <1>6, <2>1 DEF Surjection
<1>8. QED
  BY <1>7

-----------------------------------------------------------------------------
(* Sets of numbers                                                         *)

Below(S) == [t \in S |-> {u \in S : u < t}]
Rank(S)  == [t \in S |-> Cardinality({u \in S : u < t})]

LEMMA BelowIsStrict ==
  ASSUME NEW S \in SUBSET Nat
  PROVE  StrictOrder(S, Below(S))
<1>1. \A t \in S : t \in Nat
  OBVIOUS
<1>2. QED
  BY <1>1 DEF StrictOrder, Below

\* The numbers of a finite set, counted from the smallest.
LEMMA RankOf ==
  ASSUME NEW S \in SUBSET Nat, IsFiniteSet(S), NEW n, n = Cardinality(S),
         NEW rank, rank = Rank(S)
  PROVE  /\ n \in Nat
         /\ \A t \in S : rank[t] \in Nat /\ rank[t] < n
         /\ \A t, u \in S : t < u <=> rank[t] < rank[u]
         /\ \A k \in Nat : k < n => \E t \in S : rank[t] = k
<1>1. PICK pred : pred = Below(S) /\ StrictOrder(S, pred)
  BY BelowIsStrict
<1>2. \A t \in S : /\ pred[t] = {u \in S : u < t} /\ rank[t] = Cardinality(pred[t])
                   /\ t \in Nat
  BY <1>1 DEF Below, Rank
<1>3. Cardinality(S) \in Nat
  BY FS_CardinalityType
<1>4. /\ \A t \in S : IsFiniteSet(pred[t]) /\ Cardinality(pred[t]) \in Nat
      /\ \A t \in S : Cardinality(pred[t]) < Cardinality(S)
      /\ \A t, u \in S : Cardinality(pred[t]) = Cardinality(pred[u]) => t = u
  BY <1>1, RanksDiffer
<1>5. ASSUME NEW k \in Nat, k < Cardinality(S)
      PROVE  \E t \in S : Cardinality(pred[t]) = k
  <2>1. PICK X : X = S
    OBVIOUS
  <2>2. IsFiniteSet(X) /\ StrictOrder(X, pred) /\ k < Cardinality(X)
    BY <1>1, <1>5, <2>1
  <2>3. \E t \in X : Cardinality(pred[t]) = k
    BY <2>2, EveryRank
  <2>4. QED
    BY <2>1, <2>3
<1>6. ASSUME NEW t \in S, NEW u \in S, t < u
      PROVE  Cardinality(pred[t]) < Cardinality(pred[u])
  <2>1. \A v \in S : v \in pred[t] => v \in pred[u]
    BY <1>2, <1>6
  <2>2. pred[t] \in SUBSET pred[u] /\ t # u
    <3>1. t \in Nat /\ u \in Nat
      BY <1>2
    <3>2. pred[t] \subseteq S
      BY <1>2
    <3>3. QED
      <4>1. t # u
        BY <1>6, <3>1
      <4>2. QED
        BY <2>1, <3>2, <4>1
  <2>3. Cardinality(pred[t]) <= Cardinality(pred[u])
    BY <1>4, <2>2, FS_Subset
  <2>4. Cardinality(pred[t]) # Cardinality(pred[u])
    BY <1>4, <2>2
  <2>5. QED
    BY <1>4, <2>3, <2>4
<1>7. ASSUME NEW t \in S, NEW u \in S, Cardinality(pred[t]) < Cardinality(pred[u])
      PROVE  t < u
  <2>1. Cardinality(pred[t]) \in Nat /\ Cardinality(pred[u]) \in Nat /\ t \in Nat /\ u \in Nat
    BY <1>2, <1>4
  <2>2. ~(u < t)
    <3>1. SUFFICES ASSUME u < t PROVE FALSE
      OBVIOUS
    <3>2. Cardinality(pred[u]) < Cardinality(pred[t])
      BY <1>6, <3>1
    <3>3. QED
      BY <1>7, <2>1, <3>2
  <2>3. t # u
    BY <1>7, <2>1
  <2>4. QED
    BY <2>1, <2>2, <2>3
<1>8. ASSUME NEW t \in S
      PROVE  rank[t] \in Nat /\ rank[t] < n
  BY <1>2, <1>4
<1>9. ASSUME NEW t \in S, NEW u \in S
      PROVE  t < u <=> rank[t] < rank[u]
  BY <1>2, <1>6, <1>7
<1>10. ASSUME NEW k \in Nat, k < n
       PROVE  \E t \in S : rank[t] = k
  BY <1>2, <1>5, <1>10
<1>11. QED
  BY <1>3, <1>8, <1>9, <1>10

LEMMA LeastAndGreatest ==
  ASSUME NEW S \in SUBSET Nat, IsFiniteSet(S), S # {}
  PROVE  /\ Min(S) \in S /\ \A u \in S : Min(S) <= u
         /\ Max(S) \in S /\ \A u \in S : u <= Max(S)
<1>1. PICK n : n = Cardinality(S) /\ n \in Nat /\ n # 0
  BY FS_CardinalityType, FS_EmptySet
<1>2. PICK rank : rank = Rank(S)
  OBVIOUS
<1>3. /\ \A t \in S : rank[t] \in Nat /\ rank[t] < n
      /\ \A t, u \in S : t < u <=> rank[t] < rank[u]
      /\ \A k \in Nat : k < n => \E t \in S : rank[t] = k
  BY <1>1, <1>2, RankOf
<1>4. \E t \in S : \A u \in S : t <= u
  <2>1. PICK t \in S : rank[t] = 0
    BY <1>1, <1>3
  <2>2. \A u \in S : ~(u < t)
    BY <1>1, <1>3, <2>1
  <2>3. QED
    BY <2>2
<1>5. \E t \in S : \A u \in S : t >= u
  <2>1. PICK t \in S : rank[t] = n - 1
    BY <1>1, <1>3
  <2>2. \A u \in S : ~(t < u)
    BY <1>1, <1>3, <2>1
  <2>3. QED
    BY <2>2
<1>6. QED
  BY <1>4, <1>5 DEF Min, Max

\* A finite set of numbers can be listed in increasing order, each of them once.
LEMMA InOrder ==
  ASSUME NEW S \in SUBSET Nat, IsFiniteSet(S)
  PROVE  \E batch \in [1..Cardinality(S) -> S] :
           \A i, j \in DOMAIN batch : i < j => batch[i] < batch[j]
<1>1. PICK n : n = Cardinality(S) /\ n \in Nat
  BY FS_CardinalityType
<1>2. PICK rank : rank = Rank(S)
  OBVIOUS
<1>3. /\ \A t, u \in S : t < u <=> rank[t] < rank[u]
      /\ \A k \in Nat : k < n => \E t \in S : rank[t] = k
  BY <1>1, <1>2, RankOf
<1>4. \A i \in 1..n : \E t \in S : rank[t] = i - 1
  BY <1>1, <1>3
<1>5. PICK batch : batch = [i \in 1..n |-> CHOOSE t \in S : rank[t] = i - 1]
  OBVIOUS
<1>6. \A i \in 1..n : batch[i] \in S /\ rank[batch[i]] = i - 1
  BY <1>4, <1>5
<1>7. batch \in [1..n -> S]
  BY <1>5, <1>6
<1>8. ASSUME NEW i \in 1..n, NEW j \in 1..n, i < j
      PROVE  batch[i] < batch[j]
  <2>1. batch[i] \in S /\ batch[j] \in S /\ rank[batch[i]] < rank[batch[j]]
    BY <1>1, <1>6, <1>8
  <2>2. QED
    BY <1>3, <2>1
<1>9. QED
  BY <1>1, <1>7, <1>8

-----------------------------------------------------------------------------
(* Sums                                                                    *)

\* The sum of f over S as an area: a column of f[x] cells for each x.
Cells(f, S) == UNION {{x} \X (1..f[x]) : x \in S}
Total(f, S) == Cardinality(Cells(f, S))

LEMMA TotalIsNat ==
  ASSUME NEW S, IsFiniteSet(S), NEW f, \A x \in S : f[x] \in Nat
  PROVE  IsFiniteSet(Cells(f, S)) /\ Total(f, S) \in Nat
<1> DEFINE columns == {{x} \X (1..f[x]) : x \in S}
           column == [x \in S |-> {x} \X (1..f[x])]
<1>1. column \in Surjection(S, columns)
  BY DEF Surjection
<1>2. IsFiniteSet(columns)
  <2> HIDE DEF column, columns
  <2>1. QED
    BY <1>1, FS_Surjection
<1>3. ASSUME NEW x \in S
      PROVE  IsFiniteSet({x} \X (1..f[x]))
  <2>1. 1 \in Int /\ f[x] \in Int
    OBVIOUS
  <2>2. IsFiniteSet(1..f[x]) /\ IsFiniteSet({x})
    BY <2>1, FS_Singleton, FS_Interval
  <2>3. QED
    BY <2>2, FS_Product
<1>4. \A c \in columns : IsFiniteSet(c)
  BY <1>3
<1>5. IsFiniteSet(UNION columns)
  <2> HIDE DEF columns
  <2>1. QED
    BY <1>2, <1>4, FS_UNION
<1>6. QED
  BY <1>5, FS_CardinalityType DEF Cells, Total

LEMMA TotalSplits ==
  ASSUME NEW S, IsFiniteSet(S), NEW f, \A x \in S : f[x] \in Nat, NEW x \in S
  PROVE  Total(f, S) = f[x] + Total(f, S \ {x})
<1> DEFINE column == {x} \X (1..f[x])
           others == Cells(f, S \ {x})
<1>1. IsFiniteSet(S \ {x})
  BY FS_RemoveElement
<1>2. IsFiniteSet(others) /\ Cardinality(others) \in Nat
  BY <1>1, TotalIsNat DEF Total
<1>3. IsFiniteSet(column) /\ Cardinality(column) = f[x]
  <2>1. IsFiniteSet(1..f[x]) /\ Cardinality(1..f[x]) = f[x]
    BY FS_Interval
  <2>2. IsFiniteSet({x}) /\ Cardinality({x}) = 1
    BY FS_Singleton
  <2>3. PICK one, bar : one = {x} /\ bar = 1..f[x]
    OBVIOUS
  <2>4. IsFiniteSet(one) /\ Cardinality(one) = 1 /\ IsFiniteSet(bar) /\ Cardinality(bar) = f[x]
    BY <2>1, <2>2, <2>3
  <2>5. /\ IsFiniteSet(one \X bar)
        /\ Cardinality(one \X bar) = Cardinality(one) * Cardinality(bar)
    BY <2>4, FS_Product
  <2>6. Cardinality(one) * Cardinality(bar) = f[x]
    BY <2>4
  <2>7. column = one \X bar
    BY <2>3
  <2>8. QED
    BY <2>5, <2>6, <2>7
<1>4. Cells(f, S) = column \cup others /\ column \cap others = {}
  BY DEF Cells
<1> HIDE DEF column, others
<1>5. Cardinality(column \cup others) = f[x] + Cardinality(others)
  <2>1. Cardinality(column \cup others) = f[x] + Cardinality(others) - Cardinality({})
    BY <1>2, <1>3, <1>4, FS_Union
  <2>2. QED
    BY <1>2, <2>1, FS_EmptySet
<1>6. QED
  BY <1>4, <1>5 DEF Total, others

LEMMA TotalOfNothing ==
  ASSUME NEW f
  PROVE  Total(f, {}) = 0
BY FS_EmptySet DEF Total, Cells

LEMMA TotalsAgree ==
  ASSUME NEW S, NEW f, NEW g, \A x \in S : f[x] = g[x]
  PROVE  Total(f, S) = Total(g, S)
BY DEF Total, Cells

-----------------------------------------------------------------------------
(* Fresh ids                                                               *)

\* Outside a finite set there are n numbers before which every number is taken: the n first
\* ones that are free.
LEMMA FirstFree ==
  ASSUME NEW R, IsFiniteSet(R), NEW n \in Nat
  PROVE  \E ids \in SUBSET (1..(n + Cardinality(R))) :
           /\ Cardinality(ids) = n /\ ids \cap R = {}
           /\ \A i \in ids : 1..i \subseteq ids \cup R
<1>1. PICK m : m = Cardinality(R) /\ m \in Nat
  BY FS_CardinalityType
<1>2. PICK U : U = 1..(n + m)
  OBVIOUS
<1>3. IsFiniteSet(U) /\ Cardinality(U) = n + m /\ U \in SUBSET Nat
  BY <1>1, <1>2, IntervalSize
<1>4. PICK free : free = U \ R
  OBVIOUS
<1>5. IsFiniteSet(free) /\ Cardinality(free) \in Nat /\ n <= Cardinality(free)
  <2>1. IsFiniteSet(free) /\ Cardinality(free) = Cardinality(U) - Cardinality(U \cap R)
    BY <1>3, <1>4, FS_Difference
  <2>2. Cardinality(U \cap R) <= m /\ IsFiniteSet(U \cap R)
    BY <1>1, FS_Intersection
  <2>3. Cardinality(U \cap R) \in Nat /\ Cardinality(free) \in Nat
    BY <2>1, <2>2, FS_CardinalityType
  <2>4. QED
    BY <1>1, <1>3, <2>1, <2>2, <2>3
<1>6. PICK k, rank : k = Cardinality(free) /\ rank = Rank(free)
  OBVIOUS
<1>7. /\ \A t \in free : rank[t] \in Nat /\ rank[t] < k
      /\ \A t, u \in free : t < u <=> rank[t] < rank[u]
      /\ \A x \in Nat : x < k => \E t \in free : rank[t] = x
  <2>1. free \in SUBSET Nat
    BY <1>3, <1>4
  <2>2. QED
    BY <1>5, <1>6, <2>1, RankOf
<1>8. PICK ids : ids = {t \in free : rank[t] < n}
  OBVIOUS
<1>9. ids \in SUBSET U /\ IsFiniteSet(ids) /\ ids \cap R = {}
  <2>1. ids \in SUBSET U /\ ids \cap R = {}
    BY <1>4, <1>8
  <2>2. QED
    BY <1>3, <2>1, FS_Subset
<1>10. Cardinality(ids) = n
  <2>1. PICK f : f = [t \in ids |-> rank[t]]
    OBVIOUS
  <2>2. f \in [ids -> 0..(n - 1)] /\ \A t, u \in ids : f[t] = f[u] => t = u
    <3>1. \A t \in ids : t \in free /\ rank[t] \in 0..(n - 1) /\ t \in Nat
      BY <1>3, <1>4, <1>7, <1>8
    <3>2. ASSUME NEW t \in ids, NEW u \in ids, f[t] = f[u]
          PROVE  t = u
      <4>1. ~(t < u) /\ ~(u < t)
        BY <1>7, <2>1, <3>1, <3>2
      <4>2. QED
        BY <3>1, <4>1
    <3>3. QED
      BY <2>1, <3>1, <3>2
  <2>3. f \in Surjection(ids, 0..(n - 1))
    <3>1. ASSUME NEW x \in 0..(n - 1)
          PROVE  \E t \in ids : f[t] = x
      <4>1. x \in Nat /\ x < k
        BY <1>5, <1>6
      <4>2. PICK t \in free : rank[t] = x
        BY <1>7, <4>1
      <4>3. t \in ids
        BY <1>8, <4>2
      <4>4. QED
        BY <2>1, <4>2, <4>3
    <3>2. QED
      BY <2>2, <3>1 DEF Surjection
  <2>4. f \in Injection(ids, 0..(n - 1))
    BY <2>2 DEF Injection, IsInjective
  <2>5. QED
    BY <1>9, <2>3, <2>4, FS_Surjection, IntervalSize
<1>11. ASSUME NEW i \in ids
       PROVE  1..i \subseteq ids \cup R
  <2>1. i \in free /\ i \in U /\ rank[i] < n /\ i \in 1..(n + m)
    BY <1>2, <1>4, <1>8
  <2>2. ASSUME NEW j \in 1..i, j \notin R
        PROVE  j \in ids
    <3>1. j \in free
      BY <1>1, <1>2, <1>4, <2>1, <2>2
    <3>2. j = i \/ j < i
      BY <2>1, <2>2
    <3>3. rank[j] < n
      BY <1>7, <2>1, <3>1, <3>2
    <3>4. QED
      BY <1>8, <3>1, <3>3
  <2>3. QED
    BY <2>2
<1>12. QED
  BY <1>1, <1>2, <1>9, <1>10, <1>11

LEMMA IdsAreFinite ==
  ASSUME NEW Q, IsFiniteSet(Q)
  PROVE  IsFiniteSet(Ids(Q)) /\ IsFiniteSet({x.q : x \in Q})
<1>1. [x \in Q |-> x.id] \in Surjection(Q, Ids(Q))
  BY DEF Surjection, Ids
<1>2. [x \in Q |-> x.q] \in Surjection(Q, {x.q : x \in Q})
  BY DEF Surjection
<1>3. QED
  BY <1>1, <1>2, FS_Surjection

\* What a synthesis adds are questions, under ids that neither queue nor dev set has.
LEMMA SurvivorsAreNew ==
  ASSUME queue \subseteq Questions, IsFiniteSet(queue), dev \subseteq Questions, IsFiniteSet(dev),
         NEW n \in Nat
  PROVE  /\ Survivors(n) \subseteq Questions /\ IsFiniteSet(Survivors(n))
         /\ Ids(Survivors(n)) \cap Ids(queue) = {}
<1>1. IsFiniteSet(Reserved)
  BY IdsAreFinite, FS_Union DEF Reserved
<1>2. PICK ids : ids = FreshIds(n)
  OBVIOUS
<1>3. PICK m, R : R = Reserved /\ m = Cardinality(R)
  OBVIOUS
<1>4. /\ ids \in SUBSET (1..(n + m)) /\ Cardinality(ids) = n /\ ids \cap R = {}
  <2>1. \E S \in SUBSET (1..(n + Cardinality(R))) :
           /\ Cardinality(S) = n /\ S \cap R = {}
           /\ \A i \in S : 1..i \subseteq S \cup R
    BY <1>1, <1>3, FirstFree
  <2>2. QED
    BY <1>2, <1>3, <2>1 DEF FreshIds
<1>5. m \in Nat
  BY <1>1, <1>3, FS_CardinalityType
<1>6. IsFiniteSet(ids) /\ ids \subseteq Nat
  <2>1. 1 \in Int /\ n + m \in Int
    BY <1>5
  <2>2. PICK X : X = 1..(n + m)
    OBVIOUS
  <2>3. IsFiniteSet(X)
    BY <2>1, <2>2, FS_Interval
  <2>4. IsFiniteSet(ids)
    BY <1>4, <2>2, <2>3, FS_Subset
  <2>5. ids \subseteq Nat
    BY <1>4
  <2>6. QED
    BY <2>4, <2>5
<1>7. NewQuestion \in Nat
  <2>1. PICK Q : Q = {x.q : x \in queue \cup dev} \cup {0}
    OBVIOUS
  <2>2. IsFiniteSet(Q)
    <3>1. IsFiniteSet(queue \cup dev)
      BY FS_Union
    <3>2. IsFiniteSet({x.q : x \in queue \cup dev})
      BY <3>1, IdsAreFinite
    <3>3. QED
      BY <2>1, <3>2, FS_AddElement
  <2>3. Q \in SUBSET Nat /\ Q # {}
    BY <2>1 DEF Questions
  <2>4. Max(Q) \in Nat
    BY <2>2, <2>3, LeastAndGreatest
  <2>5. QED
    BY <2>1, <2>4 DEF NewQuestion
<1>8. ASSUME NEW i \in ids
      PROVE  [id |-> i, q |-> NewQuestion + Cardinality({j \in ids : j < i})] \in Questions
  <2>1. {j \in ids : j < i} \in SUBSET ids
    OBVIOUS
  <2>2. Cardinality({j \in ids : j < i}) \in Nat
    BY <1>6, <2>1, FS_Subset, FS_CardinalityType
  <2>3. QED
    BY <1>6, <1>7, <2>2 DEF Questions
<1>9. PICK card : card = [i \in ids |-> [id |-> i, q |-> NewQuestion
                                                        + Cardinality({j \in ids : j < i})]]
  OBVIOUS
<1>10. Survivors(n) = {card[i] : i \in ids}
  BY <1>2, <1>9 DEF Survivors
<1>11. \A i \in ids : card[i] \in Questions /\ card[i].id = i
  BY <1>8, <1>9
<1>12. IsFiniteSet(Survivors(n))
  <2>1. card \in Surjection(ids, Survivors(n))
    BY <1>9, <1>10 DEF Surjection
  <2>2. QED
    BY <1>6, <2>1, FS_Surjection
<1>13. Ids(Survivors(n)) \subseteq ids
  BY <1>10, <1>11 DEF Ids
<1>14. QED
  BY <1>3, <1>4, <1>10, <1>11, <1>12, <1>13 DEF Reserved

-----------------------------------------------------------------------------
(* Files                                                                   *)

\* Nothing that is opted out has statistics.
Clean(f) == \A c \in Columns : f.off \cap {c, TableNote} # {} => f.stats[c] = 0

\* g has every word of a person and every opt-out of f.
Keeps(f, g) ==
  /\ f.off \subseteq g.off
  /\ \A k \in Keys : f.notes[k] = "authored" => g.notes[k] = "authored"

LEMMA ADraftIsAFile ==
  ASSUME NEW L \in SUBSET Columns
  PROVE  Drafted(L) \in File /\ Clean(Drafted(L))
BY SemanticsFileAssumption DEF Drafted, File, Clean, Comment, Keys

LEMMA SyncIsAFile ==
  ASSUME NEW f \in File, Clean(f), NEW L \in SUBSET Columns
  PROVE  Synced(f, L) \in File /\ Clean(Synced(f, L)) /\ Keeps(f, Synced(f, L))
<1>1. PICK g : g = Synced(f, L)
  OBVIOUS
<1>2. PICK notes : notes = [k \in Keys |-> IF k \in L \ InFile(f) THEN Comment(k) ELSE f.notes[k]]
  OBVIOUS
<1>3. g = [f EXCEPT !.notes = notes]
  BY <1>1, <1>2 DEF Synced
<1>4. g.notes = notes /\ g.stats = f.stats /\ g.off = f.off
  BY <1>3 DEF File
<1>5. notes \in [Keys -> {"absent", "blank", "draft", "authored"}]
  BY <1>2 DEF Comment, File
<1>6. g \in File
  BY <1>3, <1>5 DEF File
<1>7. ASSUME NEW k \in Keys, f.notes[k] = "authored"
      PROVE  notes[k] = "authored"
  BY <1>2, <1>7 DEF InFile
<1>8. QED
  BY <1>1, <1>4, <1>6, <1>7 DEF Clean, Keeps

LEMMA AProfileIsAFile ==
  ASSUME NEW f \in File, Clean(f), NEW d \in 1..MaxData
  PROVE  Profiled(f, d) \in File /\ Clean(Profiled(f, d)) /\ Keeps(f, Profiled(f, d))
<1>1. CASE TableNote \in f.off
  BY <1>1 DEF Profiled, Keeps
<1>2. CASE TableNote \notin f.off
  <2>1. PICK g : g = Profiled(f, d)
    OBVIOUS
  <2>2. PICK stats : stats = [c \in Columns |-> IF c \in InFile(f) \ f.off THEN d ELSE f.stats[c]]
    OBVIOUS
  <2>3. g = [f EXCEPT !.stats = stats]
    BY <1>2, <2>1, <2>2 DEF Profiled
  <2>4. g.notes = f.notes /\ g.stats = stats /\ g.off = f.off
    BY <2>3 DEF File
  <2>5. stats \in [Columns -> 0..MaxData]
    BY <2>2, SemanticsFileAssumption DEF File
  <2>6. g \in File
    BY <2>3, <2>5 DEF File
  <2>7. ASSUME NEW c \in Columns, f.off \cap {c, TableNote} # {}
        PROVE  stats[c] = 0
    BY <1>2, <2>2, <2>7 DEF Clean
  <2>8. QED
    BY <2>1, <2>4, <2>6, <2>7 DEF Clean, Keeps
<1>3. QED
  BY <1>1, <1>2

LEMMA AnAnnotationIsAFile ==
  ASSUME NEW f \in File, Clean(f), NEW d
  PROVE  Annotated(f, d) \in File /\ Clean(Annotated(f, d)) /\ Keeps(f, Annotated(f, d))
<1>1. PICK g : g = Annotated(f, d)
  OBVIOUS
<1>2. PICK notes : notes = [k \in Keys |-> IF k \in Filled(f, d) THEN "draft" ELSE f.notes[k]]
  OBVIOUS
<1>3. g = [f EXCEPT !.notes = notes]
  BY <1>1, <1>2 DEF Annotated
<1>4. g.notes = notes /\ g.stats = f.stats /\ g.off = f.off
  BY <1>3 DEF File
<1>5. notes \in [Keys -> {"absent", "blank", "draft", "authored"}]
  BY <1>2 DEF File
<1>6. g \in File
  BY <1>3, <1>5 DEF File
<1>7. ASSUME NEW k \in Keys, f.notes[k] = "authored"
      PROVE  notes[k] = "authored"
  BY <1>2, <1>7 DEF Filled
<1>8. QED
  BY <1>1, <1>4, <1>6, <1>7 DEF Clean, Keeps

LEMMA NoFileIsNoFile == NoFile \notin File
BY SemanticsFileAssumption DEF File

-----------------------------------------------------------------------------
(* The invariant                                                           *)

Marks == [table : Tables, key : Keys, kind : {"note", "off"}]

\* What a person wrote is in a text.
Respects(m, f) == IF m.kind = "note" THEN f.notes[m.key] = "authored" ELSE m.key \in f.off

\* The files on disk and the texts in memory.
FilesInv ==
  /\ data \in 1..MaxData /\ live \in [Tables -> SUBSET Columns]
  /\ text \in [Tables -> File \cup {NoFile}]
  /\ hold \in [Tables -> File \cup {NoFile}]
  /\ \A t \in Tables : /\ text[t] # NoFile => Clean(text[t])
                       /\ hold[t] # NoFile => Clean(hold[t])

\* What a person wrote is in the file, and in the text a command will write over it.
MarksInv ==
  /\ marks \subseteq Marks
  /\ \A m \in marks : /\ text[m.table] # NoFile /\ Respects(m, text[m.table])
                      /\ hold[m.table] # NoFile => Respects(m, hold[m.table])

\* Questions on disk and in memory; what is about to be queued has ids of its own.
QuestionsInv ==
  /\ queue \subseteq Questions /\ IsFiniteSet(queue)
  /\ dev \subseteq Questions /\ IsFiniteSet(dev)
  /\ review \subseteq Tables \X Keys
  /\ pc = "idle" => drafted = {}
  /\ pc \in {"picking", "asking", "metering", "saving"} => drafted \subseteq Tables \X Keys
  /\ pc \in {"queueing", "seeding"} => drafted \subseteq Questions /\ IsFiniteSet(drafted)
  /\ pc = "queueing" => Ids(drafted) \cap Ids(queue) = {}

BoundsInv ==
  /\ rest \in Nat /\ rest <= events
  /\ events \in 0..MaxEvents /\ commands \in 0..MaxCommands
  /\ touched \subseteq Tables \cup {WholeProject}

StepsInv ==
  /\ pc \in Steps /\ (pc # "idle" => cmd \in Commands)
  /\ pc = "idle" => plan = NoPlan /\ seen = << >>
  /\ left \subseteq Tables
  /\ open = (pc = "wave")

\* The tables of the plan have files, each of them its own place in the batch.
IsPlan(p) ==
  /\ p \in [tables : Seq(Tables), synth : BOOLEAN, eval : BOOLEAN]
  /\ Len(p.tables) <= NTables
  /\ \A i, j \in DOMAIN p.tables : p.tables[i] = p.tables[j] => i = j
  /\ \A i \in DOMAIN p.tables : text[p.tables[i]] # NoFile

PlanInv == IsPlan(plan)

WaveInv ==
  /\ stage \in [Tables -> F!Stages]
  /\ pc \in {"wave", "settling"} => \A p \in Tables : stage[p] # "absent" => p <= Len(plan.tables)
  /\ pc = "settling" => \A p \in left : stage[p] = "ok"

\* Whatever is left to be profiled or annotated has a file, and drafting gives one to all.
LeftInv ==
  /\ pc = "drafting" => left # {} /\ \A t \in Tables \ left : text[t] # NoFile
  /\ pc \in {"profiling", "picking", "asking", "metering"} => \A t \in left : text[t] # NoFile
  /\ pc = "asking" => left # {}

\* A text is held of the table that is being profiled or annotated, and of those whose
\* unit of the wave is at work.
HoldInv ==
  /\ pc = "profiling" => \A t \in Tables : hold[t] # NoFile => t \in left
  /\ pc = "asking" => \A t \in Tables : hold[t] # NoFile <=> t = Min(left)
  /\ pc = "wave" =>
       /\ \A p \in Tables : stage[p] = "running" => hold[plan.tables[p]] # NoFile
       /\ \A t \in Tables : hold[t] # NoFile =>
            \E p \in Tables : stage[p] = "running" /\ plan.tables[p] = t
  /\ pc \notin {"profiling", "asking", "wave"} => \A t \in Tables : hold[t] = NoFile

\* Columns are only added: what was introspected is behind the database.
SchemaOf(s) == s \in [Tables -> SUBSET Columns]
Behind(s, r) == \A t \in Tables : s[t] \subseteq r[t]

Introspected ==
  \/ pc \in {"drafting", "planning", "confirming", "annotating", "wave", "settling",
             "synthesizing", "queueing", "seeding", "evaluating", "scoring", "stamping", "coaching"}
  \/ pc = "profiling" /\ cmd.kind = "init"

SchemaInv == Introspected => SchemaOf(schema) /\ Behind(schema, live)

\* A saved run of these files on this clock, between two states of the database.
Covers(r, content, clock, from) ==
  /\ r = [content |-> content, schema |-> r.schema, clock |-> clock]
  /\ SchemaOf(r.schema) /\ Behind(from, r.schema) /\ Behind(r.schema, live)

\* Unless somebody edited between the run and its stamp, the baseline is of a saved run, and
\* what has been introspected since is not behind that run's database.
BaselineInv ==
  /\ base # << >> =>
       /\ base = [content |-> base.content, schema |-> base.schema, clock |-> base.clock]
       /\ SchemaOf(base.schema)
       /\ WholeProject \notin touched =>
            \E r \in scored :
              /\ Covers(r, base.content, base.clock, base.schema)
              /\ Introspected /\ pc \in {"drafting", "profiling", "planning"} =>
                   Behind(r.schema, schema)
  /\ pc = "scoring" =>
       /\ seen = [text |-> seen.text, dev |-> seen.dev, rest |-> seen.rest]
       /\ IsFiniteSet(seen.dev)
       /\ WholeProject \notin touched => seen = Content
  /\ pc = "stamping" /\ WholeProject \notin touched =>
       \E r \in scored : Covers(r, Content, cmd.clock, schema)

\* Until it is touched by hand a table's stamp, and a text about to be stamped, is one the
\* annotator wrote.
EarnedInv ==
  /\ stamps \in [Tables -> File \cup {NoFile}]
  /\ \A t \in Tables \ touched :
       stamps[t] # NoFile => [table |-> t, text |-> stamps[t]] \in earned
  /\ \A p \in Tables :
       /\ pc = "wave" \/ (pc = "settling" /\ p \in left)
       /\ stage[p] = "ok" /\ plan.tables[p] \notin touched
       => [table |-> plan.tables[p], text |-> text[plan.tables[p]]] \in earned

\* Billed, and not metered yet.
Owed ==
  IF pc = "wave" THEN Total(costs, F!In("ok"))
  ELSE IF pc = "settling" THEN Total(costs, left)
  ELSE IF pc \in {"metering", "queueing"} THEN costs[1] ELSE 0

MoneyInv ==
  /\ {ledger, spent, evalCost, billed, wasted} \subseteq Nat /\ costs \in [Tables -> Nat]
  /\ pc = "idle" => spent = 0 /\ evalCost = 0
  /\ pc \notin {"stamping", "coaching", "reporting"} => evalCost = 0
  /\ pc # "idle" => ledger = spent + evalCost /\ billed = ledger + wasted + Owed

Inv == /\ FilesInv /\ MarksInv /\ QuestionsInv /\ BoundsInv /\ StepsInv /\ PlanInv /\ WaveInv
       /\ LeftInv /\ HoldInv /\ SchemaInv /\ BaselineInv /\ EarnedInv /\ MoneyInv

-----------------------------------------------------------------------------
(* What the actions leave alone                                            *)

Ends == Finish \/ Kill \/ Raise

\* Steps to the next point of a command that do nothing else.
Passes ==
  \/ EndProfiling \/ Confirm \/ PastAnnotation \/ StopBeforeWave \/ EndSettling
  \/ SkipSynthesis \/ StopBeforeSynthesis \/ SkipEval \/ StopBeforeEval \/ SkipCoach

Edits == \E t \in Tables, k \in Keys : Describe(t, k) \/ OptOut(t, k)
Grows == \E t \in Tables, c \in Columns : AddColumn(t, c)

Stays == <<data, live, text, queue, dev, rest, stamps, base, review, scored, commands,
           earned, marks, touched>>

LEMMA EndsLeave ==
  ASSUME Ends
  PROVE  /\ UNCHANGED Stays
         /\ pc' = "idle" /\ cmd' = << >> /\ schema' = << >> /\ left' = {}
         /\ hold' = [t \in Tables |-> NoFile] /\ plan' = NoPlan
         /\ costs' = [t \in Tables |-> 0] /\ spent' = 0 /\ evalCost' = 0
         /\ drafted' = {} /\ seen' = << >>
         /\ open' = FALSE /\ stage' = [t \in Tables |-> "absent"]
         /\ events' = events \/ Happens
         /\ ledger' = ledger
         /\ \/ UNCHANGED <<billed, wasted>>
            \/ \E dollars \in 0..MaxCost : billed' = billed + dollars /\ wasted' = wasted + dollars
<1>1. CASE Finish
  BY <1>1 DEF Finish, Exit, Stays, database, context, state, money, bounds, hist
<1>2. CASE Kill
  BY <1>2 DEF Kill, Exit, Stays, database, context, state, money, hist
<1>3. CASE Raise
  BY <1>3 DEF Raise, Exit, Stays, database, context, state, hist, Waste, Bill
<1>4. QED
  BY <1>1, <1>2, <1>3 DEF Ends

LEMMA PassesLeave ==
  ASSUME Passes
  PROVE  /\ UNCHANGED Stays
         /\ UNCHANGED <<cmd, schema, left, hold, plan, costs, spent, evalCost, drafted, seen,
                        open, stage, events, ledger, billed, wasted>>
         /\ \/ /\ pc = "profiling" /\ left = {}
               /\ pc' = IF cmd.kind = "init" THEN "planning" ELSE "reporting"
            \/ pc = "confirming" /\ pc' \in {"annotating", "reporting"}
            \/ pc = "annotating" /\ pc' \in {"synthesizing", "reporting"}
            \/ pc = "settling" /\ left = {} /\ pc' \in {"synthesizing", "reporting"}
            \/ pc = "synthesizing" /\ pc' \in {"evaluating", "reporting"}
            \/ pc \in {"evaluating", "coaching"} /\ pc' = "reporting"
<1>1. CASE EndProfiling \/ Confirm \/ PastAnnotation \/ StopBeforeWave
  BY <1>1 DEF EndProfiling, Confirm, PastAnnotation, StopBeforeWave, Goto, Stays,
     database, context, state, memory, fanout, money, bounds, hist
<1>2. CASE EndSettling \/ SkipSynthesis \/ StopBeforeSynthesis
  BY <1>2 DEF EndSettling, SkipSynthesis, StopBeforeSynthesis, Goto, Stays,
     database, context, state, memory, fanout, money, bounds, hist
<1>3. CASE SkipEval \/ StopBeforeEval \/ SkipCoach
  BY <1>3 DEF SkipEval, StopBeforeEval, SkipCoach, Goto, Stays,
     database, context, state, memory, fanout, money, bounds, hist
<1>4. QED
  BY <1>1, <1>2, <1>3 DEF Passes

\* Who sets what in the wave.
LEMMA ReadsOne ==
  ASSUME NEW p \in Tables, ReadTable(p)
  PROVE  /\ pc = "wave" /\ stage[p] = "pending"
         /\ stage' = [stage EXCEPT ![p] = "running"]
         /\ hold' = [hold EXCEPT ![plan.tables[p]] = text[plan.tables[p]]]
         /\ UNCHANGED <<Stays, pc, cmd, schema, left, plan, costs, spent, evalCost, drafted, seen,
                        open, events, ledger, billed, wasted>>
<1>1. CASE F!AdmitPrimer(p)
  BY <1>1 DEF ReadTable, F!AdmitPrimer, F!IsNext, F!In, Stays,
     database, context, state, money, bounds, hist
<1>2. CASE F!Admit(p)
  BY <1>2 DEF ReadTable, F!Admit, F!IsNext, F!In, Stays,
     database, context, state, money, bounds, hist
<1>3. QED
  BY <1>1, <1>2 DEF ReadTable

LEMMA WritesOne ==
  ASSUME NEW p \in Tables, WriteTable(p), WaveInv
  PROVE  /\ pc = "wave" /\ stage[p] = "running"
         /\ stage' = [stage EXCEPT ![p] = "ok"]
         /\ \E d \in AnnotationDraft, dollars \in 1..MaxCost :
              /\ text' = [text EXCEPT ![plan.tables[p]] = Annotated(hold[plan.tables[p]], d)]
              /\ earned' = earned \cup {[table |-> plan.tables[p],
                                         text |-> Annotated(hold[plan.tables[p]], d)]}
              /\ costs' = [costs EXCEPT ![p] = dollars]
              /\ billed' = billed + dollars
         /\ hold' = [hold EXCEPT ![plan.tables[p]] = NoFile]
         /\ UNCHANGED <<data, live, queue, dev, rest, stamps, base, review, scored, commands,
                        marks, touched, pc, cmd, schema, left, plan, spent, evalCost, drafted,
                        seen, open, events, ledger, wasted>>
<1>1. /\ stage[p] = "running" /\ open' = open
      /\ \E verdict \in {"ok", "failed"} : stage' = [stage EXCEPT ![p] = verdict]
      /\ stage'[p] = "ok"
  BY DEF WriteTable, F!Settle
<1>2. stage' = [stage EXCEPT ![p] = "ok"]
  BY <1>1 DEF WaveInv, F!Positions, Tables
<1>3. QED
  BY <1>1, <1>2 DEF WriteTable, Bill, database, state, bounds

LEMMA FailsOne ==
  ASSUME NEW p \in Tables, FailTable(p), WaveInv
  PROVE  /\ pc = "wave" /\ stage[p] = "running"
         /\ stage' = [stage EXCEPT ![p] = "failed"]
         /\ Happens
         /\ \E dollars \in 0..MaxCost : billed' = billed + dollars /\ wasted' = wasted + dollars
         /\ hold' = [hold EXCEPT ![plan.tables[p]] = NoFile]
         /\ UNCHANGED <<Stays, pc, cmd, schema, left, plan, costs, spent, evalCost, drafted,
                        seen, open, ledger>>
<1>1. /\ stage[p] = "running" /\ open' = open
      /\ \E verdict \in {"ok", "failed"} : stage' = [stage EXCEPT ![p] = verdict]
      /\ stage'[p] = "failed"
  BY DEF FailTable, F!Settle
<1>2. stage' = [stage EXCEPT ![p] = "failed"]
  BY <1>1 DEF WaveInv, F!Positions, Tables
<1>3. QED
  BY <1>1, <1>2 DEF FailTable, Waste, Bill, Stays, database, context, state, hist

LEMMA SkipsOne ==
  ASSUME NEW p \in Tables, SkipTable(p)
  PROVE  /\ pc = "wave" /\ stage[p] = "pending"
         /\ stage' = [stage EXCEPT ![p] = "skipped"]
         /\ UNCHANGED <<Stays, pc, cmd, schema, left, hold, plan, costs, spent, evalCost, drafted,
                        seen, open, events, ledger, billed, wasted>>
BY DEF SkipTable, F!Skip, F!IsNext, F!In, Stays,
   database, context, state, memory, money, bounds, hist

\* An edit replaces one file, and is a mark when nobody holds the file.
Edited(t, k, f, mark) ==
  /\ Happens /\ text[t] # NoFile
  /\ text' = [text EXCEPT ![t] = f]
  /\ marks' = IF hold[t] = NoFile THEN marks \cup {mark} ELSE marks
  /\ touched' = touched \cup (IF StampPending(t) THEN {t} ELSE {})
                        \cup (IF pc \in {"scoring", "stamping"} THEN {WholeProject} ELSE {})
  /\ f \in File /\ Clean(f) /\ Keeps(text[t], f)
  /\ mark \in Marks /\ mark.table = t /\ Respects(mark, f)

LEMMA EditsOne ==
  ASSUME Edits, FilesInv
  PROVE  /\ UNCHANGED <<data, live, queue, dev, rest, stamps, base, review, scored, commands,
                        earned, pc, cmd, schema, left, hold, plan, costs, spent, evalCost,
                        drafted, seen, open, stage, ledger, billed, wasted>>
         /\ \E t \in Tables, k \in Keys, f \in File, mark \in Marks : Edited(t, k, f, mark)
<1>1. PICK t \in Tables, k \in Keys : Describe(t, k) \/ OptOut(t, k)
  BY DEF Edits
<1>2. CASE Describe(t, k)
  <2>1. PICK f, mark : /\ f = [text[t] EXCEPT !.notes[k] = "authored"]
                       /\ mark = [table |-> t, key |-> k, kind |-> "note"]
    OBVIOUS
  <2>2. ByHand(t, f, mark)
    BY <1>2, <2>1 DEF Describe
  <2>3. text[t] \in File /\ Clean(text[t])
    BY <2>2 DEF ByHand, FilesInv
  <2>4. f \in File /\ f.notes = [text[t].notes EXCEPT ![k] = "authored"]
        /\ f.stats = text[t].stats /\ f.off = text[t].off
    BY <2>1, <2>3 DEF File
  <2>5. f.notes[k] = "authored" /\ Clean(f) /\ Keeps(text[t], f)
    BY <2>3, <2>4 DEF File, Clean, Keeps
  <2>6. mark \in Marks /\ mark.table = t /\ Respects(mark, f)
    BY <2>1, <2>5 DEF Marks, Respects
  <2>7. Edited(t, k, f, mark)
    BY <2>2, <2>4, <2>5, <2>6 DEF ByHand, Edited
  <2>8. \E u \in Tables, l \in Keys, g \in File, m \in Marks : Edited(u, l, g, m)
    BY <2>4, <2>6, <2>7
  <2>9. QED
    BY <2>2, <2>8 DEF ByHand, database, state, memory, fanout, money
<1>3. CASE OptOut(t, k)
  <2>1. PICK stats : stats = [c \in Columns |-> IF k \in {c, TableNote} THEN 0
                                                ELSE text[t].stats[c]]
    OBVIOUS
  <2>2. PICK f, mark : /\ f = [text[t] EXCEPT !.off = @ \cup {k}, !.stats = stats]
                       /\ mark = [table |-> t, key |-> k, kind |-> "off"]
    OBVIOUS
  <2>3. ByHand(t, f, mark)
    BY <1>3, <2>1, <2>2 DEF OptOut
  <2>4. text[t] \in File /\ Clean(text[t])
    BY <2>3 DEF ByHand, FilesInv
  <2>5. f.off = text[t].off \cup {k} /\ f.notes = text[t].notes /\ f.stats = stats
    BY <2>2, <2>4 DEF File
  <2>6. stats \in [Columns -> 0..MaxData]
    BY <2>1, <2>4, SemanticsFileAssumption DEF File
  <2>7. f \in File
    BY <2>2, <2>4, <2>6 DEF File
  <2>8. Clean(f)
    <3>1. ASSUME NEW c \in Columns, f.off \cap {c, TableNote} # {}
          PROVE  stats[c] = 0
      <4>1. CASE k \in {c, TableNote}
        BY <2>1, <4>1
      <4>2. CASE k \notin {c, TableNote}
        BY <2>1, <2>4, <2>5, <3>1, <4>2 DEF Clean
      <4>3. QED
        BY <4>1, <4>2
    <3>2. QED
      BY <2>5, <3>1 DEF Clean
  <2>9. Keeps(text[t], f)
    BY <2>5 DEF Keeps
  <2>10. mark \in Marks /\ mark.table = t /\ Respects(mark, f)
    BY <2>2, <2>5 DEF Marks, Respects
  <2>11. Edited(t, k, f, mark)
    BY <2>3, <2>7, <2>8, <2>9, <2>10 DEF ByHand, Edited
  <2>12. \E u \in Tables, l \in Keys, g \in File, m \in Marks : Edited(u, l, g, m)
    BY <2>7, <2>10, <2>11
  <2>13. QED
    BY <2>3, <2>12 DEF ByHand, database, state, memory, fanout, money
<1>4. QED
  BY <1>1, <1>2, <1>3

\* Every step is one of these.
LEMMA NextIs ==
  ASSUME [Next]_vars
  PROVE  \/ Begin \/ Ends \/ Passes \/ UNCHANGED vars
         \/ Introspect \/ Draft \/ LoadForProfiling \/ WriteProfile
         \/ BuildPlan \/ Reselect \/ StartWave \/ EndWave \/ SettleTable
         \/ \E p \in Tables : ReadTable(p) \/ WriteTable(p) \/ FailTable(p) \/ SkipTable(p)
         \/ PickTable \/ AnnotateTable \/ SkipFailedTable \/ MeterTable \/ SaveReview
         \/ Synthesize \/ Queue \/ Seed
         \/ StartEval \/ EndEval \/ StampBaseline \/ Coach
         \/ EditRest \/ MoveData \/ Edits \/ Grows
BY DEF Next, Ends, Passes, FreePass, Planning, Wave, Annotate, Synthesis, Evaluation, People,
   Edits, Grows

\* Steps that change no file of a table, on disk or in memory.
Quiet ==
  \/ Begin \/ Introspect \/ BuildPlan \/ Reselect \/ StartWave \/ EndWave \/ SettleTable
  \/ MeterTable \/ SaveReview \/ Synthesize \/ Queue \/ Seed
  \/ StartEval \/ EndEval \/ StampBaseline \/ Coach \/ EditRest

LEMMA QuietLeave ==
  ASSUME Quiet
  PROVE  UNCHANGED <<data, live, text, hold, marks>>
<1>1. CASE Begin \/ Introspect \/ BuildPlan \/ Reselect \/ StartWave \/ EndWave
  BY <1>1 DEF Begin, Introspect, BuildPlan, Reselect, StartWave, EndWave,
     database, context, memory, hist
<1>2. CASE SettleTable \/ MeterTable \/ SaveReview \/ Synthesize \/ Queue \/ Seed
  BY <1>2 DEF SettleTable, MeterTable, SaveReview, Synthesize, Queue, Seed,
     database, context, memory, hist
<1>3. CASE StartEval \/ EndEval \/ StampBaseline \/ Coach \/ EditRest
  BY <1>3 DEF StartEval, EndEval, StampBaseline, Coach, EditRest,
     database, context, memory, hist
<1>4. QED
  BY <1>1, <1>2, <1>3 DEF Quiet

\* The first of the tables that are left.
LEMMA FirstLeft ==
  ASSUME left \subseteq Tables, left # {}
  PROVE  Min(left) \in left /\ Min(left) \in Tables
<1>1. IsFiniteSet(Tables)
  BY IntervalSize, ProjectInitAssumption DEF Tables
<1>2. PICK S : S = left
  OBVIOUS
<1>3. S \in SUBSET Nat /\ S # {} /\ S \subseteq Tables
  BY <1>2, ProjectInitAssumption DEF Tables
<1>4. IsFiniteSet(S)
  BY <1>1, <1>3, FS_Subset
<1>5. Min(S) \in S
  BY <1>3, <1>4, LeastAndGreatest
<1>6. QED
  BY <1>2, <1>3, <1>5

\* A unit of the wave is a table of the plan.
LEMMA PlannedTable ==
  ASSUME WaveInv, PlanInv, pc \in {"wave", "settling"}, NEW p \in Tables, stage[p] # "absent"
  PROVE  /\ p \in DOMAIN plan.tables /\ plan.tables[p] \in Tables
         /\ text[plan.tables[p]] # NoFile
<1>1. PICK b : b = plan.tables
  OBVIOUS
<1>2. b \in Seq(Tables) /\ p <= Len(b)
  BY <1>1 DEF WaveInv, PlanInv, IsPlan
<1>3. p \in Nat /\ p >= 1
  BY ProjectInitAssumption DEF Tables
<1>4. p \in 1..Len(b) /\ DOMAIN b = 1..Len(b)
  BY <1>2, <1>3
<1>5. b[p] \in Tables
  BY <1>2, <1>4
<1>6. QED
  BY <1>1, <1>4, <1>5 DEF PlanInv, IsPlan

\* A replaced file is still one.
Replaces(t, f) ==
  /\ UNCHANGED <<data, live>>
  /\ text' = [text EXCEPT ![t] = f]
  /\ hold' = hold \/ hold' = [hold EXCEPT ![t] = NoFile]

LEMMA OneFile ==
  ASSUME FilesInv, NEW t \in Tables, NEW f, f \in File \cup {NoFile}, f # NoFile => Clean(f),
         Replaces(t, f)
  PROVE  FilesInv'
BY DEF FilesInv, Replaces

\* A text that is read or dropped is still one.
HoldMoves(t) ==
  /\ UNCHANGED <<data, live, text>>
  /\ \/ hold' = hold
     \/ hold' = [hold EXCEPT ![t] = text[t]]
     \/ hold' = [hold EXCEPT ![t] = NoFile]

LEMMA HoldsOne ==
  ASSUME FilesInv, NEW t \in Tables, HoldMoves(t)
  PROVE  FilesInv'
<1>1. PICK f, g : f = text[t] /\ g = NoFile
  OBVIOUS
<1>2. f \in File \cup {NoFile} /\ (f # NoFile => Clean(f))
  BY <1>1 DEF FilesInv
<1>3. CASE hold' = hold
  BY <1>3 DEF FilesInv, HoldMoves
<1>4. CASE hold' = [hold EXCEPT ![t] = f]
  BY <1>2, <1>4 DEF FilesInv, HoldMoves
<1>5. CASE hold' = [hold EXCEPT ![t] = g]
  BY <1>1, <1>5 DEF FilesInv, HoldMoves
<1>6. QED
  BY <1>1, <1>3, <1>4, <1>5 DEF HoldMoves

LEMMA FilesStep == Inv /\ [Next]_vars => FilesInv'
<1> SUFFICES ASSUME Inv, [Next]_vars PROVE FilesInv'
  OBVIOUS
<1>a. FilesInv /\ WaveInv /\ StepsInv /\ PlanInv /\ LeftInv /\ HoldInv /\ SchemaInv
  BY DEF Inv
<1>b. /\ text \in [Tables -> File \cup {NoFile}] /\ hold \in [Tables -> File \cup {NoFile}]
      /\ left \subseteq Tables /\ data \in 1..MaxData
      /\ \A t \in Tables : /\ text[t] # NoFile => text[t] \in File /\ Clean(text[t])
                           /\ hold[t] # NoFile => hold[t] \in File /\ Clean(hold[t])
  BY <1>a DEF FilesInv, StepsInv
<1>c. \A p \in Tables : stage[p] # "absent" /\ pc = "wave" => plan.tables[p] \in Tables
  BY <1>a, PlannedTable
<1>1. CASE Ends
  BY <1>a, <1>1, EndsLeave DEF Stays, FilesInv
<1>2. CASE Passes
  BY <1>a, <1>2, PassesLeave DEF Stays, FilesInv
<1>3. CASE Quiet \/ UNCHANGED vars
  BY <1>a, <1>3, QuietLeave DEF FilesInv, vars, database, context, memory
<1>4. CASE Draft
  <2>1. PICK t : t = Min(left) /\ t \in left
    BY <1>a, <1>b, <1>4, FirstLeft DEF Draft, LeftInv
  <2>2. PICK f : f = DraftFor(t)
    OBVIOUS
  <2>3. schema[t] \in SUBSET Columns
    BY <1>a, <1>b, <1>4, <2>1 DEF Draft, SchemaInv, Introspected, SchemaOf
  <2>4. f \in File \cup {NoFile} /\ (f # NoFile => Clean(f))
    <3>1. t \in Tables
      BY <1>b, <2>1
    <3>2. f \in {Drafted(schema[t]), Synced(text[t], schema[t]), text[t]}
      BY <2>2 DEF DraftFor
    <3>3. f = Drafted(schema[t]) => f \in File /\ Clean(f)
      BY <2>3, ADraftIsAFile
    <3>4. f = Synced(text[t], schema[t]) /\ text[t] # NoFile => f \in File /\ Clean(f)
      BY <1>b, <2>3, <3>1, SyncIsAFile
    <3>5. text[t] = NoFile => f = Drafted(schema[t])
      BY <2>2 DEF DraftFor
    <3>6. QED
      BY <1>b, <3>1, <3>2, <3>3, <3>4, <3>5
  <2>5. Replaces(t, f)
    BY <1>4, <2>1, <2>2 DEF Draft, database, Replaces
  <2>6. QED
    BY <1>a, <1>b, <2>1, <2>4, <2>5, OneFile
<1>5. CASE LoadForProfiling
  <2>1. PICK t : t = Min(left) /\ t \in left
    BY <1>b, <1>5, FirstLeft DEF LoadForProfiling
  <2>2. HoldMoves(t)
    BY <1>5, <2>1 DEF HoldMoves, LoadForProfiling, database, context
  <2>3. QED
    BY <1>a, <1>b, <2>1, <2>2, HoldsOne
<1>6. CASE WriteProfile
  <2>1. PICK t : t = Min(left) /\ t \in left
    BY <1>b, <1>6, FirstLeft DEF WriteProfile
  <2>2. PICK f : f = Profiled(hold[t], data)
    OBVIOUS
  <2>3. f \in File /\ Clean(f)
    BY <1>b, <1>6, <2>1, <2>2, AProfileIsAFile DEF WriteProfile
  <2>4. Replaces(t, f)
    BY <1>6, <2>1, <2>2 DEF WriteProfile, database, Replaces
  <2>5. QED
    BY <1>a, <1>b, <2>1, <2>3, <2>4, OneFile
<1>7. ASSUME NEW p \in Tables, ReadTable(p)
      PROVE  FilesInv'
  <2>1. plan.tables[p] \in Tables
    BY <1>c, <1>7, ReadsOne
  <2>2. PICK t : t = plan.tables[p]
    OBVIOUS
  <2>3. HoldMoves(t)
    BY <1>7, <2>2, ReadsOne DEF HoldMoves, Stays
  <2>4. QED
    BY <1>a, <2>1, <2>2, <2>3, HoldsOne
<1>8. ASSUME NEW p \in Tables, WriteTable(p)
      PROVE  FilesInv'
  <2>1. plan.tables[p] \in Tables /\ hold[plan.tables[p]] # NoFile
    BY <1>a, <1>c, <1>8, WritesOne DEF HoldInv
  <2>2. PICK t : t = plan.tables[p]
    OBVIOUS
  <2>3. PICK d \in AnnotationDraft : text' = [text EXCEPT ![t] = Annotated(hold[t], d)]
    BY <1>a, <1>8, <2>2, WritesOne
  <2>4. PICK f : f = Annotated(hold[t], d)
    OBVIOUS
  <2>5. f \in File /\ Clean(f)
    BY <1>b, <2>1, <2>2, <2>4, AnAnnotationIsAFile
  <2>6. Replaces(t, f)
    BY <1>a, <1>8, <2>2, <2>3, <2>4, WritesOne DEF Replaces
  <2>7. QED
    BY <1>a, <2>1, <2>2, <2>5, <2>6, OneFile
<1>9. ASSUME NEW p \in Tables, FailTable(p) \/ SkipTable(p)
      PROVE  FilesInv'
  <2>1. plan.tables[p] \in Tables
    BY <1>a, <1>c, <1>9, FailsOne, SkipsOne
  <2>2. HoldMoves(plan.tables[p])
    BY <1>a, <1>9, FailsOne, SkipsOne DEF HoldMoves, Stays
  <2>3. QED
    BY <1>a, <2>1, <2>2, HoldsOne
<1>10. CASE PickTable
  <2>1. PICK t : t = Min(left) /\ t \in left
    BY <1>b, <1>10, FirstLeft DEF PickTable
  <2>2. HoldMoves(t)
    BY <1>10, <2>1 DEF HoldMoves, PickTable, database, context
  <2>3. QED
    BY <1>a, <1>b, <2>1, <2>2, HoldsOne
<1>11. CASE AnnotateTable
  <2>1. PICK t : t = Min(left) /\ t \in left /\ hold[t] # NoFile
    BY <1>a, <1>b, <1>11, FirstLeft DEF AnnotateTable, LeftInv, HoldInv
  <2>2. PICK d \in AnnotationDraft :
           /\ text' = [text EXCEPT ![t] = Annotated(hold[t], d)]
           /\ hold' = [hold EXCEPT ![t] = NoFile]
    BY <1>11, <2>1 DEF AnnotateTable
  <2>3. PICK f : f = Annotated(hold[t], d)
    OBVIOUS
  <2>4. f \in File /\ Clean(f)
    BY <1>b, <2>1, <2>3, AnAnnotationIsAFile
  <2>5. Replaces(t, f)
    BY <1>11, <2>2, <2>3 DEF AnnotateTable, database, Replaces
  <2>6. QED
    BY <1>a, <1>b, <2>1, <2>4, <2>5, OneFile
<1>12. CASE SkipFailedTable
  <2>1. PICK t : t = Min(left) /\ t \in left
    BY <1>a, <1>b, <1>12, FirstLeft DEF SkipFailedTable, LeftInv
  <2>2. HoldMoves(t)
    BY <1>12, <2>1 DEF HoldMoves, SkipFailedTable, database, context
  <2>3. QED
    BY <1>a, <1>b, <2>1, <2>2, HoldsOne
<1>13. CASE MoveData
  BY <1>a, <1>13, SemanticsFileAssumption DEF MoveData, FilesInv, context, memory
<1>14. CASE Edits
  <2>1. PICK t \in Tables, k \in Keys, f \in File, mark \in Marks : Edited(t, k, f, mark)
    BY <1>a, <1>14, EditsOne
  <2>2. Replaces(t, f)
    BY <1>a, <1>14, <2>1, EditsOne DEF Edited, Replaces
  <2>3. QED
    BY <1>a, <2>1, <2>2, OneFile DEF Edited
<1>15. CASE Grows
  <2>1. PICK t \in Tables, c \in Columns : AddColumn(t, c)
    BY <1>15 DEF Grows
  <2>2. live' = [live EXCEPT ![t] = live[t] \cup {c}] /\ UNCHANGED <<data, text, hold>>
    BY <2>1 DEF AddColumn, context, memory
  <2>3. QED
    BY <1>a, <2>2 DEF FilesInv
<1>16. QED
  BY <1>1, <1>2, <1>3, <1>4, <1>5, <1>6, <1>7, <1>8, <1>9, <1>10, <1>11, <1>12, <1>13, <1>14,
     <1>15, NextIs DEF Quiet

-----------------------------------------------------------------------------
(* Marks                                                                   *)

\* A draft is a file; but for --force it keeps what was in the file.
LEMMA DraftsOne ==
  ASSUME Draft, FilesInv, StepsInv, LeftInv, SchemaInv
  PROVE  \E t \in left :
           /\ t = Min(left) /\ t \in Tables
           /\ text' = [text EXCEPT ![t] = DraftFor(t)]
           /\ Replaces(t, DraftFor(t))
           /\ DraftFor(t) \in File /\ DraftFor(t) # NoFile
           /\ text[t] # NoFile /\ ~(cmd.kind = "introspect" /\ cmd.mode = "force") =>
                Keeps(text[t], DraftFor(t))
<1>1. PICK t : t = Min(left) /\ t \in left /\ t \in Tables
  BY FirstLeft DEF Draft, LeftInv, StepsInv
<1>2. PICK f : f = DraftFor(t)
  OBVIOUS
<1>3. schema[t] \in SUBSET Columns
  BY <1>1 DEF Draft, SchemaInv, Introspected, SchemaOf
<1>4. f \in {Drafted(schema[t]), Synced(text[t], schema[t]), text[t]}
  BY <1>2 DEF DraftFor
<1>5. text[t] = NoFile => f = Drafted(schema[t])
  BY <1>2 DEF DraftFor
<1>6. text[t] # NoFile => text[t] \in File /\ Clean(text[t]) /\ Keeps(text[t], text[t])
  BY <1>1 DEF FilesInv, Keeps
<1>7. Drafted(schema[t]) \in File
  BY <1>3, ADraftIsAFile
<1>8. text[t] # NoFile =>
        /\ Synced(text[t], schema[t]) \in File
        /\ Keeps(text[t], Synced(text[t], schema[t]))
  BY <1>3, <1>6, SyncIsAFile
<1>9. f \in File
  BY <1>4, <1>5, <1>6, <1>7, <1>8
<1>10. text[t] # NoFile /\ ~(cmd.kind = "introspect" /\ cmd.mode = "force") => Keeps(text[t], f)
  BY <1>2, <1>6, <1>8 DEF DraftFor
<1>11. Replaces(t, f) /\ text' = [text EXCEPT ![t] = f]
  BY <1>1, <1>2 DEF Draft, database, Replaces
<1>12. QED
  BY <1>1, <1>2, <1>9, <1>10, <1>11, NoFileIsNoFile

\* What keeps a text keeps what a person wrote into it.
LEMMA KeepsIsRespect ==
  ASSUME NEW f, NEW g, Keeps(f, g), NEW m \in Marks, Respects(m, f)
  PROVE  Respects(m, g)
BY DEF Keeps, Respects, Marks

LEMMA MarksSurvive ==
  ASSUME FilesInv, MarksInv, NEW t \in Tables, NEW f, f # NoFile, Replaces(t, f),
         marks' \subseteq marks, \A m \in marks' : m.table = t => Respects(m, f)
  PROVE  MarksInv'
<1>1. ASSUME NEW m \in marks'
      PROVE  /\ text'[m.table] # NoFile /\ Respects(m, text'[m.table])
             /\ hold'[m.table] # NoFile => Respects(m, hold'[m.table])
  <2>1. m \in Marks /\ m \in marks /\ m.table \in Tables
    BY DEF MarksInv, Marks
  <2>2. text'[m.table] # NoFile /\ Respects(m, text'[m.table])
    BY <2>1 DEF MarksInv, FilesInv, Replaces
  <2>3. hold'[m.table] # NoFile => hold'[m.table] = hold[m.table]
    <3>1. CASE hold' = hold
      BY <3>1
    <3>2. PICK g : g = NoFile
      OBVIOUS
    <3>3. CASE hold' = [hold EXCEPT ![t] = g]
      BY <2>1, <3>2, <3>3 DEF FilesInv
    <3>4. QED
      BY <3>1, <3>2, <3>3 DEF Replaces
  <2>4. QED
    BY <2>1, <2>2, <2>3 DEF MarksInv
<1>2. QED
  BY <1>1 DEF MarksInv, Respects

LEMMA MarksHeld ==
  ASSUME FilesInv, MarksInv, NEW t \in Tables, HoldMoves(t), UNCHANGED marks
  PROVE  MarksInv'
<1>1. ASSUME NEW m \in marks
      PROVE  hold'[m.table] # NoFile => Respects(m, hold'[m.table])
  <2>1. m \in Marks /\ m.table \in Tables
    BY DEF MarksInv, Marks
  <2>2. PICK f, g : f = text[t] /\ g = NoFile
    OBVIOUS
  <2>3. CASE hold' = hold
    BY <2>3 DEF MarksInv
  <2>4. CASE hold' = [hold EXCEPT ![t] = f]
    BY <2>1, <2>2, <2>4 DEF MarksInv, FilesInv
  <2>5. CASE hold' = [hold EXCEPT ![t] = g]
    BY <2>1, <2>2, <2>5 DEF MarksInv, FilesInv
  <2>6. QED
    BY <2>2, <2>3, <2>4, <2>5 DEF HoldMoves
<1>2. QED
  BY <1>1 DEF MarksInv, HoldMoves, Respects

LEMMA MarksStep == Inv /\ [Next]_vars => MarksInv'
<1> SUFFICES ASSUME Inv, [Next]_vars PROVE MarksInv'
  OBVIOUS
<1>a. /\ FilesInv /\ MarksInv /\ WaveInv /\ StepsInv /\ PlanInv /\ LeftInv /\ HoldInv
      /\ SchemaInv
  BY DEF Inv
<1>b. /\ left \subseteq Tables /\ data \in 1..MaxData
      /\ \A t \in Tables : /\ text[t] # NoFile => text[t] \in File /\ Clean(text[t])
                           /\ hold[t] # NoFile => hold[t] \in File /\ Clean(hold[t])
  BY <1>a DEF FilesInv, StepsInv
<1>c. \A p \in Tables : stage[p] # "absent" /\ pc = "wave" => plan.tables[p] \in Tables
  BY <1>a, PlannedTable
<1>d. \A m \in marks : /\ m \in Marks /\ m.table \in Tables
                       /\ text[m.table] # NoFile /\ Respects(m, text[m.table])
                       /\ hold[m.table] # NoFile => Respects(m, hold[m.table])
  BY <1>a DEF MarksInv, Marks
<1>1. CASE Ends
  BY <1>a, <1>1, <1>d, EndsLeave DEF Stays, MarksInv, Respects
<1>2. CASE Passes
  BY <1>a, <1>2, PassesLeave DEF Stays, MarksInv, Respects
<1>3. CASE Quiet \/ UNCHANGED vars \/ MoveData \/ Grows
  <2>1. UNCHANGED <<text, hold, marks>>
    BY <1>3, QuietLeave DEF vars, context, memory, hist, MoveData, Grows, AddColumn
  <2>2. QED
    BY <1>a, <2>1 DEF MarksInv, Respects
<1>4. CASE Draft
  <2>1. PICK t \in left :
          /\ t \in Tables /\ t = Min(left)
          /\ Replaces(t, DraftFor(t))
          /\ DraftFor(t) # NoFile
          /\ text[t] # NoFile /\ ~(cmd.kind = "introspect" /\ cmd.mode = "force") =>
               Keeps(text[t], DraftFor(t))
    BY <1>a, <1>4, DraftsOne
  <2>2. marks' \subseteq marks
    BY <1>4 DEF Draft
  <2>3. ASSUME NEW m \in marks', m.table = t
        PROVE  Respects(m, DraftFor(t))
    <3>1. ~(cmd.kind = "introspect" /\ cmd.mode = "force")
      BY <1>4, <2>1, <2>3 DEF Draft
    <3>2. m \in Marks /\ text[t] # NoFile /\ Respects(m, text[t])
      BY <1>d, <2>2, <2>3
    <3>3. QED
      BY <2>1, <3>1, <3>2, KeepsIsRespect
  <2>4. PICK f : f = DraftFor(t)
    OBVIOUS
  <2>5. QED
    BY <1>a, <2>1, <2>2, <2>3, <2>4, MarksSurvive
<1>5. CASE LoadForProfiling
  <2>1. PICK t : t = Min(left) /\ t \in left
    BY <1>b, <1>5, FirstLeft DEF LoadForProfiling
  <2>2. HoldMoves(t) /\ UNCHANGED marks
    BY <1>5, <2>1 DEF HoldMoves, LoadForProfiling, database, context, hist
  <2>3. QED
    BY <1>a, <1>b, <2>1, <2>2, MarksHeld
<1>6. CASE WriteProfile
  <2>1. PICK t : t = Min(left) /\ t \in left /\ t \in Tables /\ hold[t] # NoFile
    BY <1>b, <1>6, FirstLeft DEF WriteProfile
  <2>2. PICK f : f = Profiled(hold[t], data)
    OBVIOUS
  <2>3. f \in File /\ Keeps(hold[t], f)
    BY <1>b, <2>1, <2>2, AProfileIsAFile
  <2>4. Replaces(t, f) /\ UNCHANGED marks
    BY <1>6, <2>1, <2>2 DEF WriteProfile, database, hist, Replaces
  <2>5. ASSUME NEW m \in marks, m.table = t
        PROVE  Respects(m, f)
    BY <1>d, <2>1, <2>3, <2>5, KeepsIsRespect
  <2>6. QED
    BY <1>a, <2>1, <2>3, <2>4, <2>5, MarksSurvive, NoFileIsNoFile
<1>7. ASSUME NEW p \in Tables, ReadTable(p)
      PROVE  MarksInv'
  <2>1. plan.tables[p] \in Tables
    BY <1>c, <1>7, ReadsOne
  <2>2. PICK t : t = plan.tables[p]
    OBVIOUS
  <2>3. HoldMoves(t) /\ UNCHANGED marks
    BY <1>7, <2>2, ReadsOne DEF HoldMoves, Stays
  <2>4. QED
    BY <1>a, <2>1, <2>2, <2>3, MarksHeld
<1>8. ASSUME NEW p \in Tables, WriteTable(p)
      PROVE  MarksInv'
  <2>1. plan.tables[p] \in Tables /\ hold[plan.tables[p]] # NoFile
    BY <1>a, <1>c, <1>8, WritesOne DEF HoldInv
  <2>2. PICK t : t = plan.tables[p]
    OBVIOUS
  <2>3. PICK d \in AnnotationDraft : text' = [text EXCEPT ![t] = Annotated(hold[t], d)]
    BY <1>a, <1>8, <2>2, WritesOne
  <2>4. PICK f : f = Annotated(hold[t], d)
    OBVIOUS
  <2>5. f \in File /\ Keeps(hold[t], f)
    BY <1>b, <2>1, <2>2, <2>4, AnAnnotationIsAFile
  <2>6. Replaces(t, f) /\ UNCHANGED marks
    BY <1>a, <1>8, <2>2, <2>3, <2>4, WritesOne DEF Replaces
  <2>7. ASSUME NEW m \in marks, m.table = t
        PROVE  Respects(m, f)
    BY <1>d, <2>1, <2>2, <2>5, <2>7, KeepsIsRespect
  <2>8. QED
    BY <1>a, <2>1, <2>2, <2>5, <2>6, <2>7, MarksSurvive, NoFileIsNoFile
<1>9. ASSUME NEW p \in Tables, FailTable(p) \/ SkipTable(p)
      PROVE  MarksInv'
  <2>1. plan.tables[p] \in Tables
    BY <1>a, <1>c, <1>9, FailsOne, SkipsOne
  <2>2. HoldMoves(plan.tables[p]) /\ UNCHANGED marks
    BY <1>a, <1>9, FailsOne, SkipsOne DEF HoldMoves, Stays
  <2>3. QED
    BY <1>a, <2>1, <2>2, MarksHeld
<1>10. CASE PickTable
  <2>1. PICK t : t = Min(left) /\ t \in left
    BY <1>b, <1>10, FirstLeft DEF PickTable
  <2>2. HoldMoves(t) /\ UNCHANGED marks
    BY <1>10, <2>1 DEF HoldMoves, PickTable, database, context, hist
  <2>3. QED
    BY <1>a, <1>b, <2>1, <2>2, MarksHeld
<1>11. CASE AnnotateTable
  <2>1. PICK t : t = Min(left) /\ t \in left /\ t \in Tables /\ hold[t] # NoFile
    BY <1>a, <1>b, <1>11, FirstLeft DEF AnnotateTable, LeftInv, HoldInv
  <2>2. PICK d \in AnnotationDraft :
           /\ text' = [text EXCEPT ![t] = Annotated(hold[t], d)]
           /\ hold' = [hold EXCEPT ![t] = NoFile]
    BY <1>11, <2>1 DEF AnnotateTable
  <2>3. PICK f : f = Annotated(hold[t], d)
    OBVIOUS
  <2>4. f \in File /\ Keeps(hold[t], f)
    BY <1>b, <2>1, <2>3, AnAnnotationIsAFile
  <2>5. Replaces(t, f) /\ UNCHANGED marks
    BY <1>11, <2>2, <2>3 DEF AnnotateTable, database, hist, Replaces
  <2>6. ASSUME NEW m \in marks, m.table = t
        PROVE  Respects(m, f)
    BY <1>d, <2>1, <2>4, <2>6, KeepsIsRespect
  <2>7. QED
    BY <1>a, <2>1, <2>4, <2>5, <2>6, MarksSurvive, NoFileIsNoFile
<1>12. CASE SkipFailedTable
  <2>1. PICK t : t = Min(left) /\ t \in left
    BY <1>a, <1>b, <1>12, FirstLeft DEF SkipFailedTable, LeftInv
  <2>2. HoldMoves(t) /\ UNCHANGED marks
    BY <1>12, <2>1 DEF HoldMoves, SkipFailedTable, database, context, hist
  <2>3. QED
    BY <1>a, <1>b, <2>1, <2>2, MarksHeld
<1>13. CASE Edits
  <2>1. PICK t \in Tables, k \in Keys, f \in File, mark \in Marks : Edited(t, k, f, mark)
    BY <1>a, <1>13, EditsOne
  <2>2. /\ UNCHANGED hold /\ text' = [text EXCEPT ![t] = f]
        /\ f # NoFile /\ Keeps(text[t], f)
        /\ mark \in Marks /\ mark.table = t /\ Respects(mark, f)
        /\ marks' = IF hold[t] = NoFile THEN marks \cup {mark} ELSE marks
    BY <1>a, <1>13, <2>1, EditsOne, NoFileIsNoFile DEF Edited
  <2>3. ASSUME NEW m \in marks
        PROVE  text'[m.table] # NoFile /\ Respects(m, text'[m.table])
    <3>1. CASE m.table = t
      BY <1>a, <1>d, <2>2, <3>1, KeepsIsRespect DEF FilesInv
    <3>2. CASE m.table # t
      BY <1>a, <1>d, <2>2, <3>2 DEF FilesInv
    <3>3. QED
      BY <3>1, <3>2
  <2>4. ASSUME NEW m \in marks'
        PROVE  /\ m \in Marks /\ text'[m.table] # NoFile /\ Respects(m, text'[m.table])
               /\ hold'[m.table] # NoFile => Respects(m, hold'[m.table])
    <3>1. CASE m \in marks
      BY <1>d, <2>2, <2>3, <3>1
    <3>2. CASE m \notin marks
      BY <1>a, <2>2, <3>2 DEF FilesInv
    <3>3. QED
      BY <3>1, <3>2
  <2>5. QED
    BY <2>4 DEF MarksInv, Respects
<1>14. QED
  BY <1>1, <1>2, <1>3, <1>4, <1>5, <1>6, <1>7, <1>8, <1>9, <1>10, <1>11, <1>12, <1>13, NextIs
     DEF Quiet

-----------------------------------------------------------------------------
(* Where the command stands                                                *)

LEMMA StepsStep == Inv /\ [Next]_vars => StepsInv'
<1> SUFFICES ASSUME Inv, [Next]_vars PROVE StepsInv'
  OBVIOUS
<1>a. /\ pc \in Steps /\ (pc # "idle" => cmd \in Commands)
      /\ pc = "idle" => plan = NoPlan /\ seen = << >>
      /\ left \subseteq Tables
      /\ open = (pc = "wave")
  BY DEF Inv, StepsInv
<1>b. WaveInv
  BY DEF Inv
<1> USE DEF StepsInv, Goto, Steps
<1>1. CASE Ends
  BY <1>1, EndsLeave
<1>2. CASE Passes
  BY <1>a, <1>2, PassesLeave
<1>3. CASE UNCHANGED vars \/ MoveData \/ Grows \/ EditRest \/ Edits
  <2>1. UNCHANGED <<pc, cmd, plan, seen, left, open>>
    <3>1. CASE Edits
      BY <3>1, EditsOne DEF Inv
    <3>2. CASE UNCHANGED vars \/ MoveData \/ Grows \/ EditRest
      BY <3>2 DEF vars, memory, fanout, MoveData, Grows, AddColumn, EditRest
    <3>3. QED
      BY <1>3, <3>1, <3>2
  <2>2. QED
    BY <1>a, <2>1
<1>4. CASE Begin
  BY <1>a, <1>4 DEF Begin, fanout
<1>5. CASE Introspect \/ LoadForProfiling \/ WriteProfile \/ BuildPlan \/ Reselect
  BY <1>a, <1>5 DEF Introspect, LoadForProfiling, WriteProfile, BuildPlan, Reselect, fanout
<1>6. CASE Draft
  BY <1>a, <1>6 DEF Draft, fanout
<1>7. CASE StartWave \/ EndWave
  BY <1>a, <1>7 DEF StartWave, EndWave, F!Begin, F!End, F!In, F!Positions, Tables, memory
<1>8. ASSUME NEW p \in Tables, ReadTable(p) \/ WriteTable(p) \/ FailTable(p) \/ SkipTable(p)
      PROVE  StepsInv'
  BY <1>a, <1>b, <1>8, ReadsOne, WritesOne, FailsOne, SkipsOne
<1>9. CASE SettleTable \/ PickTable \/ AnnotateTable \/ SkipFailedTable \/ MeterTable
           \/ SaveReview
  BY <1>a, <1>9 DEF SettleTable, PickTable, AnnotateTable, SkipFailedTable, MeterTable,
     SaveReview, fanout, memory
<1>10. CASE Synthesize \/ Queue \/ Seed
  BY <1>a, <1>10 DEF Synthesize, Queue, Seed, fanout, memory
<1>11. CASE StartEval \/ EndEval \/ StampBaseline \/ Coach
  BY <1>a, <1>11 DEF StartEval, EndEval, StampBaseline, Coach, fanout, memory
<1>12. QED
  BY <1>1, <1>2, <1>3, <1>4, <1>5, <1>6, <1>7, <1>8, <1>9, <1>10, <1>11, NextIs

-----------------------------------------------------------------------------
(* Bounds                                                                  *)

LEMMA BoundsStep == Inv /\ [Next]_vars => BoundsInv'
<1> SUFFICES ASSUME Inv, [Next]_vars PROVE BoundsInv'
  OBVIOUS
<1>a. /\ rest \in Nat /\ rest <= events
      /\ events \in 0..MaxEvents /\ commands \in 0..MaxCommands
      /\ touched \subseteq Tables \cup {WholeProject}
  BY DEF Inv, BoundsInv
<1>b. FilesInv /\ WaveInv
  BY DEF Inv
<1>c. MaxEvents \in Nat /\ MaxCommands \in Nat
  BY ProjectInitAssumption
<1>d. Happens => events' \in 0..MaxEvents /\ events' = events + 1
  BY <1>a, <1>c DEF Happens
<1>1. CASE Ends
  BY <1>a, <1>d, <1>1, EndsLeave DEF Stays, BoundsInv
<1>2. CASE Passes
  BY <1>a, <1>2, PassesLeave DEF Stays, BoundsInv
<1>3. CASE Begin
  BY <1>a, <1>c, <1>3 DEF Begin, BoundsInv, context, hist
<1>4. CASE Introspect \/ Draft \/ LoadForProfiling \/ WriteProfile \/ BuildPlan \/ Reselect
           \/ UNCHANGED vars
  BY <1>a, <1>4 DEF Introspect, Draft, LoadForProfiling, WriteProfile, BuildPlan, Reselect,
     vars, context, bounds, hist, BoundsInv
<1>5. CASE StartWave \/ EndWave \/ SettleTable \/ PickTable \/ AnnotateTable \/ MeterTable
           \/ SaveReview
  BY <1>a, <1>5 DEF StartWave, EndWave, SettleTable, PickTable, AnnotateTable, MeterTable,
     SaveReview, context, bounds, hist, BoundsInv
<1>6. ASSUME NEW p \in Tables, ReadTable(p) \/ WriteTable(p) \/ FailTable(p) \/ SkipTable(p)
      PROVE  BoundsInv'
  BY <1>a, <1>b, <1>d, <1>6, ReadsOne, WritesOne, FailsOne, SkipsOne DEF Stays, BoundsInv
<1>7. CASE SkipFailedTable
  BY <1>a, <1>d, <1>7 DEF SkipFailedTable, Waste, context, hist, BoundsInv
<1>8. CASE Synthesize \/ Queue \/ Seed
  BY <1>a, <1>8 DEF Synthesize, Queue, Seed, context, bounds, hist, BoundsInv
<1>9. CASE StartEval \/ EndEval \/ StampBaseline \/ Coach
  BY <1>a, <1>9 DEF StartEval, EndEval, StampBaseline, Coach, context, bounds, hist, BoundsInv
<1>10. CASE EditRest
  BY <1>a, <1>d, <1>10 DEF EditRest, BoundsInv
<1>11. CASE MoveData \/ Grows
  BY <1>a, <1>d, <1>11 DEF MoveData, Grows, AddColumn, context, hist, BoundsInv
<1>12. CASE Edits
  BY <1>a, <1>b, <1>d, <1>12, EditsOne DEF Edited, BoundsInv
<1>13. QED
  BY <1>1, <1>2, <1>3, <1>4, <1>5, <1>6, <1>7, <1>8, <1>9, <1>10, <1>11, <1>12, NextIs

-----------------------------------------------------------------------------
(* Questions                                                               *)

LEMMA QuestionsStep == Inv /\ [Next]_vars => QuestionsInv'
<1> SUFFICES ASSUME Inv, [Next]_vars PROVE QuestionsInv'
  OBVIOUS
<1>a. QuestionsInv /\ FilesInv /\ WaveInv /\ StepsInv /\ LeftInv
  BY DEF Inv
<1>b. /\ queue \subseteq Questions /\ IsFiniteSet(queue)
      /\ dev \subseteq Questions /\ IsFiniteSet(dev)
      /\ review \subseteq Tables \X Keys
      /\ pc = "idle" => drafted = {}
      /\ pc \in {"picking", "asking", "metering", "saving"} => drafted \subseteq Tables \X Keys
      /\ pc \in {"queueing", "seeding"} => drafted \subseteq Questions /\ IsFiniteSet(drafted)
      /\ pc = "queueing" => Ids(drafted) \cap Ids(queue) = {}
  BY <1>a DEF QuestionsInv
<1>1. CASE Ends
  BY <1>b, <1>1, EndsLeave DEF Stays, QuestionsInv
<1>2. CASE Passes
  BY <1>b, <1>2, PassesLeave DEF Stays, QuestionsInv
<1>3. CASE Begin
  BY <1>b, <1>3 DEF Begin, context, state, QuestionsInv
<1>4. CASE Introspect \/ Draft \/ LoadForProfiling \/ WriteProfile \/ BuildPlan \/ Reselect
           \/ UNCHANGED vars
  <2>1. /\ UNCHANGED <<queue, dev, review, drafted>>
        /\ pc' \in {pc, "drafting", "profiling", "reporting", "annotating", "confirming"}
    BY <1>4 DEF Introspect, Draft, LoadForProfiling, WriteProfile, BuildPlan, Reselect, Goto,
       vars, context, state, memory
  <2>2. QED
    BY <1>b, <2>1 DEF QuestionsInv, Ids
<1>5. CASE StartWave \/ EndWave \/ SettleTable \/ PickTable \/ MeterTable
  BY <1>b, <1>5 DEF StartWave, EndWave, SettleTable, PickTable, MeterTable, Goto,
     context, state, memory, QuestionsInv
<1>6. ASSUME NEW p \in Tables, ReadTable(p) \/ WriteTable(p) \/ FailTable(p) \/ SkipTable(p)
      PROVE  QuestionsInv'
  BY <1>a, <1>b, <1>6, ReadsOne, WritesOne, FailsOne, SkipsOne DEF Stays, QuestionsInv
<1>7. CASE AnnotateTable
  <2>1. PICK t : t = Min(left) /\ t \in Tables
    BY <1>a, <1>7, FirstLeft DEF AnnotateTable, LeftInv, StepsInv
  <2>2. PICK d \in AnnotationDraft : drafted' = drafted \cup ({t} \X Withheld(hold[t], d))
    BY <1>7, <2>1 DEF AnnotateTable
  <2>3. {t} \X Withheld(hold[t], d) \subseteq Tables \X Keys
    BY <2>1 DEF Withheld
  <2>4. QED
    BY <1>b, <1>7, <2>2, <2>3 DEF AnnotateTable, Goto, state, QuestionsInv
<1>8. CASE SkipFailedTable
  BY <1>b, <1>8 DEF SkipFailedTable, Goto, context, state, QuestionsInv
<1>9. CASE SaveReview
  BY <1>b, <1>9 DEF SaveReview, Goto, context, memory, QuestionsInv
<1>10. CASE Synthesize
  <2>1. PICK n \in 0..MaxSurvivors : drafted' = Survivors(n)
    BY <1>10 DEF Synthesize
  <2>2. n \in Nat
    BY ProjectInitAssumption
  <2>3. /\ drafted' \subseteq Questions /\ IsFiniteSet(drafted')
        /\ Ids(drafted') \cap Ids(queue) = {}
    BY <1>b, <2>1, <2>2, SurvivorsAreNew
  <2>4. QED
    BY <1>b, <1>10, <2>3 DEF Synthesize, Goto, context, state, QuestionsInv, Ids
<1>11. CASE Queue
  <2>1. PICK old : old = {x \in queue : x.id \notin Ids(drafted)} /\ old \subseteq queue
    OBVIOUS
  <2>2. queue' = old \cup drafted
    BY <1>11, <2>1 DEF Queue
  <2>3. IsFiniteSet(old \cup drafted)
    BY <1>b, <1>11, <2>1, FS_Subset, FS_Union DEF Queue
  <2>4. QED
    BY <1>b, <1>11, <2>1, <2>2, <2>3 DEF Queue, Goto, context, state, QuestionsInv
<1>12. CASE Seed
  <2>1. PICK new : new = {x \in drafted : x.id \notin Ids(dev)} /\ new \subseteq drafted
    OBVIOUS
  <2>2. dev' = dev \cup new
    BY <1>12, <2>1 DEF Seed
  <2>3. IsFiniteSet(dev \cup new)
    BY <1>b, <1>12, <2>1, FS_Subset, FS_Union DEF Seed
  <2>4. QED
    BY <1>b, <1>12, <2>1, <2>2, <2>3 DEF Seed, Goto, state, QuestionsInv
<1>13. CASE StartEval \/ EndEval \/ StampBaseline \/ Coach
  BY <1>b, <1>13 DEF StartEval, EndEval, StampBaseline, Coach, Goto, context, state, memory,
     QuestionsInv
<1>14. CASE EditRest
  <2>1. PICK written : written \in {{}, {[id |-> 0, q |-> 0]}} /\ dev' = dev \cup written
    BY <1>14 DEF EditRest
  <2>2. IsFiniteSet(dev') /\ dev' \subseteq Questions
    <3>1. IsFiniteSet(written)
      <4>1. CASE written = {}
        BY <4>1, FS_EmptySet
      <4>2. CASE written # {}
        <5>1. PICK x : written = {x}
          BY <2>1, <4>2
        <5>2. QED
          BY <5>1, FS_Singleton
      <4>3. QED
        BY <4>1, <4>2
    <3>2. written \subseteq Questions
      BY <2>1 DEF Questions
    <3>3. QED
      BY <1>b, <2>1, <3>1, <3>2, FS_Union
  <2>3. UNCHANGED <<queue, review, drafted, pc>>
    BY <1>14 DEF EditRest, state, memory
  <2>4. QED
    BY <1>b, <2>2, <2>3 DEF QuestionsInv, Ids
<1>15. CASE MoveData \/ Grows \/ Edits
  <2>1. UNCHANGED <<queue, dev, review, drafted, pc>>
    <3>1. CASE Edits
      BY <1>a, <3>1, EditsOne
    <3>2. CASE MoveData \/ Grows
      BY <3>2 DEF MoveData, Grows, AddColumn, context, state, memory
    <3>3. QED
      BY <1>15, <3>1, <3>2
  <2>2. QED
    BY <1>b, <2>1 DEF QuestionsInv, Ids
<1>16. QED
  BY <1>1, <1>2, <1>3, <1>4, <1>5, <1>6, <1>7, <1>8, <1>9, <1>10, <1>11, <1>12, <1>13, <1>14,
     <1>15, NextIs

-----------------------------------------------------------------------------
(* The plan                                                                *)

\* No command deletes a file.
Remain == \A t \in Tables : text[t] # NoFile => text'[t] # NoFile

LEMMA FilesRemain == Inv /\ [Next]_vars => Remain
<1> SUFFICES ASSUME Inv, [Next]_vars PROVE Remain
  OBVIOUS
<1>a. /\ FilesInv /\ WaveInv /\ StepsInv /\ PlanInv /\ LeftInv /\ HoldInv /\ SchemaInv
      /\ left \subseteq Tables /\ data \in 1..MaxData
      /\ \A t \in Tables : hold[t] # NoFile => hold[t] \in File /\ Clean(hold[t])
  BY DEF Inv, FilesInv, StepsInv
<1>b. ASSUME NEW t \in Tables, NEW f, f # NoFile, text' = [text EXCEPT ![t] = f]
      PROVE  Remain
  BY <1>a, <1>b DEF Remain, FilesInv
<1>1. CASE UNCHANGED text
  BY <1>1 DEF Remain
<1>2. CASE Draft
  <2>1. PICK t \in left : /\ t \in Tables /\ DraftFor(t) # NoFile
                          /\ text' = [text EXCEPT ![t] = DraftFor(t)]
    BY <1>a, <1>2, DraftsOne
  <2>2. QED
    BY <1>b, <2>1
<1>3. CASE WriteProfile
  <2>1. PICK t : t = Min(left) /\ t \in Tables /\ hold[t] # NoFile
    BY <1>a, <1>3, FirstLeft DEF WriteProfile
  <2>2. PICK f : f = Profiled(hold[t], data) /\ f # NoFile
    BY <1>a, <2>1, AProfileIsAFile, NoFileIsNoFile
  <2>3. text' = [text EXCEPT ![t] = f]
    BY <1>3, <2>1, <2>2 DEF WriteProfile
  <2>4. QED
    BY <1>b, <2>1, <2>2, <2>3
<1>4. ASSUME NEW p \in Tables, WriteTable(p)
      PROVE  Remain
  <2>1. PICK t : t = plan.tables[p] /\ t \in Tables /\ hold[t] # NoFile
    BY <1>a, <1>4, WritesOne, PlannedTable DEF HoldInv
  <2>2. PICK d \in AnnotationDraft : text' = [text EXCEPT ![t] = Annotated(hold[t], d)]
    BY <1>a, <1>4, <2>1, WritesOne
  <2>3. PICK f : f = Annotated(hold[t], d) /\ f # NoFile
    BY <1>a, <2>1, AnAnnotationIsAFile, NoFileIsNoFile
  <2>4. QED
    BY <1>b, <2>1, <2>2, <2>3
<1>5. CASE AnnotateTable
  <2>1. PICK t : t = Min(left) /\ t \in Tables /\ hold[t] # NoFile
    BY <1>a, <1>5, FirstLeft DEF AnnotateTable, LeftInv, HoldInv
  <2>2. PICK d \in AnnotationDraft : text' = [text EXCEPT ![t] = Annotated(hold[t], d)]
    BY <1>5, <2>1 DEF AnnotateTable
  <2>3. PICK f : f = Annotated(hold[t], d) /\ f # NoFile
    BY <1>a, <2>1, AnAnnotationIsAFile, NoFileIsNoFile
  <2>4. QED
    BY <1>b, <2>1, <2>2, <2>3
<1>6. CASE Edits
  <2>1. PICK t \in Tables, k \in Keys, f \in File, mark \in Marks : Edited(t, k, f, mark)
    BY <1>a, <1>6, EditsOne
  <2>2. f # NoFile /\ text' = [text EXCEPT ![t] = f]
    BY <2>1, NoFileIsNoFile DEF Edited
  <2>3. QED
    BY <1>b, <2>2
<1>7. CASE Ends \/ Passes \/ Quiet \/ UNCHANGED vars
  BY <1>1, <1>7, EndsLeave, PassesLeave, QuietLeave DEF Stays, vars, context
<1>8. CASE LoadForProfiling \/ PickTable \/ SkipFailedTable \/ MoveData \/ Grows
  BY <1>1, <1>8 DEF LoadForProfiling, PickTable, SkipFailedTable, MoveData, Grows, AddColumn,
     context
<1>9. ASSUME NEW p \in Tables, ReadTable(p) \/ FailTable(p) \/ SkipTable(p)
      PROVE  Remain
  BY <1>a, <1>1, <1>9, ReadsOne, FailsOne, SkipsOne DEF Stays
<1>10. QED
  BY <1>2, <1>3, <1>4, <1>5, <1>6, <1>7, <1>8, <1>9, NextIs DEF Quiet

\* The plan lists tables that have files, in order, each of them once.
LEMMA NeedingIsPlan ==
  ASSUME FilesInv
  PROVE  /\ Needing \in Seq(Tables) /\ Len(Needing) <= NTables
         /\ \A i, j \in DOMAIN Needing : Needing[i] = Needing[j] => i = j
         /\ \A i \in DOMAIN Needing : text[Needing[i]] # NoFile
<1>1. PICK S : S = {t \in Tables : text[t] # NoFile /\ NeedsAnnotation(text[t], stamps[t])}
  OBVIOUS
<1>2. IsFiniteSet(Tables) /\ Cardinality(Tables) = NTables
  BY IntervalSize, ProjectInitAssumption DEF Tables
<1>3. S \in SUBSET Tables
  BY <1>1
<1>4. S \in SUBSET Nat
  BY <1>3, ProjectInitAssumption DEF Tables
<1>5. IsFiniteSet(S) /\ Cardinality(S) <= NTables
  BY <1>2, <1>3, FS_Subset
<1>6. PICK n : n = Cardinality(S) /\ n \in Nat
  BY <1>5, FS_CardinalityType
<1>7. \E batch \in [1..Cardinality(S) -> S] :
         \A i, j \in DOMAIN batch : i < j => batch[i] < batch[j]
  BY <1>4, <1>5, InOrder
<1>8. PICK b : b = Needing
  OBVIOUS
<1>9. b \in [1..n -> S] /\ \A i, j \in DOMAIN b : i < j => b[i] < b[j]
  BY <1>1, <1>6, <1>7, <1>8 DEF Needing
<1>10. b \in Seq(Tables) /\ Len(b) = n
  <2>1. b \in [1..n -> Tables]
    BY <1>3, <1>9
  <2>2. QED
    BY <1>6, <2>1
<1>11. ASSUME NEW i \in DOMAIN b, NEW j \in DOMAIN b, b[i] = b[j]
       PROVE  i = j
  <2>1. i \in Nat /\ j \in Nat
    BY <1>6, <1>9
  <2>2. b[i] \in Nat
    BY <1>4, <1>9
  <2>3. ~(b[i] < b[j]) /\ ~(b[j] < b[i])
    BY <1>11, <2>2
  <2>4. ~(i < j) /\ ~(j < i)
    BY <1>9, <2>3
  <2>5. QED
    BY <2>1, <2>4
<1>12. \A i \in DOMAIN b : text[b[i]] # NoFile
  BY <1>1, <1>9
<1>13. QED
  BY <1>5, <1>6, <1>8, <1>10, <1>11, <1>12

LEMMA PlanForIsPlan ==
  ASSUME FilesInv, NEW steps
  PROVE  IsPlan(PlanFor(steps))
<1>1. PICK b : b = IF "annotate" \in steps THEN Needing ELSE << >>
  OBVIOUS
<1>2. /\ b \in Seq(Tables) /\ Len(b) <= NTables
      /\ \A i, j \in DOMAIN b : b[i] = b[j] => i = j
      /\ \A i \in DOMAIN b : text[b[i]] # NoFile
  <2>1. CASE "annotate" \in steps
    BY <1>1, <2>1, NeedingIsPlan
  <2>2. CASE "annotate" \notin steps
    <3>1. b = << >> /\ NTables \in Nat
      BY <1>1, <2>2, ProjectInitAssumption
    <3>2. QED
      BY <3>1
  <2>3. QED
    BY <2>1, <2>2
<1>3. PICK p : p = PlanFor(steps)
  OBVIOUS
<1>4. p = [tables |-> b, synth |-> p.synth, eval |-> p.eval] /\ p.synth \in BOOLEAN
      /\ p.eval \in BOOLEAN
  BY <1>1, <1>3 DEF PlanFor
<1>5. p \in [tables : Seq(Tables), synth : BOOLEAN, eval : BOOLEAN] /\ p.tables = b
  BY <1>2, <1>4
<1>6. QED
  BY <1>2, <1>3, <1>5 DEF IsPlan

LEMMA PlanStep == Inv /\ [Next]_vars => PlanInv'
<1> SUFFICES ASSUME Inv, [Next]_vars PROVE PlanInv'
  OBVIOUS
<1>a. FilesInv /\ WaveInv /\ PlanInv
  BY DEF Inv
<1>b. Remain
  BY FilesRemain
<1>c. ASSUME UNCHANGED plan
      PROVE  PlanInv'
  <2>1. \A i \in DOMAIN plan.tables : plan.tables[i] \in Tables
    BY <1>a DEF PlanInv, IsPlan
  <2>2. \A i \in DOMAIN plan.tables : text'[plan.tables[i]] # NoFile
    BY <1>a, <1>b, <2>1 DEF PlanInv, IsPlan, Remain
  <2>3. QED
    BY <1>a, <1>c, <2>2 DEF PlanInv, IsPlan
<1>1. CASE Ends
  <2>1. plan' = NoPlan
    BY <1>1, EndsLeave
  <2>2. PICK p : p = NoPlan
    OBVIOUS
  <2>3. p \in [tables : Seq(Tables), synth : BOOLEAN, eval : BOOLEAN] /\ p.tables = << >>
    BY <2>2 DEF NoPlan
  <2>4. NTables \in Nat
    BY ProjectInitAssumption
  <2>5. QED
    BY <2>1, <2>2, <2>3, <2>4 DEF PlanInv, IsPlan
<1>2. CASE BuildPlan \/ Reselect
  <2>1. UNCHANGED text /\ \E steps : plan' = PlanFor(steps)
    BY <1>2 DEF BuildPlan, Reselect, context
  <2>2. PICK p : p = plan' /\ IsPlan(p)
    BY <1>a, <2>1, PlanForIsPlan
  <2>3. QED
    BY <2>1, <2>2 DEF PlanInv, IsPlan
<1>3. CASE Passes \/ UNCHANGED vars \/ Begin \/ Introspect \/ Draft \/ LoadForProfiling
           \/ WriteProfile
  BY <1>c, <1>3, PassesLeave DEF Begin, Introspect, Draft, LoadForProfiling, WriteProfile,
     vars, memory
<1>4. CASE StartWave \/ EndWave \/ SettleTable \/ PickTable \/ AnnotateTable \/ SkipFailedTable
           \/ MeterTable \/ SaveReview
  BY <1>c, <1>4 DEF StartWave, EndWave, SettleTable, PickTable, AnnotateTable, SkipFailedTable,
     MeterTable, SaveReview, memory
<1>5. ASSUME NEW p \in Tables, ReadTable(p) \/ WriteTable(p) \/ FailTable(p) \/ SkipTable(p)
      PROVE  PlanInv'
  BY <1>a, <1>c, <1>5, ReadsOne, WritesOne, FailsOne, SkipsOne
<1>6. CASE Synthesize \/ Queue \/ Seed \/ StartEval \/ EndEval \/ StampBaseline \/ Coach
  BY <1>c, <1>6 DEF Synthesize, Queue, Seed, StartEval, EndEval, StampBaseline, Coach, memory
<1>7. CASE EditRest \/ MoveData \/ Grows \/ Edits
  BY <1>a, <1>c, <1>7, EditsOne DEF EditRest, MoveData, Grows, AddColumn, memory
<1>8. QED
  BY <1>1, <1>2, <1>3, <1>4, <1>5, <1>6, <1>7, NextIs

-----------------------------------------------------------------------------
(* The wave                                                                *)

LEMMA WaveStep == Inv /\ [Next]_vars => WaveInv'
<1> SUFFICES ASSUME Inv, [Next]_vars PROVE WaveInv'
  OBVIOUS
<1>a. /\ WaveInv /\ StepsInv
      /\ stage \in [Tables -> F!Stages]
      /\ pc \in {"wave", "settling"} =>
           \A p \in Tables : stage[p] # "absent" => p <= Len(plan.tables)
      /\ pc = "settling" => \A p \in left : stage[p] = "ok"
      /\ left \subseteq Tables
  BY DEF Inv, WaveInv, StepsInv
<1>b. {"absent", "pending", "running", "ok", "failed", "skipped"} \subseteq F!Stages
  BY DEF F!Stages
<1>c. ASSUME UNCHANGED stage, pc' \notin {"wave", "settling"}
      PROVE  WaveInv'
  BY <1>a, <1>c DEF WaveInv
<1>1. CASE Ends
  BY <1>b, <1>1, EndsLeave DEF WaveInv
<1>2. CASE Passes
  BY <1>c, <1>2, PassesLeave
<1>3. CASE UNCHANGED vars \/ MoveData \/ Grows \/ EditRest \/ Edits
  <2>1. UNCHANGED <<pc, plan, left, stage>>
    <3>1. CASE Edits
      BY <3>1, EditsOne DEF Inv
    <3>2. CASE UNCHANGED vars \/ MoveData \/ Grows \/ EditRest
      BY <3>2 DEF vars, memory, fanout, MoveData, Grows, AddColumn, EditRest
    <3>3. QED
      BY <1>3, <3>1, <3>2
  <2>2. QED
    BY <1>a, <2>1 DEF WaveInv
<1>4. CASE Begin \/ Introspect \/ Draft \/ LoadForProfiling \/ WriteProfile \/ BuildPlan
           \/ Reselect
  BY <1>c, <1>4 DEF Begin, Introspect, Draft, LoadForProfiling, WriteProfile, BuildPlan, Reselect,
     Goto, fanout
<1>5. CASE StartWave
  <2>1. /\ stage' = [p \in Tables |-> IF p <= Len(plan.tables) THEN "pending" ELSE "absent"]
        /\ UNCHANGED <<plan, left>> /\ pc' = "wave"
    BY <1>5 DEF StartWave, Goto, memory
  <2>2. QED
    BY <1>b, <2>1 DEF WaveInv
<1>6. CASE EndWave
  <2>1. left' = F!In("ok") /\ UNCHANGED <<stage, plan>> /\ pc = "wave" /\ pc' = "settling"
    BY <1>6 DEF EndWave, F!End, Goto
  <2>2. \A p \in left' : stage[p] = "ok"
    BY <2>1 DEF F!In
  <2>3. QED
    BY <1>a, <2>1, <2>2 DEF WaveInv
<1>7. ASSUME NEW p \in Tables, ReadTable(p) \/ WriteTable(p) \/ FailTable(p) \/ SkipTable(p)
      PROVE  WaveInv'
  <2>1. /\ pc = "wave" /\ UNCHANGED <<pc, plan>> /\ stage[p] # "absent"
        /\ \E s \in {"running", "ok", "failed", "skipped"} : stage' = [stage EXCEPT ![p] = s]
    BY <1>a, <1>7, ReadsOne, WritesOne, FailsOne, SkipsOne
  <2>2. QED
    BY <1>a, <1>b, <2>1 DEF WaveInv
<1>8. CASE SettleTable
  BY <1>a, <1>8 DEF SettleTable, fanout, WaveInv
<1>9. CASE PickTable \/ AnnotateTable \/ SkipFailedTable \/ MeterTable \/ SaveReview
  BY <1>c, <1>9 DEF PickTable, AnnotateTable, SkipFailedTable, MeterTable, SaveReview, Goto, fanout
<1>10. CASE Synthesize \/ Queue \/ Seed \/ StartEval \/ EndEval \/ StampBaseline \/ Coach
  BY <1>c, <1>10 DEF Synthesize, Queue, Seed, StartEval, EndEval, StampBaseline, Coach, Goto,
     fanout
<1>11. QED
  BY <1>1, <1>2, <1>3, <1>4, <1>5, <1>6, <1>7, <1>8, <1>9, <1>10, NextIs

-----------------------------------------------------------------------------
(* What is left to do                                                      *)

LEMMA LeftStep == Inv /\ [Next]_vars => LeftInv'
<1> SUFFICES ASSUME Inv, [Next]_vars PROVE LeftInv'
  OBVIOUS
<1>a. /\ FilesInv /\ LeftInv /\ StepsInv /\ WaveInv /\ SchemaInv /\ left \subseteq Tables
      /\ pc = "drafting" => left # {} /\ \A t \in Tables \ left : text[t] # NoFile
      /\ pc \in {"profiling", "picking", "asking", "metering"} =>
           \A t \in left : text[t] # NoFile
      /\ pc = "asking" => left # {}
  BY DEF Inv, StepsInv, LeftInv
<1>b. \A t \in Tables : text[t] # NoFile => text'[t] # NoFile
  BY FilesRemain DEF Remain
<1>c. ASSUME pc' \notin {"drafting", "profiling", "picking", "asking", "metering"}
      PROVE  LeftInv'
  BY <1>c DEF LeftInv
<1>1. CASE Ends \/ Passes
  BY <1>c, <1>1, EndsLeave, PassesLeave
<1>2. CASE UNCHANGED vars \/ MoveData \/ Grows \/ EditRest \/ Edits
  <2>1. UNCHANGED <<pc, left>>
    <3>1. CASE Edits
      BY <1>a, <3>1, EditsOne
    <3>2. CASE UNCHANGED vars \/ MoveData \/ Grows \/ EditRest
      BY <3>2 DEF vars, memory, MoveData, Grows, AddColumn, EditRest
    <3>3. QED
      BY <1>2, <3>1, <3>2
  <2>2. QED
    BY <1>a, <1>b, <2>1 DEF LeftInv
<1>3. CASE Begin
  <2>1. /\ UNCHANGED text
        /\ left' = {t \in Tables : text[t] # NoFile} \/ pc' \in {"introspecting", "reporting"}
        /\ pc' \in {"introspecting", "reporting", "profiling", "picking"}
    BY <1>3 DEF Begin, context
  <2>2. QED
    BY <2>1 DEF LeftInv
<1>4. CASE Introspect
  <2>1. left' = Tables /\ pc' = "drafting"
    BY <1>4 DEF Introspect, Goto
  <2>2. 1 \in Tables
    BY ProjectInitAssumption DEF Tables
  <2>3. QED
    BY <2>1, <2>2 DEF LeftInv
<1>5. CASE Draft
  <2>1. PICK t \in left : /\ t = Min(left) /\ t \in Tables /\ DraftFor(t) # NoFile
                          /\ text' = [text EXCEPT ![t] = DraftFor(t)]
    BY <1>a, <1>5, DraftsOne
  <2>2. PICK f : f = DraftFor(t) /\ f # NoFile /\ text' = [text EXCEPT ![t] = f]
    BY <2>1
  <2>3. pc = "drafting" /\ text'[t] # NoFile
    BY <1>a, <1>5, <2>1, <2>2 DEF Draft, FilesInv
  <2>4. \A u \in Tables \ (left \ {t}) : text'[u] # NoFile
    BY <1>a, <1>b, <2>3
  <2>5. CASE left # {t}
    <3>1. left' = left \ {t} /\ pc' = pc
      BY <1>5, <2>1, <2>5 DEF Draft
    <3>2. left' # {}
      BY <2>1, <2>5, <3>1
    <3>3. QED
      BY <2>3, <2>4, <3>1, <3>2 DEF LeftInv
  <2>6. CASE left = {t}
    <3>1. \A u \in Tables : text'[u] # NoFile
      BY <2>4, <2>6
    <3>2. /\ pc' \in {"profiling", "reporting"}
          /\ pc' = "profiling" => left' = Tables
      BY <1>5, <2>1, <2>6 DEF Draft
    <3>3. QED
      BY <3>1, <3>2 DEF LeftInv
  <2>7. QED
    BY <2>5, <2>6
<1>6. CASE LoadForProfiling \/ WriteProfile
  <2>1. pc = "profiling" /\ pc' = pc /\ left' \subseteq left
    BY <1>6 DEF LoadForProfiling, WriteProfile
  <2>2. QED
    BY <1>a, <1>b, <2>1 DEF LeftInv
<1>7. CASE BuildPlan \/ Reselect \/ StartWave \/ EndWave \/ SettleTable \/ SaveReview
  BY <1>c, <1>7 DEF BuildPlan, Reselect, StartWave, EndWave, SettleTable, SaveReview, Goto
<1>8. ASSUME NEW p \in Tables, ReadTable(p) \/ WriteTable(p) \/ FailTable(p) \/ SkipTable(p)
      PROVE  LeftInv'
  BY <1>a, <1>c, <1>8, ReadsOne, WritesOne, FailsOne, SkipsOne
<1>9. CASE PickTable \/ AnnotateTable
  <2>1. /\ pc \in {"picking", "asking"} /\ pc' \in {"asking", "saving", "metering"}
        /\ left # {} /\ left' = left
    BY <1>a, <1>9 DEF PickTable, AnnotateTable, Goto
  <2>2. QED
    BY <1>a, <1>b, <2>1 DEF LeftInv
<1>10. CASE SkipFailedTable \/ MeterTable
  <2>1. pc \in {"asking", "metering"} /\ pc' = "picking" /\ left' \subseteq left
    BY <1>10 DEF SkipFailedTable, MeterTable, Goto
  <2>2. QED
    BY <1>a, <1>b, <2>1 DEF LeftInv
<1>11. CASE Synthesize \/ Queue \/ Seed \/ StartEval \/ EndEval \/ StampBaseline \/ Coach
  BY <1>c, <1>11 DEF Synthesize, Queue, Seed, StartEval, EndEval, StampBaseline, Coach, Goto
<1>12. QED
  BY <1>1, <1>2, <1>3, <1>4, <1>5, <1>6, <1>7, <1>8, <1>9, <1>10, <1>11, NextIs

-----------------------------------------------------------------------------
(* What a command holds                                                    *)

LEMMA HoldStep == Inv /\ [Next]_vars => HoldInv'
<1> SUFFICES ASSUME Inv, [Next]_vars PROVE HoldInv'
  OBVIOUS
<1>a. /\ FilesInv /\ LeftInv /\ StepsInv /\ WaveInv /\ PlanInv /\ left \subseteq Tables
      /\ text \in [Tables -> File \cup {NoFile}] /\ hold \in [Tables -> File \cup {NoFile}]
      /\ stage \in [Tables -> F!Stages]
      /\ pc = "profiling" => \A t \in Tables : hold[t] # NoFile => t \in left
      /\ pc = "asking" => \A t \in Tables : hold[t] # NoFile <=> t = Min(left)
      /\ pc = "wave" =>
           /\ \A p \in Tables : stage[p] = "running" => hold[plan.tables[p]] # NoFile
           /\ \A t \in Tables : hold[t] # NoFile =>
                \E p \in Tables : stage[p] = "running" /\ plan.tables[p] = t
      /\ pc \notin {"profiling", "asking", "wave"} => \A t \in Tables : hold[t] = NoFile
  BY DEF Inv, FilesInv, StepsInv, WaveInv, HoldInv
<1>b. ASSUME pc' # "wave", pc' # "asking", \A t \in Tables : hold'[t] = NoFile
      PROVE  HoldInv'
  BY <1>b DEF HoldInv
<1>c. PICK nofile : nofile = NoFile
  OBVIOUS
<1>d. \A p \in Tables : pc = "wave" /\ stage[p] # "absent" =>
        /\ p \in DOMAIN plan.tables /\ plan.tables[p] \in Tables
        /\ text[plan.tables[p]] # NoFile
  BY <1>a, PlannedTable
<1>e. \A p, q \in DOMAIN plan.tables : plan.tables[p] = plan.tables[q] => p = q
  BY <1>a DEF PlanInv, IsPlan
<1>1. CASE Ends
  BY <1>b, <1>1, EndsLeave
<1>2. CASE Passes
  <2>1. UNCHANGED hold /\ pc' \notin {"wave", "asking"} /\ \A t \in Tables : hold[t] = NoFile
    BY <1>a, <1>2, PassesLeave
  <2>2. QED
    BY <1>b, <2>1
<1>3. CASE UNCHANGED vars \/ MoveData \/ Grows \/ EditRest \/ Edits
  <2>1. UNCHANGED <<pc, plan, left, stage, hold>>
    <3>1. CASE Edits
      BY <1>a, <3>1, EditsOne
    <3>2. CASE UNCHANGED vars \/ MoveData \/ Grows \/ EditRest
      BY <3>2 DEF vars, memory, fanout, MoveData, Grows, AddColumn, EditRest
    <3>3. QED
      BY <1>3, <3>1, <3>2
  <2>2. QED
    BY <1>a, <2>1 DEF HoldInv
<1>4. CASE Begin \/ Introspect \/ Draft \/ BuildPlan \/ Reselect
  <2>1. /\ UNCHANGED hold /\ pc \notin {"profiling", "asking", "wave"}
        /\ pc' \notin {"wave", "asking"}
    BY <1>4 DEF Begin, Introspect, Draft, BuildPlan, Reselect, Goto
  <2>2. QED
    BY <1>a, <1>b, <2>1
<1>5. CASE LoadForProfiling \/ WriteProfile
  <2>1. PICK t : t = Min(left) /\ t \in left /\ t \in Tables
    BY <1>a, <1>5, FirstLeft DEF LoadForProfiling, WriteProfile
  <2>2. PICK f : f = text[t]
    OBVIOUS
  <2>3. /\ pc = "profiling" /\ pc' = "profiling"
        /\ \/ hold[t] = NoFile /\ left' = left \ {t} /\ hold' = hold
           \/ left' = left /\ hold' = [hold EXCEPT ![t] = f]
           \/ left' = left \ {t} /\ hold' = [hold EXCEPT ![t] = nofile]
    BY <1>5, <1>c, <2>1, <2>2 DEF LoadForProfiling, WriteProfile
  <2>4. \A u \in Tables : hold'[u] # NoFile => u \in left'
    BY <1>a, <1>c, <2>1, <2>3
  <2>5. QED
    BY <2>3, <2>4 DEF HoldInv
<1>6. CASE StartWave
  <2>1. /\ UNCHANGED hold /\ pc' = "wave" /\ pc = "annotating"
        /\ stage' = [p \in Tables |-> IF p <= Len(plan.tables) THEN "pending" ELSE "absent"]
    BY <1>6 DEF StartWave, Goto, memory
  <2>2. \A p \in Tables : stage'[p] # "running"
    BY <2>1
  <2>3. QED
    BY <1>a, <2>1, <2>2 DEF HoldInv
<1>7. CASE EndWave
  <2>1. /\ UNCHANGED hold /\ pc' = "settling" /\ pc = "wave" /\ F!In("running") = {}
    BY <1>7 DEF EndWave, F!End, Goto
  <2>2. \A p \in Tables : stage[p] # "running"
    BY <2>1 DEF F!In, F!Positions, Tables
  <2>3. QED
    BY <1>a, <1>b, <2>1, <2>2
<1>8. ASSUME NEW p \in Tables, ReadTable(p)
      PROVE  HoldInv'
  <2>1. PICK t, f : t = plan.tables[p] /\ f = text[t] /\ t \in Tables /\ f # NoFile
    BY <1>d, <1>8, ReadsOne
  <2>2. /\ pc = "wave" /\ stage' = [stage EXCEPT ![p] = "running"]
        /\ hold' = [hold EXCEPT ![t] = f] /\ UNCHANGED <<pc, plan>>
    BY <1>8, <2>1, ReadsOne
  <2>3. ASSUME NEW q \in Tables, stage'[q] = "running"
        PROVE  hold'[plan.tables[q]] # NoFile
    <3>1. CASE q = p
      BY <1>a, <2>1, <2>2, <3>1
    <3>2. CASE q # p
      <4>1. stage[q] = "running" /\ plan.tables[q] \in Tables
        BY <1>a, <1>d, <2>2, <2>3, <3>2
      <4>2. QED
        BY <1>a, <2>1, <2>2, <4>1
    <3>3. QED
      BY <3>1, <3>2
  <2>4. ASSUME NEW u \in Tables, hold'[u] # NoFile
        PROVE  \E q \in Tables : stage'[q] = "running" /\ plan.tables[q] = u
    <3>1. CASE u = t
      BY <1>a, <2>1, <2>2, <3>1
    <3>2. CASE u # t
      <4>1. hold[u] # NoFile
        BY <1>a, <2>2, <2>4, <3>2
      <4>2. PICK q \in Tables : stage[q] = "running" /\ plan.tables[q] = u
        BY <1>a, <2>2, <4>1
      <4>3. stage'[q] = "running"
        BY <1>a, <2>2, <4>2
      <4>4. QED
        BY <4>2, <4>3
    <3>3. QED
      BY <3>1, <3>2
  <2>5. QED
    BY <2>2, <2>3, <2>4 DEF HoldInv
<1>9. ASSUME NEW p \in Tables, WriteTable(p) \/ FailTable(p)
      PROVE  HoldInv'
  <2>1. PICK t : t = plan.tables[p] /\ t \in Tables /\ p \in DOMAIN plan.tables
    BY <1>a, <1>d, <1>9, WritesOne, FailsOne
  <2>2. PICK s \in {"ok", "failed"} :
          /\ pc = "wave" /\ stage' = [stage EXCEPT ![p] = s]
          /\ hold' = [hold EXCEPT ![t] = nofile] /\ UNCHANGED <<pc, plan>>
    BY <1>a, <1>9, <1>c, <2>1, WritesOne, FailsOne
  <2>3. ASSUME NEW q \in Tables, stage'[q] = "running"
        PROVE  hold'[plan.tables[q]] # NoFile
    <3>1. stage[q] = "running" /\ q # p
      BY <1>a, <2>2, <2>3
    <3>2. plan.tables[q] \in Tables /\ plan.tables[q] # t
      BY <1>d, <1>e, <2>1, <2>2, <3>1
    <3>3. QED
      BY <1>a, <2>2, <3>1, <3>2
  <2>4. ASSUME NEW u \in Tables, hold'[u] # NoFile
        PROVE  \E q \in Tables : stage'[q] = "running" /\ plan.tables[q] = u
    <3>1. u # t /\ hold[u] # NoFile
      BY <1>a, <1>c, <2>1, <2>2, <2>4
    <3>2. PICK q \in Tables : stage[q] = "running" /\ plan.tables[q] = u
      BY <1>a, <2>2, <3>1
    <3>3. stage'[q] = "running"
      BY <1>a, <2>1, <2>2, <3>1, <3>2
    <3>4. QED
      BY <3>2, <3>3
  <2>5. QED
    BY <2>2, <2>3, <2>4 DEF HoldInv
<1>10. ASSUME NEW p \in Tables, SkipTable(p)
       PROVE  HoldInv'
  <2>1. /\ pc = "wave" /\ stage[p] = "pending" /\ stage' = [stage EXCEPT ![p] = "skipped"]
        /\ UNCHANGED <<pc, plan, hold>>
    BY <1>10, SkipsOne
  <2>2. \A q \in Tables : stage'[q] = "running" <=> stage[q] = "running"
    BY <1>a, <2>1
  <2>3. QED
    BY <1>a, <2>1, <2>2 DEF HoldInv
<1>11. CASE PickTable
  <2>1. PICK t, f : t = Min(left) /\ f = text[t] /\ t \in left /\ t \in Tables /\ f # NoFile
    BY <1>a, <1>11, FirstLeft DEF PickTable, LeftInv
  <2>2. /\ pc = "picking" /\ left' = left
        /\ \/ hold' = [hold EXCEPT ![t] = f] /\ pc' = "asking"
           \/ hold' = hold /\ pc' = "saving"
    BY <1>11, <2>1 DEF PickTable, Goto
  <2>3. \A u \in Tables : hold[u] = NoFile
    BY <1>a, <2>2
  <2>4. CASE pc' = "saving"
    BY <1>b, <2>2, <2>3, <2>4
  <2>5. CASE pc' = "asking"
    <3>1. hold' = [hold EXCEPT ![t] = f]
      BY <2>2, <2>5
    <3>2. \A u \in Tables : hold'[u] # NoFile <=> u = t
      BY <1>a, <2>1, <2>3, <3>1
    <3>3. QED
      BY <2>1, <2>2, <2>5, <3>2 DEF HoldInv
  <2>6. QED
    BY <2>2, <2>4, <2>5
<1>12. CASE AnnotateTable \/ SkipFailedTable
  <2>1. PICK t : t = Min(left)
    OBVIOUS
  <2>2. /\ pc = "asking" /\ pc' \in {"metering", "picking"}
        /\ hold' = [hold EXCEPT ![t] = nofile]
    BY <1>12, <1>c, <2>1 DEF AnnotateTable, SkipFailedTable, Goto
  <2>3. \A u \in Tables : hold'[u] = NoFile
    BY <1>a, <1>c, <2>1, <2>2
  <2>4. QED
    BY <1>b, <2>2, <2>3
<1>13. CASE SettleTable \/ MeterTable \/ SaveReview
  <2>1. /\ UNCHANGED hold /\ pc \notin {"profiling", "asking", "wave"}
        /\ pc' \notin {"wave", "asking"}
    BY <1>13 DEF SettleTable, MeterTable, SaveReview, Goto, memory
  <2>2. QED
    BY <1>a, <1>b, <2>1
<1>14. CASE Synthesize \/ Queue \/ Seed \/ StartEval \/ EndEval \/ StampBaseline \/ Coach
  <2>1. /\ UNCHANGED hold /\ pc \notin {"profiling", "asking", "wave"}
        /\ pc' \notin {"wave", "asking"}
    BY <1>14 DEF Synthesize, Queue, Seed, StartEval, EndEval, StampBaseline, Coach, Goto, memory
  <2>2. QED
    BY <1>a, <1>b, <2>1
<1>15. QED
  BY <1>1, <1>2, <1>3, <1>4, <1>5, <1>6, <1>7, <1>8, <1>9, <1>10, <1>11, <1>12, <1>13, <1>14,
     NextIs

-----------------------------------------------------------------------------
(* The schema and the baseline                                             *)

\* What only grows, and who stamps.
LEMMA HistoryGrows ==
  ASSUME Inv, [Next]_vars
  PROVE  /\ \A t \in Tables : live[t] \subseteq live'[t]
         /\ touched \subseteq touched' /\ scored \subseteq scored' /\ earned \subseteq earned'
         /\ StampBaseline \/ UNCHANGED base
         /\ SettleTable \/ UNCHANGED stamps
<1>a. FilesInv /\ WaveInv /\ live \in [Tables -> SUBSET Columns]
  BY DEF Inv, FilesInv
<1>1. CASE Ends \/ Passes \/ UNCHANGED vars
  BY <1>1, EndsLeave, PassesLeave DEF Stays, vars, database, state, hist
<1>2. CASE Begin \/ Introspect \/ Draft \/ LoadForProfiling \/ WriteProfile \/ BuildPlan
           \/ Reselect
  BY <1>2 DEF Begin, Introspect, Draft, LoadForProfiling, WriteProfile, BuildPlan, Reselect,
     database, state, hist
<1>3. CASE StartWave \/ EndWave \/ PickTable \/ AnnotateTable \/ SkipFailedTable \/ MeterTable
           \/ SaveReview
  BY <1>3 DEF StartWave, EndWave, PickTable, AnnotateTable, SkipFailedTable, MeterTable,
     SaveReview, database, state, hist
<1>4. ASSUME NEW p \in Tables, ReadTable(p) \/ WriteTable(p) \/ FailTable(p) \/ SkipTable(p)
      PROVE  /\ UNCHANGED <<live, touched, scored, base, stamps>>
             /\ earned \subseteq earned'
  BY <1>a, <1>4, ReadsOne, WritesOne, FailsOne, SkipsOne DEF Stays
<1>5. CASE Synthesize \/ Queue \/ Seed \/ StartEval \/ Coach
  BY <1>5 DEF Synthesize, Queue, Seed, StartEval, Coach, database, state, hist
<1>6. CASE SettleTable
  BY <1>6 DEF SettleTable, database, hist
<1>7. CASE EndEval
  BY <1>7 DEF EndEval, database, hist
<1>8. CASE StampBaseline
  BY <1>8 DEF StampBaseline, database, hist
<1>9. CASE EditRest \/ MoveData
  BY <1>9 DEF EditRest, MoveData, database, state, hist
<1>10. CASE Edits
  BY <1>a, <1>10, EditsOne DEF Edited
<1>11. CASE Grows
  <2>1. PICK t \in Tables, c \in Columns : AddColumn(t, c)
    BY <1>11 DEF Grows
  <2>2. live' = [live EXCEPT ![t] = live[t] \cup {c}]
    BY <2>1 DEF AddColumn
  <2>3. \A u \in Tables : live[u] \subseteq live'[u]
    BY <1>a, <2>2
  <2>4. UNCHANGED <<touched, scored, earned, base, stamps>>
    BY <2>1 DEF AddColumn, state, hist
  <2>5. QED
    BY <2>3, <2>4
<1>12. QED
  BY <1>1, <1>2, <1>3, <1>4, <1>5, <1>6, <1>7, <1>8, <1>9, <1>10, <1>11, NextIs

\* Whoever has introspected has just done so, or had before.
LEMMA Introspecting ==
  ASSUME Inv, [Next]_vars, Introspected'
  PROVE  \/ Introspect
         \/ /\ Introspected /\ UNCHANGED schema
            /\ pc' \in {"drafting", "profiling", "planning"} =>
                 pc \in {"drafting", "profiling", "planning"}
<1> USE DEF Introspected, Goto
<1>1. CASE Ends
  BY <1>1, EndsLeave
<1>2. CASE Passes
  BY <1>2, PassesLeave
<1>3. CASE UNCHANGED vars \/ MoveData \/ Grows \/ EditRest \/ Edits
  <2>1. UNCHANGED <<pc, cmd, schema>>
    <3>1. CASE Edits
      BY <3>1, EditsOne DEF Inv
    <3>2. CASE UNCHANGED vars \/ MoveData \/ Grows \/ EditRest
      BY <3>2 DEF vars, memory, MoveData, Grows, AddColumn, EditRest
    <3>3. QED
      BY <1>3, <3>1, <3>2
  <2>2. QED
    BY <2>1
<1>4. CASE Begin
  BY <1>4 DEF Begin
<1>5. CASE Draft \/ LoadForProfiling \/ WriteProfile \/ BuildPlan \/ Reselect
  BY <1>5 DEF Draft, LoadForProfiling, WriteProfile, BuildPlan, Reselect
<1>6. CASE StartWave \/ EndWave \/ SettleTable
  BY <1>6 DEF StartWave, EndWave, SettleTable, memory
<1>7. ASSUME NEW p \in Tables, ReadTable(p) \/ WriteTable(p) \/ FailTable(p) \/ SkipTable(p)
      PROVE  Introspected /\ UNCHANGED <<schema, pc>>
  BY <1>7, ReadsOne, WritesOne, FailsOne, SkipsOne DEF Inv
<1>8. CASE PickTable \/ AnnotateTable \/ SkipFailedTable \/ MeterTable \/ SaveReview
  BY <1>8 DEF PickTable, AnnotateTable, SkipFailedTable, MeterTable, SaveReview
<1>9. CASE Synthesize \/ Queue \/ Seed \/ StartEval \/ EndEval \/ StampBaseline \/ Coach
  BY <1>9 DEF Synthesize, Queue, Seed, StartEval, EndEval, StampBaseline, Coach, memory
<1>10. QED
  BY <1>1, <1>2, <1>3, <1>4, <1>5, <1>6, <1>7, <1>8, <1>9, NextIs

LEMMA SchemaStep == Inv /\ [Next]_vars => SchemaInv'
<1> SUFFICES ASSUME Inv, [Next]_vars, Introspected'
             PROVE  SchemaOf(schema') /\ Behind(schema', live')
  BY DEF SchemaInv, SchemaOf, Behind
<1>1. /\ SchemaInv /\ live \in [Tables -> SUBSET Columns]
      /\ \A t \in Tables : live[t] \subseteq live'[t]
  BY HistoryGrows DEF Inv, FilesInv
<1>2. CASE Introspect
  BY <1>1, <1>2 DEF Introspect, database, SchemaOf, Behind
<1>3. CASE Introspected /\ UNCHANGED schema
  BY <1>1, <1>3 DEF SchemaInv, SchemaOf, Behind
<1>4. QED
  BY <1>2, <1>3, Introspecting

\* The files an eval is about are not changed before its stamp without a trace.
LEMMA WorkIsTracked ==
  ASSUME Inv, [Next]_vars, pc \in {"scoring", "stamping"}, pc' = pc
  PROVE  /\ UNCHANGED <<seen, cmd, schema, scored>>
         /\ WholeProject \in touched' \/ UNCHANGED <<text, dev, rest>>
<1>1. CASE Ends \/ Passes \/ Begin
  BY <1>1, EndsLeave, PassesLeave DEF Begin
<1>2. CASE UNCHANGED vars
  BY <1>2 DEF vars, context, memory, state
<1>3. CASE Introspect \/ Draft \/ LoadForProfiling \/ WriteProfile \/ BuildPlan \/ Reselect
           \/ StartWave \/ EndWave \/ SettleTable
  BY <1>3 DEF Introspect, Draft, LoadForProfiling, WriteProfile, BuildPlan, Reselect, StartWave,
     EndWave, SettleTable
<1>4. CASE \E p \in Tables : ReadTable(p) \/ WriteTable(p) \/ FailTable(p) \/ SkipTable(p)
  BY <1>4 DEF ReadTable, WriteTable, FailTable, SkipTable
<1>5. CASE PickTable \/ AnnotateTable \/ SkipFailedTable \/ MeterTable \/ SaveReview
           \/ Synthesize \/ Queue \/ Seed
  BY <1>5 DEF PickTable, AnnotateTable, SkipFailedTable, MeterTable, SaveReview, Synthesize,
     Queue, Seed
<1>6. CASE StartEval \/ EndEval \/ StampBaseline \/ Coach
  BY <1>6 DEF StartEval, EndEval, StampBaseline, Coach, Goto
<1>7. CASE EditRest
  BY <1>7 DEF EditRest, memory, state
<1>8. CASE Edits
  BY <1>8, EditsOne DEF Inv, Edited
<1>9. CASE MoveData \/ Grows
  BY <1>9 DEF MoveData, Grows, AddColumn, context, memory, state
<1>10. QED
  BY <1>1, <1>2, <1>3, <1>4, <1>5, <1>6, <1>7, <1>8, <1>9, NextIs

\* Who comes to score, and to stamp.
LEMMA ComesToWork ==
  ASSUME Inv, [Next]_vars, pc' \in {"scoring", "stamping"}, pc' # pc
  PROVE  \/ pc' = "scoring" /\ StartEval
         \/ pc' = "stamping" /\ EndEval
<1> USE DEF Goto
<1>1. CASE Ends \/ Passes \/ Begin
  BY <1>1, EndsLeave, PassesLeave DEF Begin
<1>2. CASE UNCHANGED vars \/ MoveData \/ Grows \/ EditRest \/ Edits
  BY <1>2, EditsOne DEF Inv, vars, MoveData, Grows, AddColumn, EditRest
<1>3. CASE Introspect \/ Draft \/ LoadForProfiling \/ WriteProfile \/ BuildPlan \/ Reselect
           \/ StartWave \/ EndWave \/ SettleTable
  BY <1>3 DEF Introspect, Draft, LoadForProfiling, WriteProfile, BuildPlan, Reselect, StartWave,
     EndWave, SettleTable
<1>4. CASE \E p \in Tables : ReadTable(p) \/ WriteTable(p) \/ FailTable(p) \/ SkipTable(p)
  BY <1>4 DEF ReadTable, WriteTable, FailTable, SkipTable
<1>5. CASE PickTable \/ AnnotateTable \/ SkipFailedTable \/ MeterTable \/ SaveReview
           \/ Synthesize \/ Queue \/ Seed
  BY <1>5 DEF PickTable, AnnotateTable, SkipFailedTable, MeterTable, SaveReview, Synthesize,
     Queue, Seed
<1>6. CASE StartEval \/ EndEval \/ StampBaseline \/ Coach
  BY <1>6 DEF StartEval, EndEval, StampBaseline, Coach
<1>7. QED
  BY <1>1, <1>2, <1>3, <1>4, <1>5, <1>6, NextIs

\* The three parts of BaselineInv.
Proven == \E r \in scored :
            /\ Covers(r, base.content, base.clock, base.schema)
            /\ Introspected /\ pc \in {"drafting", "profiling", "planning"} =>
                 Behind(r.schema, schema)

BaseInv ==
  base # << >> =>
    /\ base = [content |-> base.content, schema |-> base.schema, clock |-> base.clock]
    /\ SchemaOf(base.schema)
    /\ WholeProject \notin touched => Proven

ScoringInv ==
  pc = "scoring" =>
    /\ seen = [text |-> seen.text, dev |-> seen.dev, rest |-> seen.rest]
    /\ IsFiniteSet(seen.dev)
    /\ WholeProject \notin touched => seen = Content

StampingInv ==
  pc = "stamping" /\ WholeProject \notin touched =>
    \E r \in scored : Covers(r, Content, cmd.clock, schema)

LEMMA BaselineParts == BaselineInv <=> BaseInv /\ ScoringInv /\ StampingInv
BY DEF BaselineInv, BaseInv, Proven, ScoringInv, StampingInv

LEMMA BaselineStep == Inv /\ [Next]_vars => BaselineInv'
<1> SUFFICES ASSUME Inv, [Next]_vars PROVE BaselineInv'
  OBVIOUS
<1>a. /\ SchemaInv /\ BaseInv /\ ScoringInv /\ StampingInv /\ FilesInv
      /\ live \in [Tables -> SUBSET Columns] /\ IsFiniteSet(dev)
  BY BaselineParts DEF Inv, FilesInv, QuestionsInv
<1>b. /\ \A t \in Tables : live[t] \subseteq live'[t]
      /\ touched \subseteq touched' /\ scored \subseteq scored'
      /\ StampBaseline \/ UNCHANGED base
  BY HistoryGrows
<1>c. ASSUME NEW r, NEW content, NEW clock, NEW from, Covers(r, content, clock, from)
      PROVE  /\ r = [content |-> content, schema |-> r.schema, clock |-> clock]
             /\ SchemaOf(r.schema) /\ Behind(from, r.schema) /\ Behind(r.schema, live')
             /\ Behind(r.schema, live)
  BY <1>b, <1>c DEF Covers, Behind
<1>1. BaseInv'
  <2>1. CASE StampBaseline
    <3>1. /\ base' = [content |-> Content, schema |-> schema, clock |-> cmd.clock]
          /\ UNCHANGED <<scored, touched>> /\ pc = "stamping"
          /\ pc' \in {"coaching", "reporting"}
      BY <2>1 DEF StampBaseline, Goto, state, hist
    <3>2. SchemaOf(schema)
      BY <1>a, <3>1 DEF SchemaInv, Introspected
    <3>3. ASSUME WholeProject \notin touched
          PROVE  Proven'
      <4>1. PICK r \in scored : Covers(r, Content, cmd.clock, schema)
        BY <1>a, <3>1, <3>3 DEF StampingInv
      <4>2. Covers(r, base.content, base.clock, base.schema)'
        BY <1>c, <3>1, <4>1 DEF Covers, SchemaOf, Behind
      <4>3. QED
        BY <3>1, <4>1, <4>2 DEF Proven
    <3>4. QED
      BY <3>1, <3>2, <3>3 DEF BaseInv, SchemaOf
  <2>2. CASE UNCHANGED base
    <3>1. ASSUME base # << >>, WholeProject \notin touched'
          PROVE  Proven'
      <4>1. PICK r \in scored :
               /\ Covers(r, base.content, base.clock, base.schema)
               /\ Introspected /\ pc \in {"drafting", "profiling", "planning"} =>
                    Behind(r.schema, schema)
        BY <1>a, <1>b, <3>1 DEF BaseInv, Proven
      <4>2. Covers(r, base.content, base.clock, base.schema)'
        BY <1>c, <2>2, <4>1 DEF Covers, SchemaOf, Behind
      <4>3. ASSUME Introspected', pc' \in {"drafting", "profiling", "planning"}
            PROVE  Behind(r.schema, schema')
        <5>1. CASE Introspect
          BY <1>c, <4>1, <5>1 DEF Introspect, Behind
        <5>2. CASE ~Introspect
          BY <4>1, <4>3, <5>2, Introspecting
        <5>3. QED
          BY <5>1, <5>2
      <4>4. r \in scored'
        BY <1>b
      <4>5. QED
        BY <4>2, <4>3, <4>4 DEF Proven, Behind
    <3>2. QED
      BY <1>a, <2>2, <3>1 DEF BaseInv, SchemaOf
  <2>3. QED
    BY <1>b, <2>1, <2>2
<1>2. ScoringInv'
  <2> SUFFICES ASSUME pc' = "scoring"
               PROVE  /\ seen' = [text |-> seen'.text, dev |-> seen'.dev, rest |-> seen'.rest]
                      /\ IsFiniteSet(seen'.dev)
                      /\ WholeProject \notin touched' => seen' = Content'
    BY DEF ScoringInv
  <2>1. CASE pc = "scoring"
    <3>1. UNCHANGED seen
      BY <2>1, WorkIsTracked
    <3>2. WholeProject \notin touched' => Content' = Content
      BY <2>1, WorkIsTracked DEF Content
    <3>3. QED
      BY <1>a, <1>b, <2>1, <3>1, <3>2 DEF ScoringInv
  <2>2. CASE pc # "scoring"
    <3>1. seen' = Content /\ UNCHANGED <<text, dev, rest>>
      BY <2>2, ComesToWork DEF StartEval, context
    <3>2. QED
      BY <1>a, <3>1 DEF Content
  <2>3. QED
    BY <2>1, <2>2
<1>3. StampingInv'
  <2> SUFFICES ASSUME pc' = "stamping", WholeProject \notin touched'
               PROVE  \E r \in scored' : Covers(r, Content, cmd.clock, schema)'
    BY DEF StampingInv
  <2>1. CASE pc = "stamping"
    <3>1. UNCHANGED <<text, dev, rest, cmd, schema, scored>>
      BY <2>1, WorkIsTracked
    <3>2. PICK r \in scored : Covers(r, Content, cmd.clock, schema)
      BY <1>a, <1>b, <2>1 DEF StampingInv
    <3>3. Covers(r, Content, cmd.clock, schema)'
      BY <1>c, <3>1, <3>2 DEF Covers, SchemaOf, Behind, Content
    <3>4. QED
      BY <3>1, <3>2, <3>3
  <2>2. CASE pc # "stamping"
    <3>1. EndEval
      BY <2>2, ComesToWork
    <3>2. PICK r : r = [content |-> seen, schema |-> live, clock |-> cmd.clock]
      OBVIOUS
    <3>3. /\ r \in scored' /\ pc = "scoring"
          /\ UNCHANGED <<live, text, dev, rest, cmd, schema, touched>>
      BY <3>1, <3>2 DEF EndEval, database, context, hist
    <3>4. seen = Content
      BY <1>a, <3>3 DEF ScoringInv
    <3>5. Behind(schema, live)
      BY <1>a, <3>3 DEF SchemaInv, Introspected
    <3>6. Covers(r, Content, cmd.clock, schema)'
      BY <1>a, <3>2, <3>3, <3>4, <3>5 DEF Covers, SchemaOf, Behind, Content
    <3>7. QED
      BY <3>3, <3>6
  <2>3. QED
    BY <2>1, <2>2
<1>4. QED
  <2>1. BaseInv' /\ ScoringInv' /\ StampingInv' => BaselineInv'
    BY DEF BaselineInv, BaseInv, Proven, ScoringInv, StampingInv
  <2>2. QED
    BY <1>1, <1>2, <1>3, <2>1

-----------------------------------------------------------------------------
(* What was annotated                                                      *)

\* A unit of the wave has been annotated, and its table is not stamped yet.
Pending(p) == stage[p] = "ok" /\ (pc = "wave" \/ (pc = "settling" /\ p \in left))

Earned(t, f) == [table |-> t, text |-> f] \in earned

LEMMA EarnedParts ==
  EarnedInv <=>
    /\ stamps \in [Tables -> File \cup {NoFile}]
    /\ \A t \in Tables \ touched : stamps[t] # NoFile => Earned(t, stamps[t])
    /\ \A p \in Tables : Pending(p) /\ plan.tables[p] \notin touched =>
                           Earned(plan.tables[p], text[plan.tables[p]])
BY DEF EarnedInv, Pending, Earned

LEMMA EarnedStep == Inv /\ [Next]_vars => EarnedInv'
<1> SUFFICES ASSUME Inv, [Next]_vars PROVE EarnedInv'
  OBVIOUS
<1>a. /\ WaveInv /\ FilesInv /\ PlanInv /\ LeftInv /\ HoldInv /\ left \subseteq Tables
      /\ text \in [Tables -> File \cup {NoFile}] /\ stage \in [Tables -> F!Stages]
      /\ stamps \in [Tables -> File \cup {NoFile}]
      /\ \A t \in Tables \ touched : stamps[t] # NoFile => Earned(t, stamps[t])
      /\ \A p \in Tables : Pending(p) /\ plan.tables[p] \notin touched =>
                             Earned(plan.tables[p], text[plan.tables[p]])
  BY EarnedParts DEF Inv, FilesInv, WaveInv, StepsInv
<1>b. touched \subseteq touched' /\ earned \subseteq earned' /\ (SettleTable \/ UNCHANGED stamps)
  BY HistoryGrows
<1>c. \A t, f : Earned(t, f) => Earned(t, f)'
  BY <1>b DEF Earned
<1>d. \A p \in Tables : Pending(p) => /\ p \in DOMAIN plan.tables /\ p <= Len(plan.tables)
                                      /\ plan.tables[p] \in Tables
  BY <1>a, PlannedTable DEF Pending, WaveInv
<1>1. stamps' \in [Tables -> File \cup {NoFile}]
      /\ \A t \in Tables \ touched' : stamps'[t] # NoFile => Earned(t, stamps[t])'
  <2>1. CASE UNCHANGED stamps
    BY <1>a, <1>b, <1>c, <2>1 DEF Earned
  <2>2. CASE SettleTable
    <3>1. PICK p : p = Min(left) /\ p \in left /\ p \in Tables
      BY <1>a, <2>2, FirstLeft DEF SettleTable
    <3>2. Pending(p)
      BY <1>a, <2>2, <3>1 DEF SettleTable, WaveInv, Pending
    <3>3. PICK t, f : t = plan.tables[p] /\ f = text[t] /\ t \in Tables
      BY <1>d, <3>1, <3>2
    <3>4. stamps' = [stamps EXCEPT ![t] = f] /\ UNCHANGED <<touched, earned>>
      BY <2>2, <3>1, <3>3 DEF SettleTable, hist
    <3>5. f \in File \cup {NoFile}
      BY <1>a, <3>3
    <3>6. t \notin touched => Earned(t, f)
      BY <1>a, <3>1, <3>2, <3>3
    <3>7. stamps' \in [Tables -> File \cup {NoFile}]
      BY <1>a, <3>4, <3>5
    <3>8. ASSUME NEW u \in Tables \ touched', stamps'[u] # NoFile
          PROVE  Earned(u, stamps'[u])
      BY <1>a, <3>3, <3>4, <3>6, <3>8
    <3>9. QED
      BY <3>4, <3>7, <3>8 DEF Earned
  <2>3. QED
    BY <1>b, <2>1, <2>2
<1>2. ASSUME NEW p \in Tables, Pending(p)', plan'.tables[p] \notin touched'
      PROVE  Earned(plan.tables[p], text[plan.tables[p]])'
  <2>a. ASSUME Pending(p), UNCHANGED plan, text'[plan.tables[p]] = text[plan.tables[p]]
        PROVE  Earned(plan.tables[p], text[plan.tables[p]])'
    BY <1>a, <1>b, <1>2, <1>c, <2>a DEF Earned
  <2>b. pc' \in {"wave", "settling"} /\ stage'[p] = "ok" /\ (pc' = "settling" => p \in left')
    BY <1>2 DEF Pending
  <2> USE DEF Goto
  <2>1. CASE Ends \/ Passes \/ Begin
    BY <2>b, <2>1, EndsLeave, PassesLeave DEF Begin
  <2>2. CASE UNCHANGED vars \/ MoveData \/ Grows \/ EditRest
    <3>1. UNCHANGED <<pc, stage, left, plan, text>>
      BY <2>2 DEF vars, context, memory, fanout, MoveData, Grows, AddColumn, EditRest
    <3>2. Pending(p)
      BY <1>2, <3>1 DEF Pending
    <3>3. QED
      BY <2>a, <3>1, <3>2
  <2>3. CASE Introspect \/ Draft \/ LoadForProfiling \/ WriteProfile \/ BuildPlan \/ Reselect
    BY <2>b, <2>3 DEF Introspect, Draft, LoadForProfiling, WriteProfile, BuildPlan, Reselect
  <2>4. CASE StartWave
    BY <2>b, <2>4 DEF StartWave
  <2>5. CASE EndWave
    <3>1. pc = "wave" /\ UNCHANGED <<stage, plan, text>>
      BY <2>5 DEF EndWave, F!End, context
    <3>2. Pending(p)
      BY <2>b, <3>1 DEF Pending
    <3>3. QED
      BY <2>a, <3>1, <3>2
  <2>6. CASE SettleTable
    <3>1. pc = "settling" /\ left' \subseteq left /\ UNCHANGED <<stage, plan, text, pc>>
      BY <2>6 DEF SettleTable, context, fanout
    <3>2. Pending(p)
      BY <2>b, <3>1 DEF Pending
    <3>3. QED
      BY <2>a, <3>1, <3>2
  <2>7. ASSUME NEW q \in Tables, ReadTable(q) \/ FailTable(q) \/ SkipTable(q)
        PROVE  Earned(plan.tables[p], text[plan.tables[p]])'
    <3>1. /\ pc = "wave" /\ UNCHANGED <<pc, plan, text>>
          /\ \E s \in {"running", "failed", "skipped"} : stage' = [stage EXCEPT ![q] = s]
      BY <1>a, <2>7, ReadsOne, FailsOne, SkipsOne DEF Stays
    <3>2. stage[p] = "ok"
      BY <1>a, <2>b, <3>1
    <3>3. Pending(p)
      BY <3>1, <3>2 DEF Pending
    <3>4. QED
      BY <2>a, <3>1, <3>3
  <2>8. ASSUME NEW q \in Tables, WriteTable(q)
        PROVE  Earned(plan.tables[p], text[plan.tables[p]])'
    <3>1. /\ pc = "wave" /\ stage[q] = "running" /\ stage' = [stage EXCEPT ![q] = "ok"]
          /\ UNCHANGED <<pc, plan>>
      BY <1>a, <2>8, WritesOne
    <3>2. PICK d \in AnnotationDraft, dollars \in 1..MaxCost :
            /\ text' = [text EXCEPT ![plan.tables[q]] = Annotated(hold[plan.tables[q]], d)]
            /\ earned' = earned \cup {[table |-> plan.tables[q],
                                       text |-> Annotated(hold[plan.tables[q]], d)]}
            /\ costs' = [costs EXCEPT ![q] = dollars]
            /\ billed' = billed + dollars
      BY <1>a, <2>8, WritesOne
    <3>3. PICK t, f : t = plan.tables[q] /\ f = Annotated(hold[t], d)
      OBVIOUS
    <3>4. t \in Tables /\ q \in DOMAIN plan.tables
      BY <1>a, <3>1, <3>3, PlannedTable
    <3>5. text' = [text EXCEPT ![t] = f] /\ [table |-> t, text |-> f] \in earned'
      BY <3>2, <3>3
    <3>6. CASE p = q
      <4>1. text'[t] = f
        BY <1>a, <3>4, <3>5
      <4>2. QED
        BY <3>1, <3>3, <3>5, <3>6, <4>1 DEF Earned
    <3>7. CASE p # q
      <4>1. stage[p] = "ok"
        BY <1>a, <2>b, <3>1, <3>7
      <4>2. Pending(p)
        BY <3>1, <4>1 DEF Pending
      <4>3. plan.tables[p] # t
        BY <1>a, <1>d, <3>3, <3>4, <3>7, <4>2 DEF PlanInv, IsPlan
      <4>4. text'[plan.tables[p]] = text[plan.tables[p]]
        BY <1>a, <1>d, <3>5, <4>2, <4>3
      <4>5. QED
        BY <2>a, <3>1, <4>2, <4>4
    <3>8. QED
      BY <3>6, <3>7
  <2>9. CASE PickTable \/ AnnotateTable \/ SkipFailedTable \/ MeterTable \/ SaveReview
    BY <2>b, <2>9 DEF PickTable, AnnotateTable, SkipFailedTable, MeterTable, SaveReview
  <2>10. CASE Synthesize \/ Queue \/ Seed \/ StartEval \/ EndEval \/ StampBaseline \/ Coach
    BY <2>b, <2>10 DEF Synthesize, Queue, Seed, StartEval, EndEval, StampBaseline, Coach
  <2>11. CASE Edits
    <3>1. PICK t \in Tables, k \in Keys, f \in File, mark \in Marks : Edited(t, k, f, mark)
      BY <1>a, <2>11, EditsOne
    <3>2. UNCHANGED <<pc, stage, left, plan>>
      BY <1>a, <2>11, EditsOne
    <3>3. Pending(p)
      BY <1>2, <3>2 DEF Pending
    <3>4. plan.tables[p] # t
      <4>1. SUFFICES ASSUME plan.tables[p] = t PROVE FALSE
        OBVIOUS
      <4>2. StampPending(t)
        BY <1>d, <3>3, <4>1 DEF StampPending, Pending
      <4>3. t \in touched'
        BY <3>1, <4>2 DEF Edited
      <4>4. QED
        BY <1>2, <3>2, <4>1, <4>3
    <3>5. text' = [text EXCEPT ![t] = f]
      BY <3>1 DEF Edited
    <3>6. text'[plan.tables[p]] = text[plan.tables[p]]
      BY <1>a, <1>d, <3>3, <3>4, <3>5
    <3>7. QED
      BY <2>a, <3>2, <3>3, <3>6
  <2>12. QED
    BY <2>1, <2>2, <2>3, <2>4, <2>5, <2>6, <2>7, <2>8, <2>9, <2>10, <2>11, NextIs
<1>3. QED
  <2>1. /\ stamps' \in [Tables -> File \cup {NoFile}]
        /\ \A t \in Tables \ touched' : stamps'[t] # NoFile =>
             [table |-> t, text |-> stamps'[t]] \in earned'
    BY <1>1 DEF Earned
  <2>2. ASSUME NEW p \in Tables, pc' = "wave" \/ (pc' = "settling" /\ p \in left'),
               stage'[p] = "ok", plan'.tables[p] \notin touched'
        PROVE  [table |-> plan'.tables[p], text |-> text'[plan'.tables[p]]] \in earned'
    BY <1>2, <2>2 DEF Pending, Earned
  <2>3. QED
    BY <2>1, <2>2 DEF EarnedInv

-----------------------------------------------------------------------------
(* Money                                                                   *)

\* What a step bills, meters, books for the eval and wastes.
Moves(bill, meter, eval, waste) ==
  /\ billed' = billed + bill /\ wasted' = wasted + waste
  /\ spent' = spent + meter /\ evalCost' = evalCost + eval
  /\ ledger' = ledger + meter + eval

HasEval == {"stamping", "coaching", "reporting"}

LEMMA OkUnits ==
  ASSUME StepsInv
  PROVE  /\ F!In("ok") \subseteq Tables /\ IsFiniteSet(F!In("ok"))
         /\ left \subseteq Tables /\ IsFiniteSet(left)
<1>1. IsFiniteSet(Tables)
  BY IntervalSize, ProjectInitAssumption DEF Tables
<1>2. F!In("ok") \subseteq Tables /\ left \subseteq Tables
  BY DEF StepsInv, F!In, F!Positions, Tables
<1>3. QED
  BY <1>1, <1>2, FS_Subset

LEMMA OwedIsNat ==
  ASSUME StepsInv, MoneyInv
  PROVE  Owed \in Nat
<1>1. costs \in [Tables -> Nat]
  BY DEF MoneyInv
<1>2. \A S : S \subseteq Tables => \A x \in S : costs[x] \in Nat
  BY <1>1
<1>3. Total(costs, F!In("ok")) \in Nat
  <2>1. PICK S : S = F!In("ok")
    OBVIOUS
  <2>2. IsFiniteSet(S) /\ S \subseteq Tables
    BY <2>1, OkUnits
  <2>3. Total(costs, S) \in Nat
    BY <1>2, <2>2, TotalIsNat
  <2>4. QED
    BY <2>1, <2>3
<1>4. Total(costs, left) \in Nat
  <2>1. PICK S : S = left
    OBVIOUS
  <2>2. IsFiniteSet(S) /\ S \subseteq Tables
    BY <2>1, OkUnits
  <2>3. Total(costs, S) \in Nat
    BY <1>2, <2>2, TotalIsNat
  <2>4. QED
    BY <2>1, <2>3
<1>5. costs[1] \in Nat
  BY <1>1, ProjectInitAssumption DEF Tables
<1>6. QED
  BY <1>3, <1>4, <1>5 DEF Owed

\* A step balances when what it bills and what was owed is metered, booked, wasted or owed.
LEMMA Balances ==
  ASSUME StepsInv, MoneyInv, pc # "idle", costs' \in [Tables -> Nat],
         NEW bill \in Nat, NEW meter \in Nat, NEW eval \in Nat, NEW waste \in Nat,
         NEW owed \in Nat,
         Moves(bill, meter, eval, waste), Owed' = owed,
         Owed + bill = owed + meter + eval + waste,
         pc' \in HasEval \/ (pc \notin HasEval /\ eval = 0 /\ pc' # "idle")
  PROVE  MoneyInv'
<1>1. /\ ledger \in Nat /\ spent \in Nat /\ evalCost \in Nat /\ billed \in Nat /\ wasted \in Nat
      /\ pc \notin HasEval => evalCost = 0
      /\ ledger = spent + evalCost /\ billed = ledger + wasted + Owed
  BY DEF MoneyInv, HasEval
<1>2. PICK o : o = Owed /\ o \in Nat
  BY OwedIsNat
<1>3. /\ ledger' \in Nat /\ spent' \in Nat /\ evalCost' \in Nat /\ billed' \in Nat
      /\ wasted' \in Nat
  BY <1>1 DEF Moves
<1>4. ledger' = spent' + evalCost'
  BY <1>1 DEF Moves
<1>5. billed' = ledger' + wasted' + owed
  BY <1>1, <1>2 DEF Moves
<1>6. pc' # "idle"
  BY DEF HasEval
<1>7. pc' \notin HasEval => evalCost' = 0
  BY <1>1 DEF Moves
<1>8. QED
  BY <1>3, <1>4, <1>5, <1>6, <1>7 DEF MoneyInv, HasEval

LEMMA MoneyStep == Inv /\ [Next]_vars => MoneyInv'
<1> SUFFICES ASSUME Inv, [Next]_vars PROVE MoneyInv'
  OBVIOUS
<1>a. /\ StepsInv /\ WaveInv /\ FilesInv /\ MoneyInv /\ BaselineInv
      /\ ledger \in Nat /\ spent \in Nat /\ evalCost \in Nat /\ billed \in Nat /\ wasted \in Nat
      /\ costs \in [Tables -> Nat] /\ stage \in [Tables -> F!Stages]
      /\ pc = "idle" => spent = 0 /\ evalCost = 0
  BY DEF Inv, MoneyInv, WaveInv
<1>b. PICK o : o = Owed /\ o \in Nat
  BY <1>a, OwedIsNat
<1>c. 1 \in Tables /\ MaxCost \in Nat
  BY ProjectInitAssumption DEF Tables
<1>d. UNCHANGED <<ledger, spent, evalCost, billed, wasted>> => Moves(0, 0, 0, 0)
  BY <1>a DEF Moves
<1>e. ASSUME UNCHANGED <<ledger, spent, evalCost, billed, wasted, costs>>, Owed' = Owed,
             pc # "idle", pc' \in HasEval \/ (pc \notin HasEval /\ pc' # "idle")
      PROVE  MoneyInv'
  <2>1. Moves(0, 0, 0, 0) /\ o + 0 = o + 0 + 0 + 0
    BY <1>b, <1>d, <1>e
  <2>2. QED
    BY <1>a, <1>b, <1>e, <2>1, Balances
<1>f. ASSUME UNCHANGED <<ledger, spent, evalCost, costs>>,
             NEW dollars \in 0..MaxCost, billed' = billed + dollars, wasted' = wasted + dollars,
             Owed' = Owed, pc \notin HasEval, pc # "idle", pc' # "idle"
      PROVE  MoneyInv'
  <2>1. dollars \in Nat
    BY <1>c
  <2>2. Moves(dollars, 0, 0, dollars) /\ o + dollars = o + 0 + 0 + dollars
    BY <1>a, <1>b, <1>f, <2>1 DEF Moves
  <2>3. QED
    BY <1>a, <1>b, <1>f, <2>1, <2>2, Balances
<1>1. CASE Ends
  <2>1. /\ pc' = "idle" /\ costs' = [t \in Tables |-> 0] /\ spent' = 0 /\ evalCost' = 0
        /\ ledger' = ledger
    BY <1>1, EndsLeave
  <2>2. billed' \in Nat /\ wasted' \in Nat
    <3>1. CASE UNCHANGED <<billed, wasted>>
      BY <1>a, <3>1
    <3>2. CASE \E dollars \in 0..MaxCost :
                 billed' = billed + dollars /\ wasted' = wasted + dollars
      BY <1>a, <1>c, <3>2
    <3>3. QED
      BY <1>1, <3>1, <3>2, EndsLeave
  <2>3. QED
    BY <1>a, <2>1, <2>2 DEF MoneyInv
<1>2. CASE Passes
  <2>1. /\ UNCHANGED <<ledger, spent, evalCost, billed, wasted, costs, left>>
        /\ pc # "idle" /\ pc' # "idle"
        /\ pc' \in HasEval \/ pc \notin HasEval
        /\ pc \notin {"wave", "metering", "queueing"} /\ (pc = "settling" => left = {})
        /\ pc' \notin {"wave", "settling", "metering", "queueing"}
    BY <1>2, PassesLeave DEF HasEval
  <2>2. Owed = 0
    <3>1. CASE pc = "settling"
      BY <2>1, <3>1, TotalOfNothing DEF Owed
    <3>2. CASE pc # "settling"
      BY <2>1, <3>2 DEF Owed
    <3>3. QED
      BY <3>1, <3>2
  <2>3. Owed' = 0
    BY <2>1 DEF Owed
  <2>4. QED
    BY <1>e, <2>1, <2>2, <2>3
<1>3. CASE UNCHANGED vars \/ MoveData \/ Grows \/ EditRest \/ Edits
  <2>1. UNCHANGED <<ledger, spent, evalCost, billed, wasted, costs, pc, stage, left>>
    <3>1. CASE Edits
      BY <1>a, <3>1, EditsOne
    <3>2. CASE UNCHANGED vars \/ MoveData \/ Grows \/ EditRest
      BY <3>2 DEF vars, memory, money, fanout, MoveData, Grows, AddColumn, EditRest
    <3>3. QED
      BY <1>3, <3>1, <3>2
  <2>2. Owed' = Owed
    BY <2>1 DEF Owed, F!In
  <2>3. CASE pc = "idle"
    BY <1>a, <2>1, <2>3 DEF MoneyInv
  <2>4. CASE pc # "idle"
    BY <1>e, <2>1, <2>2, <2>4 DEF HasEval
  <2>5. QED
    BY <2>3, <2>4
<1>4. CASE Begin
  <2>1. /\ UNCHANGED <<spent, evalCost, costs>> /\ pc = "idle"
        /\ ledger' = 0 /\ billed' = 0 /\ wasted' = 0
        /\ pc' \in {"introspecting", "reporting", "profiling", "picking"}
    BY <1>4 DEF Begin
  <2>2. Owed' = 0
    BY <2>1 DEF Owed
  <2>3. QED
    BY <1>a, <2>1, <2>2 DEF MoneyInv
<1>5. CASE Introspect \/ Draft \/ LoadForProfiling \/ WriteProfile \/ BuildPlan \/ Reselect
  <2>1. /\ UNCHANGED <<ledger, spent, evalCost, billed, wasted, costs>>
        /\ pc \in {"introspecting", "drafting", "profiling", "planning", "confirming"}
        /\ pc' \in {"drafting", "profiling", "reporting", "annotating", "confirming"}
    BY <1>5 DEF Introspect, Draft, LoadForProfiling, WriteProfile, BuildPlan, Reselect, Goto,
       money
  <2>2. Owed = 0 /\ Owed' = 0
    BY <2>1 DEF Owed
  <2>3. QED
    BY <1>e, <2>1, <2>2 DEF HasEval
<1>6. CASE StartWave
  <2>1. /\ UNCHANGED <<ledger, spent, evalCost, billed, wasted, costs>>
        /\ pc = "annotating" /\ pc' = "wave"
        /\ stage' = [p \in Tables |-> IF p <= Len(plan.tables) THEN "pending" ELSE "absent"]
    BY <1>6 DEF StartWave, Goto, money, memory
  <2>2. F!In("ok")' = {}
    BY <2>1 DEF F!In, F!Positions, Tables
  <2>3. Owed' = 0
    BY <2>1, <2>2, TotalOfNothing DEF Owed
  <2>4. Owed = 0
    BY <2>1 DEF Owed
  <2>5. QED
    BY <1>e, <2>1, <2>3, <2>4 DEF HasEval
<1>7. CASE EndWave
  <2>1. /\ UNCHANGED <<ledger, spent, evalCost, billed, wasted, costs>>
        /\ pc = "wave" /\ pc' = "settling" /\ left' = F!In("ok")
    BY <1>7 DEF EndWave, Goto, money
  <2>2. Owed' = Owed
    BY <2>1 DEF Owed
  <2>3. QED
    BY <1>e, <2>1, <2>2 DEF HasEval
<1>8. ASSUME NEW p \in Tables, ReadTable(p) \/ SkipTable(p)
      PROVE  MoneyInv'
  <2>1. /\ UNCHANGED <<ledger, spent, evalCost, billed, wasted, costs, pc>>
        /\ pc = "wave" /\ stage[p] = "pending"
        /\ \E s \in {"running", "skipped"} : stage' = [stage EXCEPT ![p] = s]
    BY <1>8, ReadsOne, SkipsOne
  <2>2. F!In("ok")' = F!In("ok")
    BY <1>a, <2>1 DEF F!In, F!Positions, Tables
  <2>3. Owed' = Owed
    BY <2>1, <2>2 DEF Owed
  <2>4. QED
    BY <1>e, <2>1, <2>3 DEF HasEval
<1>9. ASSUME NEW p \in Tables, FailTable(p)
      PROVE  MoneyInv'
  <2>1. /\ UNCHANGED <<ledger, spent, evalCost, costs, pc>>
        /\ pc = "wave" /\ stage[p] = "running" /\ stage' = [stage EXCEPT ![p] = "failed"]
        /\ \E dollars \in 0..MaxCost : billed' = billed + dollars /\ wasted' = wasted + dollars
    BY <1>a, <1>9, FailsOne
  <2>2. F!In("ok")' = F!In("ok")
    BY <1>a, <2>1 DEF F!In, F!Positions, Tables
  <2>3. Owed' = Owed
    BY <2>1, <2>2 DEF Owed
  <2>4. QED
    BY <1>f, <2>1, <2>3 DEF HasEval
<1>10. ASSUME NEW p \in Tables, WriteTable(p)
       PROVE  MoneyInv'
  <2>1. /\ UNCHANGED <<ledger, spent, evalCost, wasted, pc>>
        /\ pc = "wave" /\ stage[p] = "running" /\ stage' = [stage EXCEPT ![p] = "ok"]
    BY <1>a, <1>10, WritesOne
  <2>2. PICK dollars \in 1..MaxCost :
          costs' = [costs EXCEPT ![p] = dollars] /\ billed' = billed + dollars
    BY <1>a, <1>10, WritesOne
  <2>3. PICK S, T, g : S = F!In("ok") /\ T = F!In("ok")' /\ g = costs'
    OBVIOUS
  <2>4. T = S \cup {p} /\ p \notin S /\ T \ {p} = S
    BY <1>a, <2>1, <2>3 DEF F!In, F!Positions, Tables
  <2>5. S \subseteq Tables /\ IsFiniteSet(S) /\ IsFiniteSet(T)
    BY <1>a, <2>3, <2>4, OkUnits, FS_AddElement
  <2>6. dollars \in Nat /\ g \in [Tables -> Nat] /\ g[p] = dollars
    BY <1>a, <1>c, <2>2, <2>3
  <2>7. Total(g, T) = g[p] + Total(g, S)
    <3>1. p \in T /\ \A x \in T : g[x] \in Nat
      BY <2>4, <2>5, <2>6
    <3>2. Total(g, T) = g[p] + Total(g, T \ {p})
      BY <2>5, <3>1, TotalSplits
    <3>3. QED
      BY <2>4, <3>2
  <2>8. Total(g, S) = Total(costs, S)
    <3>1. \A x \in S : g[x] = costs[x]
      BY <1>a, <2>2, <2>3, <2>4, <2>5
    <3>2. QED
      BY <3>1, TotalsAgree
  <2>9. Owed = Total(costs, S) /\ Owed' = Total(g, T)
    BY <2>1, <2>3 DEF Owed
  <2>10. Owed' = dollars + o /\ dollars + o \in Nat
    BY <1>b, <2>6, <2>7, <2>8, <2>9
  <2>11. Moves(dollars, 0, 0, 0) /\ o + dollars = (dollars + o) + 0 + 0 + 0
    BY <1>a, <1>b, <2>1, <2>2, <2>6 DEF Moves
  <2>12. PICK owed : owed = dollars + o
    OBVIOUS
  <2>13. QED
    BY <1>a, <1>b, <2>1, <2>3, <2>6, <2>10, <2>11, <2>12, Balances DEF HasEval
<1>11. CASE SettleTable
  <2>1. PICK p : p = Min(left) /\ p \in left /\ p \in Tables
    BY <1>a, <1>11, FirstLeft DEF SettleTable, StepsInv
  <2>2. /\ pc = "settling" /\ UNCHANGED <<pc, costs, evalCost, billed, wasted>>
        /\ spent' = spent + costs[p] /\ ledger' = ledger + costs[p] /\ left' = left \ {p}
    BY <1>11, <2>1 DEF SettleTable, Meter
  <2>3. PICK S, c : S = left /\ c = costs[p] /\ c \in Nat
    BY <1>a, <2>1
  <2>4. IsFiniteSet(S) /\ S \subseteq Tables
    BY <1>a, <2>3, OkUnits
  <2>5. /\ Total(costs, S) = c + Total(costs, S \ {p})
        /\ Total(costs, S \ {p}) \in Nat
    <3>1. p \in S /\ \A x \in S : costs[x] \in Nat
      BY <1>a, <2>1, <2>3, <2>4
    <3>2. Total(costs, S) = c + Total(costs, S \ {p})
      BY <2>3, <2>4, <3>1, TotalSplits
    <3>3. IsFiniteSet(S \ {p}) /\ \A x \in S \ {p} : costs[x] \in Nat
      BY <2>4, <3>1, FS_RemoveElement
    <3>4. Total(costs, S \ {p}) \in Nat
      <4>1. PICK R : R = S \ {p}
        OBVIOUS
      <4>2. QED
        BY <3>3, <4>1, TotalIsNat
    <3>5. QED
      BY <3>2, <3>4
  <2>6. PICK owed : owed = Total(costs, S \ {p})
    OBVIOUS
  <2>7. o = c + owed /\ owed \in Nat /\ Owed' = owed
    BY <1>b, <2>2, <2>3, <2>5, <2>6 DEF Owed
  <2>8. Moves(0, c, 0, 0) /\ o + 0 = owed + c + 0 + 0
    BY <1>a, <1>b, <2>2, <2>3, <2>7 DEF Moves
  <2>9. costs' \in [Tables -> Nat]
    BY <1>a, <2>2
  <2>10. QED
    BY <1>a, <1>b, <2>2, <2>3, <2>7, <2>8, <2>9, Balances DEF HasEval
<1>12. CASE PickTable \/ SaveReview
  <2>1. /\ UNCHANGED <<ledger, spent, evalCost, billed, wasted, costs>>
        /\ pc \in {"picking", "saving"} /\ pc' \in {"asking", "saving", "reporting"}
    BY <1>12 DEF PickTable, SaveReview, Goto, money, memory
  <2>2. Owed = 0 /\ Owed' = 0
    BY <2>1 DEF Owed
  <2>3. QED
    BY <1>e, <2>1, <2>2 DEF HasEval
<1>13. CASE AnnotateTable \/ Synthesize
  <2>1. PICK dollars \in 1..MaxCost :
          costs' = [costs EXCEPT ![1] = dollars] /\ billed' = billed + dollars
    BY <1>13 DEF AnnotateTable, Synthesize, Bill
  <2>2. /\ UNCHANGED <<ledger, spent, evalCost, wasted>>
        /\ pc \in {"asking", "synthesizing"} /\ pc' \in {"metering", "queueing"}
    BY <1>13 DEF AnnotateTable, Synthesize, Goto
  <2>3. dollars \in Nat
    BY <1>c
  <2>4. costs' \in [Tables -> Nat] /\ costs'[1] = dollars
    BY <1>a, <1>c, <2>1, <2>3
  <2>5. Owed = 0 /\ Owed' = dollars
    BY <2>2, <2>4 DEF Owed
  <2>6. Moves(dollars, 0, 0, 0) /\ 0 + dollars = dollars + 0 + 0 + 0
    BY <1>a, <2>1, <2>2, <2>3 DEF Moves
  <2>7. QED
    BY <1>a, <2>2, <2>3, <2>4, <2>5, <2>6, Balances DEF HasEval
<1>14. CASE SkipFailedTable
  <2>1. /\ UNCHANGED <<ledger, spent, evalCost, costs>>
        /\ pc = "asking" /\ pc' = "picking"
        /\ \E dollars \in 0..MaxCost : billed' = billed + dollars /\ wasted' = wasted + dollars
    BY <1>14 DEF SkipFailedTable, Waste, Bill, Goto
  <2>2. Owed = 0 /\ Owed' = 0
    BY <2>1 DEF Owed
  <2>3. QED
    BY <1>f, <2>1, <2>2 DEF HasEval
<1>15. CASE MeterTable \/ Queue
  <2>1. PICK c : c = costs[1] /\ c \in Nat
    BY <1>a, <1>c
  <2>2. /\ UNCHANGED <<costs, evalCost, billed, wasted>>
        /\ spent' = spent + c /\ ledger' = ledger + c
        /\ pc \in {"metering", "queueing"} /\ pc' \in {"picking", "seeding"}
    BY <1>15, <2>1 DEF MeterTable, Queue, Meter, Goto
  <2>3. Owed = c /\ Owed' = 0
    BY <2>1, <2>2 DEF Owed
  <2>4. Moves(0, c, 0, 0) /\ c + 0 = 0 + c + 0 + 0
    BY <1>a, <2>1, <2>2 DEF Moves
  <2>5. costs' \in [Tables -> Nat]
    BY <1>a, <2>2
  <2>6. QED
    BY <1>a, <2>1, <2>2, <2>3, <2>4, <2>5, Balances DEF HasEval
<1>16. CASE Seed \/ StartEval \/ StampBaseline
  <2>1. /\ UNCHANGED <<ledger, spent, evalCost, billed, wasted, costs>>
        /\ \/ pc \in {"seeding", "evaluating"} /\ pc' \in {"evaluating", "scoring"}
           \/ pc = "stamping" /\ pc' \in {"coaching", "reporting"}
    BY <1>16 DEF Seed, StartEval, StampBaseline, Goto, money, memory
  <2>2. Owed = 0 /\ Owed' = 0
    BY <2>1 DEF Owed
  <2>3. QED
    BY <1>e, <2>1, <2>2 DEF HasEval
<1>17. CASE EndEval
  <2>1. PICK dollars \in EvalCosts : /\ billed' = billed + dollars /\ ledger' = ledger + dollars
                                     /\ evalCost' = dollars
    BY <1>17 DEF EndEval, Bill
  <2>2. UNCHANGED <<costs, spent, wasted>> /\ pc = "scoring" /\ pc' = "stamping"
    BY <1>17 DEF EndEval, Goto
  <2>3. dollars \in Nat
    <3>1. PICK n : n = Cardinality(seen.dev) /\ n \in Nat
      BY <1>a, <2>2, FS_CardinalityType DEF BaselineInv
    <3>2. PICK top : top = n * MaxCost /\ top \in Nat
      BY <1>c, <3>1
    <3>3. dollars \in n..top
      BY <3>1, <3>2 DEF EvalCosts
    <3>4. QED
      BY <3>1, <3>2, <3>3
  <2>4. evalCost = 0
    BY <1>a, <2>2 DEF MoneyInv
  <2>5. Moves(dollars, 0, dollars, 0) /\ 0 + dollars = 0 + 0 + dollars + 0
    BY <1>a, <2>1, <2>2, <2>3, <2>4 DEF Moves
  <2>6. Owed = 0 /\ Owed' = 0
    BY <2>2 DEF Owed
  <2>7. costs' \in [Tables -> Nat]
    BY <1>a, <2>2
  <2>8. QED
    BY <1>a, <2>2, <2>3, <2>5, <2>6, <2>7, Balances DEF HasEval
<1>18. CASE Coach
  <2>1. PICK dollars \in 1..MaxCost : /\ billed' = billed + dollars /\ ledger' = ledger + dollars
                                      /\ spent' = spent + dollars
    BY <1>18 DEF Coach, Bill, Meter
  <2>2. UNCHANGED <<costs, evalCost, wasted>> /\ pc = "coaching" /\ pc' = "reporting"
    BY <1>18 DEF Coach, Goto
  <2>3. dollars \in Nat
    BY <1>c
  <2>4. Moves(dollars, dollars, 0, 0) /\ 0 + dollars = 0 + dollars + 0 + 0
    BY <1>a, <2>1, <2>2, <2>3 DEF Moves
  <2>5. Owed = 0 /\ Owed' = 0
    BY <2>2 DEF Owed
  <2>6. costs' \in [Tables -> Nat]
    BY <1>a, <2>2
  <2>7. QED
    BY <1>a, <2>2, <2>3, <2>4, <2>5, <2>6, Balances DEF HasEval
<1>19. QED
  BY <1>1, <1>2, <1>3, <1>4, <1>5, <1>6, <1>7, <1>8, <1>9, <1>10, <1>11, <1>12, <1>13, <1>14,
     <1>15, <1>16, <1>17, <1>18, NextIs

-----------------------------------------------------------------------------
(* The theorems                                                            *)

LEMMA InvInit == Init => Inv
<1> SUFFICES ASSUME Init PROVE Inv
  OBVIOUS
<1>a. /\ NTables \in Nat /\ NTables > 0 /\ 1 \in Tables
      /\ FirstColumns \in [Tables -> SUBSET Columns]
      /\ MaxData \in Nat /\ MaxData > 0 /\ MaxEvents \in Nat /\ MaxCommands \in Nat
  BY ProjectInitAssumption, SemanticsFileAssumption DEF Tables
<1>b. /\ data = 1 /\ live = FirstColumns
      /\ text = [t \in Tables |-> NoFile] /\ hold = [t \in Tables |-> NoFile]
      /\ stamps = [t \in Tables |-> NoFile]
      /\ pc = "idle" /\ plan = NoPlan /\ left = {} /\ marks = {} /\ touched = {}
  BY DEF Init
<1>1. FilesInv /\ MarksInv
  BY <1>a, <1>b DEF FilesInv, MarksInv
<1>2. QuestionsInv
  BY <1>b, FS_EmptySet DEF Init, QuestionsInv
<1>3. BoundsInv
  BY <1>a, <1>b DEF Init, BoundsInv
<1>4. StepsInv
  BY <1>b DEF Init, F!Init, StepsInv, Steps
<1>5. PlanInv
  <2>1. PICK p : p = NoPlan
    OBVIOUS
  <2>2. p \in [tables : Seq(Tables), synth : BOOLEAN, eval : BOOLEAN] /\ p.tables = << >>
    BY <2>1 DEF NoPlan
  <2>3. QED
    BY <1>a, <1>b, <2>1, <2>2 DEF PlanInv, IsPlan
<1>6. WaveInv
  BY <1>b DEF Init, F!Init, F!Positions, F!Stages, Tables, WaveInv
<1>7. LeftInv /\ HoldInv /\ SchemaInv
  BY <1>b DEF LeftInv, HoldInv, SchemaInv, Introspected
<1>8. BaselineInv
  BY <1>b DEF Init, BaselineInv
<1>9. EarnedInv
  BY <1>b DEF EarnedInv
<1>10. MoneyInv
  BY <1>a, <1>b DEF Init, MoneyInv
<1>11. QED
  BY <1>1, <1>2, <1>3, <1>4, <1>5, <1>6, <1>7, <1>8, <1>9, <1>10 DEF Inv

LEMMA InvStep == Inv /\ [Next]_vars => Inv'
<1>1. ASSUME Inv, [Next]_vars
      PROVE  /\ FilesInv' /\ MarksInv' /\ QuestionsInv' /\ BoundsInv' /\ StepsInv' /\ PlanInv'
             /\ WaveInv' /\ LeftInv' /\ HoldInv' /\ SchemaInv' /\ BaselineInv' /\ EarnedInv'
             /\ MoneyInv'
  BY <1>1, FilesStep, MarksStep, QuestionsStep, BoundsStep, StepsStep, PlanStep, WaveStep,
     LeftStep, HoldStep, SchemaStep, BaselineStep, EarnedStep, MoneyStep
<1>2. QED
  BY <1>1 DEF Inv

LEMMA SpecInv == Spec => []Inv
<1>1. QED
  BY InvInit, InvStep, PTL DEF Spec

\* Types, and nothing in memory but what the command at work needs.
THEOREM TypeCorrect == Spec => []TypeOK
<1>1. Inv => TypeOK
  <2> SUFFICES ASSUME Inv PROVE TypeOK
    OBVIOUS
  <2>1. /\ data \in 1..MaxData /\ live \in [Tables -> SUBSET Columns]
        /\ text \in [Tables -> File \cup {NoFile}] /\ hold \in [Tables -> File \cup {NoFile}]
    BY DEF Inv, FilesInv
  <2>2. queue \subseteq Questions /\ dev \subseteq Questions /\ review \subseteq Tables \X Keys
    BY DEF Inv, QuestionsInv
  <2>3. /\ rest \in 0..MaxEvents /\ commands \in 0..MaxCommands /\ events \in 0..MaxEvents
        /\ touched \subseteq Tables \cup {WholeProject}
    <3>1. MaxEvents \in Nat
      BY ProjectInitAssumption
    <3>2. QED
      BY <3>1 DEF Inv, BoundsInv
  <2>4. stamps \in [Tables -> File \cup {NoFile}]
    BY DEF Inv, EarnedInv
  <2>5. {ledger, spent, evalCost, billed, wasted} \subseteq Nat /\ costs \in [Tables -> Nat]
    BY DEF Inv, MoneyInv
  <2>6. /\ pc \in Steps /\ (pc # "idle" => cmd \in Commands)
        /\ left \subseteq Tables /\ open = (pc = "wave")
        /\ pc = "idle" => plan = NoPlan /\ drafted = {} /\ seen = << >>
    BY DEF Inv, StepsInv, QuestionsInv
  <2>7. \A t \in Tables : hold[t] # NoFile => pc \in {"profiling", "wave", "asking"}
    BY DEF Inv, HoldInv
  <2>8. plan \in [tables : Seq(Tables), synth : BOOLEAN, eval : BOOLEAN]
    BY DEF Inv, PlanInv, IsPlan
  <2>9. DOMAIN stage = Tables
    BY DEF Inv, WaveInv
  <2>10. QED
    BY <2>1, <2>2, <2>3, <2>4, <2>5, <2>6, <2>7, <2>8, <2>9 DEF TypeOK
<1>2. QED
  BY <1>1, SpecInv, PTL

\* Whatever init, introspect, profile and annotate do, a description a person wrote and a
\* `profile: false' stay in the file, and an opted-out column has no statistics.
THEOREM TheirHandsAreRespected == Spec => []HandsAreRespected
<1>1. Inv => HandsAreRespected
  BY NoFileIsNoFile DEF Inv, FilesInv, Clean, MarksInv, Respects, HandsAreRespected
<1>2. QED
  BY <1>1, SpecInv, PTL

\* A table init skips has the text the wave wrote, and a baseline it keeps is a saved run
\* over these files, schema and clock.
THEOREM SkipsHold == Spec => []SkipsAreEarned
<1>1. Inv => SkipsAreEarned
  <2> SUFFICES ASSUME Inv PROVE SkipsAreEarned
    OBVIOUS
  <2>1. ASSUME NEW t \in Tables \ touched, text[t] # NoFile,
               ~NeedsAnnotation(text[t], stamps[t])
        PROVE  [table |-> t, text |-> text[t]] \in earned
    <3>1. stamps[t] = text[t]
      BY <2>1 DEF NeedsAnnotation
    <3>2. QED
      BY <2>1, <3>1 DEF Inv, EarnedInv
  <2>2. ASSUME WholeProject \notin touched, pc = "planning", BaselineIsCurrent
        PROVE  [content |-> Content, schema |-> schema, clock |-> cmd.clock] \in scored
    <3>1. /\ base # << >> /\ base.content = Content /\ base.schema = schema
          /\ base.clock = cmd.clock
      BY <2>2 DEF BaselineIsCurrent
    <3>2. PICK r \in scored : /\ Covers(r, base.content, base.clock, base.schema)
                              /\ Behind(r.schema, schema)
      BY <2>2, <3>1 DEF Inv, BaselineInv, Introspected
    <3>3. SchemaOf(schema) /\ SchemaOf(r.schema) /\ Behind(schema, r.schema)
      BY <2>2, <3>1, <3>2 DEF Inv, SchemaInv, Introspected, Covers
    <3>4. r.schema = schema
      <4>1. \A t \in Tables : r.schema[t] = schema[t]
        BY <3>2, <3>3 DEF Behind
      <4>2. QED
        BY <3>3, <4>1 DEF SchemaOf
    <3>5. QED
      BY <3>1, <3>2, <3>4 DEF Covers
  <2>3. QED
    BY <2>1, <2>2 DEF SkipsAreEarned
<1>2. QED
  BY <1>1, SpecInv, PTL

\* What a command reports as spent is what it has put into the ledger and what it was
\* billed, but for calls that failed.
THEOREM TheLedgerReconciles == Spec => []LedgerReconciles
<1>1. Inv => LedgerReconciles
  <2> SUFFICES ASSUME Inv, pc = "reporting"
               PROVE  ledger = spent + evalCost /\ billed = ledger + wasted
    BY DEF LedgerReconciles
  <2>1. ledger \in Nat /\ wasted \in Nat /\ billed \in Nat
    BY DEF Inv, MoneyInv
  <2>2. Owed = 0
    BY DEF Owed
  <2>3. ledger = spent + evalCost /\ billed = ledger + wasted + Owed
    BY DEF Inv, MoneyInv
  <2>4. QED
    BY <2>1, <2>2, <2>3
<1>2. QED
  BY <1>1, SpecInv, PTL

\* A synthesis takes ids of its own: no question leaves the review queue.
THEOREM TheQueueGrows == Spec => QueueKeepsItsQuestions
<1>1. Inv /\ [Next]_vars => [queue \subseteq queue']_queue
  <2> SUFFICES ASSUME Inv, [Next]_vars PROVE queue \subseteq queue'
    OBVIOUS
  <2>a. FilesInv /\ WaveInv
    BY DEF Inv
  <2>1. CASE Queue
    <3>1. Ids(drafted) \cap Ids(queue) = {}
      BY <2>1 DEF Queue, Inv, QuestionsInv
    <3>2. ASSUME NEW x \in queue
          PROVE  x.id \notin Ids(drafted)
      BY <3>1 DEF Ids
    <3>3. QED
      BY <2>1, <3>2 DEF Queue
  <2>2. CASE Ends \/ Passes \/ UNCHANGED vars \/ Edits
    BY <2>a, <2>2, EndsLeave, PassesLeave, EditsOne DEF Stays, vars
  <2>3. CASE Begin \/ Introspect \/ Draft \/ LoadForProfiling \/ WriteProfile \/ BuildPlan
             \/ Reselect
    BY <2>3 DEF Begin, Introspect, Draft, LoadForProfiling, WriteProfile, BuildPlan, Reselect
  <2>4. CASE StartWave \/ EndWave \/ SettleTable \/ PickTable \/ AnnotateTable
             \/ SkipFailedTable \/ MeterTable \/ SaveReview
    BY <2>4 DEF StartWave, EndWave, SettleTable, PickTable, AnnotateTable, SkipFailedTable,
       MeterTable, SaveReview
  <2>5. ASSUME NEW p \in Tables, ReadTable(p) \/ WriteTable(p) \/ FailTable(p) \/ SkipTable(p)
        PROVE  UNCHANGED queue
    BY <2>a, <2>5, ReadsOne, WritesOne, FailsOne, SkipsOne DEF Stays
  <2>6. CASE Synthesize \/ Seed \/ StartEval \/ EndEval \/ StampBaseline \/ Coach
             \/ EditRest \/ MoveData \/ Grows
    BY <2>6 DEF Synthesize, Seed, StartEval, EndEval, StampBaseline, Coach, EditRest, MoveData,
       Grows, AddColumn
  <2>7. QED
    BY <2>1, <2>2, <2>3, <2>4, <2>5, <2>6, NextIs
<1>2. QED
  BY <1>1, SpecInv, PTL DEF Spec, QueueKeepsItsQuestions

=============================================================================
