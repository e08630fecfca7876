-------------------------- MODULE EvaluationProofs --------------------------
(***************************************************************************)
(* Proofs about Evaluation: what a release and a warning-free load stand   *)
(* for, and that the money adds up, for any number of evals, questions,    *)
(* passes and columns, any costs and type families, and any edits,         *)
(* migrations, failures and kills.                                         *)
(*                                                                         *)
(* Then about Scoring, for any results, any cap and any panel: what the    *)
(* backtracking search of _compare_superset says is what the definition of *)
(* columns_superset says, unless its cap ended it.  Everything that stands *)
(* lexicographically behind the current position of the search (Behind) is *)
(* known not to hold.  A frame skips a column only if another gold column  *)
(* has it or if its values are not those of the gold column, and neither   *)
(* can be part of a match.                                                 *)
(***************************************************************************)
EXTENDS Evaluation, Scoring, Integers, FiniteSetTheorems, WellFoundedInduction, TLAPS

-----------------------------------------------------------------------------
(* Finite orders: what the median pass and the latest run rest on          *)

\* An order on S is given by the predecessors pred[t] of each element t.
StrictOrder(S, pred) ==
  /\ pred \in [S -> SUBSET S]
  /\ \A t \in S : t \notin pred[t]
  /\ \A t, u \in S : t # u => t \in pred[u] \/ u \in pred[t]
  /\ \A t, u, v \in S : t \in pred[u] /\ u \in pred[v] => t \in pred[v]

LEMMA IntervalSize ==
  ASSUME NEW n \in Nat
  PROVE  /\ IsFiniteSet(1..n) /\ Cardinality(1..n) = n
         /\ IsFiniteSet(0..(n - 1)) /\ Cardinality(0..(n - 1)) = n
<1>1. 0 \in Int /\ 1 \in Int /\ n \in Int /\ n - 1 \in Int
  OBVIOUS
<1>2. IsFiniteSet(1..n) /\ Cardinality(1..n) = IF 1 > n THEN 0 ELSE n - 1 + 1
  BY <1>1, FS_Interval
<1>3. /\ IsFiniteSet(0..(n - 1))
      /\ Cardinality(0..(n - 1)) = IF 0 > n - 1 THEN 0 ELSE (n - 1) - 0 + 1
  BY <1>1, FS_Interval
<1>4. Cardinality(1..n) = n
  BY <1>2
<1>5. Cardinality(0..(n - 1)) = n
  BY <1>3
<1>6. QED
  BY <1>2, <1>3, <1>4, <1>5

\* No two elements have the same number of predecessors.
LEMMA RanksDiffer ==
  ASSUME NEW S, IsFiniteSet(S), NEW pred, StrictOrder(S, pred)
  PROVE  /\ \A t \in S : IsFiniteSet(pred[t]) /\ Cardinality(pred[t]) \in Nat
         /\ \A t \in S : Cardinality(pred[t]) < Cardinality(S)
         /\ \A t, u \in S : Cardinality(pred[t]) = Cardinality(pred[u]) => t = u
<1>1. Cardinality(S) \in Nat
  BY FS_CardinalityType
<1>2. ASSUME NEW t \in S
      PROVE  IsFiniteSet(pred[t]) /\ Cardinality(pred[t]) \in Nat
  BY FS_Subset, FS_CardinalityType DEF StrictOrder
<1>3. ASSUME NEW t \in S
      PROVE  Cardinality(pred[t]) < Cardinality(S)
  <2>1. pred[t] \in SUBSET S /\ pred[t] # S
    BY DEF StrictOrder
  <2>2. Cardinality(pred[t]) <= Cardinality(S) /\ Cardinality(pred[t]) # Cardinality(S)
    BY <2>1, FS_Subset
  <2>3. QED
    BY <1>1, <1>2, <2>2
<1>4. ASSUME NEW t \in S, NEW u \in S, t \in pred[u]
      PROVE  Cardinality(pred[t]) < Cardinality(pred[u])
  <2>1. pred[t] \in SUBSET pred[u] /\ t \notin pred[t]
    BY <1>4 DEF StrictOrder
  <2>2. /\ Cardinality(pred[t]) <= Cardinality(pred[u])
        /\ Cardinality(pred[t]) = Cardinality(pred[u]) => pred[t] = pred[u]
    BY <1>2, <2>1, FS_Subset
  <2>3. pred[t] # pred[u]
    BY <1>4, <2>1
  <2>4. QED
    BY <1>2, <2>2, <2>3
<1>5. ASSUME NEW t \in S, NEW u \in S, t # u
      PROVE  Cardinality(pred[t]) # Cardinality(pred[u])
  <2>1. Cardinality(pred[t]) \in Nat /\ Cardinality(pred[u]) \in Nat
    BY <1>2
  <2>2. t \in pred[u] \/ u \in pred[t]
    BY <1>5 DEF StrictOrder
  <2>3. QED
    BY <1>4, <2>1, <2>2
<1>6. QED
  BY <1>2, <1>3, <1>5

\* There is an element with k predecessors for each k less than the size of the order: the
\* ranks are an injection between sets of one size, hence onto.
LEMMA EveryRank ==
  ASSUME NEW S, IsFiniteSet(S), NEW pred, StrictOrder(S, pred),
         NEW k \in Nat, k < Cardinality(S)
  PROVE  \E t \in S : Cardinality(pred[t]) = k
<1> DEFINE n    == Cardinality(S)
           rank == [t \in S |-> Cardinality(pred[t])]
<1>1. n \in Nat
  BY FS_CardinalityType
<1>2. rank \in [S -> 0..(n - 1)]
  <2>1. ASSUME NEW t \in S
        PROVE  Cardinality(pred[t]) \in 0..(n - 1)
    <3>1. Cardinality(pred[t]) \in Nat /\ Cardinality(pred[t]) < n
      BY RanksDiffer
    <3> HIDE DEF n
    <3>2. QED
      BY <1>1, <3>1
  <2>2. QED
    BY <2>1
<1>3. \A t, u \in S : rank[t] = rank[u] => t = u
  BY RanksDiffer
<1>4. IsFiniteSet(0..(n - 1)) /\ Cardinality(0..(n - 1)) = n
  <2> HIDE DEF n
  <2>1. QED
    BY <1>1, IntervalSize
<1>5. rank \in Injection(S, 0..(n - 1))
  <2> HIDE DEF rank, n
  <2>1. QED
    BY <1>2, <1>3 DEF Injection, IsInjective
<1>6. rank \in Surjection(S, 0..(n - 1))
  <2> HIDE DEF rank
  <2>1. QED
    BY <1>4, <1>5, FS_Injection
<1>7. PICK t \in S : rank[t] = k
  <2>1. k \in 0..(n - 1)
    <3>1. k < n
      OBVIOUS
    <3> HIDE DEF n
    <3>2. QED
      BY <1>1, <3>1
  <2> HIDE DEF rank, n
  <2>2. QED
    BY <1>6, <2>1 DEF Surjection
<1>8. QED
  BY <1>7

\* Of some numbers under a bound one is the greatest: the interval from it to the bound is
\* the smallest.
LEMMA Greatest ==
  ASSUME NEW N \in SUBSET Nat, N # {}, NEW bound \in Nat, \A i \in N : i <= bound
  PROVE  \E i \in N : \A j \in N : j <= i
<1> DEFINE above == {i..bound : i \in N}
<1>1. above \in SUBSET FiniteSubsetsOf(Nat) /\ above # {}
  <2>1. ASSUME NEW i \in N
        PROVE  IsFiniteSet(i..bound) /\ i..bound \in SUBSET Nat
    BY FS_Interval
  <2>2. QED
    BY <2>1 DEF FiniteSubsetsOf
<1>2. \E s \in above : \A t \in above : ~(<<t, s>> \in StrictSubsetOrdering(Nat))
  <2> HIDE DEF above
  <2>1. QED
    BY <1>1, FS_StrictSubsetOrderingWellFounded, WFMin
<1>3. PICK i \in N : \A j \in N : ~(<<j..bound, i..bound>> \in StrictSubsetOrdering(Nat))
  BY <1>2
<1>4. ASSUME NEW j \in N, i < j
      PROVE  FALSE
  <2>1. j..bound \subseteq i..bound /\ i \in i..bound /\ i \notin j..bound
    BY <1>4
  <2>2. <<j..bound, i..bound>> \in StrictSubsetOrdering(Nat)
    BY <2>1 DEF StrictSubsetOrdering
  <2>3. QED
    BY <1>3, <2>2
<1>5. QED
  BY <1>4

-----------------------------------------------------------------------------
(* Sums                                                                    *)

\* The sum of f over S as an area: a column of f[x] cells for each x.
Area(f, S) == UNION {{x} \X (1..f[x]) : x \in S}
Total(f, S) == Cardinality(Area(f, S))

LEMMA TotalIsNat ==
  ASSUME NEW S, IsFiniteSet(S), NEW f, \A x \in S : f[x] \in Nat
  PROVE  IsFiniteSet(Area(f, S)) /\ Total(f, S) \in Nat
<1> DEFINE columns == {{x} \X (1..f[x]) : x \in S}
           column == [x \in S |-> {x} \X (1..f[x])]
<1>1. column \in Surjection(S, columns)
  BY DEF Surjection
<1>2. IsFiniteSet(columns)
  <2> HIDE DEF column, columns
  <2>1. QED
    BY <1>1, FS_Surjection
<1>3. ASSUME NEW x \in S
      PROVE  IsFiniteSet({x} \X (1..f[x]))
  <2>1. 1 \in Int /\ f[x] \in Int
    OBVIOUS
  <2>2. IsFiniteSet(1..f[x]) /\ IsFiniteSet({x})
    BY <2>1, FS_Singleton, FS_Interval
  <2>3. QED
    BY <2>2, FS_Product
<1>4. \A c \in columns : IsFiniteSet(c)
  BY <1>3
<1>5. IsFiniteSet(UNION columns)
  <2> HIDE DEF columns
  <2>1. QED
    BY <1>2, <1>4, FS_UNION
<1>6. QED
  BY <1>5, FS_CardinalityType DEF Area, Total

LEMMA TotalSplits ==
  ASSUME NEW S, IsFiniteSet(S), NEW f, \A x \in S : f[x] \in Nat, NEW x \in S
  PROVE  Total(f, S) = f[x] + Total(f, S \ {x})
<1> DEFINE column == {x} \X (1..f[x])
           rest == Area(f, S \ {x})
<1>1. IsFiniteSet(S \ {x})
  BY FS_RemoveElement
<1>2. IsFiniteSet(rest) /\ Cardinality(rest) \in Nat
  BY <1>1, TotalIsNat DEF Total
<1>3. IsFiniteSet(column) /\ Cardinality(column) = f[x]
  <2>1. IsFiniteSet(1..f[x]) /\ Cardinality(1..f[x]) = f[x]
    BY FS_Interval
  <2>2. IsFiniteSet({x}) /\ Cardinality({x}) = 1
    BY FS_Singleton
  <2>3. PICK one, bar : one = {x} /\ bar = 1..f[x]
    OBVIOUS
  <2>4. IsFiniteSet(one) /\ Cardinality(one) = 1 /\ IsFiniteSet(bar) /\ Cardinality(bar) = f[x]
    BY <2>1, <2>2, <2>3
  <2>5. /\ IsFiniteSet(one \X bar)
        /\ Cardinality(one \X bar) = Cardinality(one) * Cardinality(bar)
    BY <2>4, FS_Product
  <2>6. Cardinality(one) * Cardinality(bar) = f[x]
    BY <2>4
  <2>7. column = one \X bar
    BY <2>3
  <2>8. QED
    BY <2>5, <2>6, <2>7
<1>4. Area(f, S) = column \cup rest /\ column \cap rest = {}
  BY DEF Area
<1> HIDE DEF column, rest
<1>5. Cardinality(column \cup rest) = f[x] + Cardinality(rest)
  <2>1. Cardinality(column \cup rest) = f[x] + Cardinality(rest) - Cardinality({})
    BY <1>2, <1>3, <1>4, FS_Union
  <2>2. QED
    BY <1>2, <2>1, FS_EmptySet
<1>6. QED
  BY <1>4, <1>5 DEF Total, rest

LEMMA TotalOfNothing ==
  ASSUME NEW f
  PROVE  Total(f, {}) = 0
BY FS_EmptySet DEF Total, Area

LEMMA TotalsAgree ==
  ASSUME NEW S, NEW f, NEW g, \A x \in S : f[x] = g[x]
  PROVE  Total(f, S) = Total(g, S)
BY DEF Total, Area

\* A function that sums element by element, in any order, is the total.
LEMMA SumIsTotal ==
  ASSUME NEW S, IsFiniteSet(S), NEW f, \A x \in S : f[x] \in Nat,
         NEW sum, sum[{}] = 0,
         \A s \in SUBSET S : s # {} =>
           \E x \in s : sum[s] = f[x] + sum[s \ {x}] \/ sum[s] = sum[s \ {x}] + f[x]
  PROVE  sum[S] = Total(f, S)
<1> DEFINE wrong == {s \in SUBSET S : sum[s] # Total(f, s)}
<1> SUFFICES ASSUME wrong # {}
             PROVE  FALSE
  OBVIOUS
<1>1. wrong \in SUBSET FiniteSubsetsOf(S)
  BY FS_FiniteSubsetsOfFinite
<1>2. PICK s \in wrong : \A t \in wrong : ~(<<t, s>> \in StrictSubsetOrdering(S))
  <2> HIDE DEF wrong
  <2>1. QED
    BY <1>1, FS_StrictSubsetOrderingWellFounded, WFMin
<1>3. s \in SUBSET S /\ IsFiniteSet(s) /\ sum[s] # Total(f, s)
  BY <1>2, FS_Subset
<1>4. s # {}
  BY <1>3, TotalOfNothing
<1>5. PICK x \in s : sum[s] = f[x] + sum[s \ {x}] \/ sum[s] = sum[s \ {x}] + f[x]
  BY <1>3, <1>4
<1>6. s \ {x} \notin wrong
  <2>1. s \ {x} \in SUBSET S /\ s \ {x} \subseteq s /\ s \ {x} # s
    BY <1>3
  <2>2. <<s \ {x}, s>> \in StrictSubsetOrdering(S)
    BY <1>3, <2>1 DEF StrictSubsetOrdering
  <2>3. QED
    BY <1>2, <2>2
<1>7. sum[s \ {x}] = Total(f, s \ {x})
  BY <1>3, <1>6
<1>8. Total(f, s) = f[x] + Total(f, s \ {x})
  BY <1>3, TotalSplits
<1>9. f[x] \in Nat /\ Total(f, s \ {x}) \in Nat
  <2>1. IsFiniteSet(s \ {x}) /\ \A y \in s \ {x} : f[y] \in Nat
    BY <1>3, FS_RemoveElement
  <2>2. QED
    BY <1>3, <2>1, TotalIsNat
<1>10. QED
  BY <1>3, <1>5, <1>7, <1>8, <1>9

LEMMA SumFunctionIsTotal ==
  ASSUME NEW f, IsFiniteSet(DOMAIN f), \A x \in DOMAIN f : f[x] \in Nat
  PROVE  SumFunction(f) = Total(f, DOMAIN f)
<1> DEFINE S == DOMAIN f
           sums(g) == g = [s \in SUBSET S |->
                             IF s = {} THEN 0
                             ELSE f[CHOOSE x \in s : TRUE] + g[s \ {CHOOSE x \in s : TRUE}]]
<1>1. SumFunction(f) = (CHOOSE g : sums(g))[S]
  BY DEF SumFunction, SumFunctionOnSet, FoldFunctionOnSet, MapThenFoldSet
<1>2. \E g : sums(g)
  <2> DEFINE total == [s \in SUBSET S |-> Total(f, s)]
  <2>1. ASSUME NEW s \in SUBSET S
        PROVE  total[s] = IF s = {} THEN 0
                          ELSE f[CHOOSE x \in s : TRUE] + total[s \ {CHOOSE x \in s : TRUE}]
    <3>1. CASE s = {}
      BY <3>1, TotalOfNothing
    <3>2. CASE s # {}
      <4>1. PICK x : x = CHOOSE y \in s : TRUE
        OBVIOUS
      <4>2. x \in s /\ IsFiniteSet(s)
        BY <3>2, <4>1, FS_Subset
      <4>3. Total(f, s) = f[x] + Total(f, s \ {x})
        BY <4>2, TotalSplits
      <4>4. QED
        BY <3>2, <4>1, <4>2, <4>3
    <3>3. QED
      BY <3>1, <3>2
  <2>2. sums(total)
    BY <2>1
  <2>3. QED
    BY <2>2
<1>3. PICK sum : sum = CHOOSE g : sums(g)
  OBVIOUS
<1>4. sums(sum)
  BY <1>2, <1>3
<1>5. sum[{}] = 0
  BY <1>4
<1>6. ASSUME NEW s \in SUBSET S, s # {}
      PROVE  \E x \in s : sum[s] = f[x] + sum[s \ {x}]
  BY <1>4, <1>6
<1>7. sum[S] = Total(f, S)
  BY <1>5, <1>6, SumIsTotal
<1>8. QED
  BY <1>1, <1>3, <1>7

LEMMA SumOfIsTotal ==
  ASSUME NEW q \in Seq(Nat)
  PROVE  SumOf(q) = Total(q, DOMAIN q)
<1> DEFINE S == DOMAIN q
           sums(g) == g = [s \in SUBSET S |->
                             IF s = {} THEN 0 ELSE g[s \ {Max(s)}] + q[Max(s)]]
<1>1. SumOf(q) = (CHOOSE g : sums(g))[S]
  BY DEF SumOf, FoldLeft, MapThenFoldSet
<1>2. IsFiniteSet(S) /\ \A i \in S : q[i] \in Nat
  <2>1. S = 1..Len(q) /\ 1 \in Int /\ Len(q) \in Int
    OBVIOUS
  <2>2. QED
    BY <2>1, FS_Interval
<1>3. \A s \in SUBSET S : s # {} => Max(s) \in s
  <2>1. ASSUME NEW s \in SUBSET S, s # {}
        PROVE  Max(s) \in s
    <3>1. s \in SUBSET Nat /\ Len(q) \in Nat /\ \A i \in s : i <= Len(q)
      OBVIOUS
    <3>2. \E i \in s : \A j \in s : j <= i
      BY <2>1, <3>1, Greatest
    <3>3. QED
      BY <3>1, <3>2 DEF Max
  <2>2. QED
    BY <2>1
<1>4. \E g : sums(g)
  <2> DEFINE total == [s \in SUBSET S |-> Total(q, s)]
  <2>1. ASSUME NEW s \in SUBSET S
        PROVE  total[s] = IF s = {} THEN 0 ELSE total[s \ {Max(s)}] + q[Max(s)]
    <3>1. CASE s = {}
      BY <3>1, TotalOfNothing
    <3>2. CASE s # {}
      <4>1. Max(s) \in s /\ IsFiniteSet(s) /\ IsFiniteSet(s \ {Max(s)})
        BY <1>2, <1>3, <3>2, FS_Subset
      <4>2. Total(q, s) = q[Max(s)] + Total(q, s \ {Max(s)})
        BY <1>2, <4>1, TotalSplits
      <4>3. q[Max(s)] \in Nat /\ Total(q, s \ {Max(s)}) \in Nat
        BY <1>2, <4>1, TotalIsNat
      <4>4. Total(q, s) = Total(q, s \ {Max(s)}) + q[Max(s)]
        BY <4>2, <4>3
      <4>5. QED
        BY <3>2, <4>4
    <3>3. QED
      BY <3>1, <3>2
  <2>2. sums(total)
    BY <2>1
  <2>3. QED
    BY <2>2
<1>5. PICK sum : sum = CHOOSE g : sums(g)
  OBVIOUS
<1>6. sums(sum)
  BY <1>4, <1>5
<1>7. sum = [s \in SUBSET S |-> sum[s]] /\ sum[{}] = 0
  BY <1>6
<1>8. ASSUME NEW s \in SUBSET S, s # {}
      PROVE  \E i \in s : sum[s] = q[i] + sum[s \ {i}] \/ sum[s] = sum[s \ {i}] + q[i]
  BY <1>3, <1>6, <1>8
<1>9. sum[S] = Total(q, S)
  BY <1>2, <1>7, <1>8, SumIsTotal
<1>10. QED
  BY <1>1, <1>5, <1>9

LEMMA TotalMoves ==
  ASSUME NEW S, IsFiniteSet(S), NEW f, NEW g, NEW x \in S,
         \A y \in S : f[y] \in Nat /\ g[y] \in Nat, \A y \in S \ {x} : g[y] = f[y]
  PROVE  /\ Total(f, S) \in Nat /\ Total(g, S) \in Nat
         /\ Total(g, S) + f[x] = Total(f, S) + g[x]
<1>1. IsFiniteSet(S \ {x})
  BY FS_RemoveElement
<1>2. Total(f, S) \in Nat /\ Total(g, S) \in Nat /\ Total(f, S \ {x}) \in Nat
  BY <1>1, TotalIsNat
<1>3. Total(f, S \ {x}) = Total(g, S \ {x})
  BY TotalsAgree
<1>4. Total(f, S) = f[x] + Total(f, S \ {x}) /\ Total(g, S) = g[x] + Total(g, S \ {x})
  BY TotalSplits
<1>5. QED
  BY <1>2, <1>3, <1>4

LEMMA SumOfType ==
  ASSUME NEW q \in Seq(Nat)
  PROVE  SumOf(q) \in Nat /\ SumOf(<< >>) = 0
<1>1. IsFiniteSet(DOMAIN q) /\ \A i \in DOMAIN q : q[i] \in Nat
  <2>1. DOMAIN q = 1..Len(q) /\ 1 \in Int /\ Len(q) \in Int
    OBVIOUS
  <2>2. QED
    BY <2>1, FS_Interval
<1>2. SumOf(q) \in Nat
  BY <1>1, SumOfIsTotal, TotalIsNat
<1>3. << >> \in Seq(Nat) /\ DOMAIN << >> = {}
  OBVIOUS
<1>4. SumOf(<< >>) = 0
  <2>1. SumOf(<< >>) = Total(<< >>, {})
    BY <1>3, SumOfIsTotal
  <2>2. QED
    BY <2>1, TotalOfNothing
<1>5. QED
  BY <1>2, <1>4

LEMMA SumOfNothing == SumOf(<< >>) = 0
<1>1. << >> \in Seq(Nat)
  OBVIOUS
<1>2. QED
  BY <1>1, SumOfType

LEMMA SumOfAppend ==
  ASSUME NEW q \in Seq(Nat), NEW n \in Nat
  PROVE  SumOf(Append(q, n)) = SumOf(q) + n
<1>1. PICK r : r = Append(q, n)
  OBVIOUS
<1>2. PICK k : k = Len(q) + 1
  OBVIOUS
<1>3. /\ r \in Seq(Nat) /\ DOMAIN r = 1..k /\ r[k] = n /\ k \in 1..k /\ 1..k \ {k} = DOMAIN q
      /\ \A i \in DOMAIN q : r[i] = q[i]
  <2>1. Len(q) \in Nat /\ DOMAIN q = 1..Len(q) /\ k \in 1..k /\ 1..k \ {k} = 1..Len(q)
    BY <1>2
  <2>2. r \in Seq(Nat) /\ Len(r) = k /\ DOMAIN r = 1..Len(r)
    BY <1>1, <1>2
  <2>3. r[k] = n /\ \A i \in 1..Len(q) : r[i] = q[i]
    BY <1>1, <1>2
  <2>4. QED
    BY <2>1, <2>2, <2>3
<1>4. IsFiniteSet(DOMAIN r) /\ k \in DOMAIN r /\ \A i \in DOMAIN r : r[i] \in Nat
  <2>1. 1 \in Int /\ k \in Int
    BY <1>2
  <2>2. IsFiniteSet(1..k)
    BY <2>1, FS_Interval
  <2>3. \A i \in DOMAIN r : r[i] \in Nat
    BY <1>3
  <2>4. QED
    BY <1>3, <2>2, <2>3
<1>5. Total(r, DOMAIN r) = r[k] + Total(r, DOMAIN r \ {k})
  BY <1>4, TotalSplits
<1>6. Total(r, DOMAIN q) = Total(q, DOMAIN q)
  BY <1>3, TotalsAgree
<1>7. SumOf(r) = n + SumOf(q)
  BY <1>3, <1>5, <1>6, SumOfIsTotal
<1>8. QED
  BY <1>1, <1>7, SumOfType

LEMMA SumOfTail ==
  ASSUME NEW q \in Seq(Nat), q # << >>
  PROVE  SumOf(q) = Head(q) + SumOf(Tail(q))
<1>1. PICK t : t = Tail(q)
  OBVIOUS
<1>2. PICK n : n = Len(t)
  OBVIOUS
<1>3. /\ n \in Nat /\ DOMAIN q = 1..(n + 1) /\ DOMAIN t = 1..n /\ t \in Seq(Nat)
      /\ Head(q) = q[1] /\ \A i \in 1..n : t[i] = q[i + 1]
      /\ \A i \in 1..(n + 1) : q[i] \in Nat
  BY <1>1, <1>2
<1>4. IsFiniteSet(1..(n + 1)) /\ IsFiniteSet(1..n)
  <2>1. 1 \in Int /\ n \in Int /\ n + 1 \in Int
    BY <1>3
  <2>2. QED
    BY <2>1, FS_Interval
<1> DEFINE After(s) == {i + 1 : i \in s}
           sum == [s \in SUBSET (1..n) |-> Total(q, After(s))]
<1>5. \A s \in SUBSET (1..n) : After(s) \in SUBSET (1..(n + 1))
  BY SMTT(30), <1>3
<1>6. sum[{}] = 0
  <2>1. After({}) = {} /\ {} \in SUBSET (1..n)
    OBVIOUS
  <2>2. QED
    BY <2>1, TotalOfNothing
<1>7. ASSUME NEW s \in SUBSET (1..n), s # {}
      PROVE  \E i \in s : sum[s] = t[i] + sum[s \ {i}] \/ sum[s] = sum[s \ {i}] + t[i]
  <2>1. PICK i \in s : TRUE
    BY <1>7
  <2>2. After(s \ {i}) = After(s) \ {i + 1} /\ i + 1 \in After(s) /\ s \ {i} \in SUBSET (1..n)
    <3>1. s \subseteq Int
      BY <1>3
    <3>2. \A j \in s : j + 1 = i + 1 => j = i
      BY <3>1
    <3>3. After(s \ {i}) = After(s) \ {i + 1}
      BY <3>2
    <3>4. QED
      BY <3>3
  <2>3. IsFiniteSet(After(s)) /\ \A j \in After(s) : q[j] \in Nat
    BY <1>3, <1>4, <1>5, FS_Subset
  <2>4. Total(q, After(s)) = q[i + 1] + Total(q, After(s) \ {i + 1})
    <3> HIDE DEF Next
    <3>1. QED
      BY <2>2, <2>3, TotalSplits
  <2>5. t[i] = q[i + 1]
    BY <1>3
  <2>6. sum[s] = Total(q, After(s)) /\ sum[s \ {i}] = Total(q, After(s \ {i}))
    BY <2>2
  <2> HIDE DEF Next, sum
  <2>7. sum[s] = t[i] + sum[s \ {i}]
    BY <2>2, <2>4, <2>5, <2>6
  <2>8. QED
    BY <2>7
<1>8. sum[1..n] = Total(t, 1..n)
  <2> HIDE DEF sum
  <2>1. \A i \in 1..n : t[i] \in Nat
    BY <1>3
  <2>2. QED
    BY <1>4, <1>6, <1>7, <2>1, SumIsTotal
<1>9. After(1..n) = 1..(n + 1) \ {1}
  <2>1. ASSUME NEW j \in 1..(n + 1) \ {1}
        PROVE  j \in After(1..n)
    <3>1. j - 1 \in 1..n /\ j = (j - 1) + 1
      BY <1>3
    <3>2. QED
      BY <3>1
  <2>2. ASSUME NEW i \in 1..n
        PROVE  i + 1 \in 1..(n + 1) \ {1}
    BY <1>3
  <2>3. QED
    BY <2>1, <2>2
<1>10. Total(q, 1..(n + 1)) = q[1] + Total(q, 1..(n + 1) \ {1})
  <2>1. 1 \in 1..(n + 1)
    BY <1>3
  <2>2. QED
    BY ZenonT(30), <1>3, <1>4, <2>1, TotalSplits
<1>11. Total(t, 1..n) = Total(q, 1..(n + 1) \ {1})
  <2>1. sum[1..n] = Total(q, After(1..n))
    OBVIOUS
  <2> HIDE DEF sum, Next
  <2>2. QED
    BY <1>8, <1>9, <2>1
<1>12. SumOf(q) = Total(q, 1..(n + 1)) /\ SumOf(t) = Total(t, 1..n)
  BY <1>3, SumOfIsTotal
<1>13. QED
  BY <1>1, <1>3, <1>10, <1>11, <1>12

\* g joins the first n parts one by one.
IsJoin(g, part, n) == g = [i \in 1..n |-> IF i = 1 THEN part[i] ELSE g[i - 1] \o part[i]]

LEMMA JoinGrows ==
  ASSUME NEW m \in Nat, m # 0, NEW part, NEW g, IsJoin(g, part, m)
  PROVE  \E h : IsJoin(h, part, m + 1)
<1> DEFINE h == [i \in 1..(m + 1) |-> IF i = m + 1 THEN g[m] \o part[i] ELSE g[i]]
<1>1. /\ h = [i \in 1..(m + 1) |-> h[i]]
      /\ \A i \in 1..(m + 1) : h[i] = IF i = m + 1 THEN g[m] \o part[i] ELSE g[i]
  OBVIOUS
<1>2. \A i \in 1..m : g[i] = IF i = 1 THEN part[i] ELSE g[i - 1] \o part[i]
  BY DEF IsJoin
<1> HIDE DEF h
<1>3. ASSUME NEW i \in 1..(m + 1)
      PROVE  h[i] = IF i = 1 THEN part[i] ELSE h[i - 1] \o part[i]
  <2>1. CASE i = m + 1
    <3>1. i # 1 /\ i - 1 = m /\ m \in 1..(m + 1) /\ m # m + 1
      BY <2>1
    <3>2. h[m] = g[m] /\ h[i] = g[m] \o part[i]
      BY <1>1, <2>1, <3>1
    <3>3. QED
      BY <3>1, <3>2
  <2>2. CASE i # m + 1
    <3>1. i \in 1..m
      BY <2>2
    <3>2. h[i] = g[i]
      BY <1>1, <2>2
    <3>3. CASE i = 1
      BY <1>2, <3>1, <3>2, <3>3
    <3>4. CASE i # 1
      <4>1. i - 1 \in 1..(m + 1) /\ i - 1 # m + 1
        BY <3>1, <3>4
      <4>2. h[i - 1] = g[i - 1]
        BY <1>1, <4>1
      <4>3. QED
        BY <1>2, <3>1, <3>2, <3>4, <4>2
    <3>5. QED
      BY <3>3, <3>4
  <2>3. QED
    BY <2>1, <2>2
<1>4. h = [i \in 1..(m + 1) |-> IF i = 1 THEN part[i] ELSE h[i - 1] \o part[i]]
  BY <1>1, <1>3
<1>5. QED
  BY <1>4 DEF IsJoin

LEMMA JoinExists ==
  ASSUME NEW n \in Nat, n # 0, NEW part
  PROVE  \E g : IsJoin(g, part, n)
<1> DEFINE can == {m \in 1..n : \E g : IsJoin(g, part, m)}
<1>1. IsJoin([i \in 1..1 |-> part[i]], part, 1)
  <2>1. \A i \in 1..1 : i = 1
    OBVIOUS
  <2>2. QED
    BY <2>1 DEF IsJoin
<1>2. 1 \in can /\ can \in SUBSET Nat /\ \A m \in can : m <= n
  <2>1. 1 \in 1..n
    OBVIOUS
  <2>2. QED
    BY <1>1, <2>1
<1>3. PICK m \in can : \A k \in can : k <= m
  <2> HIDE DEF can
  <2>1. QED
    BY <1>2, Greatest
<1>4. m \in 1..n /\ \E g : IsJoin(g, part, m)
  BY <1>3
<1>5. \E g : IsJoin(g, part, m + 1)
  BY <1>4, JoinGrows
<1>6. m = n
  <2> SUFFICES ASSUME m # n
               PROVE  FALSE
    OBVIOUS
  <2>1. m + 1 \in 1..n /\ ~(m + 1 <= m)
    BY <1>4
  <2>2. m + 1 \in can
    BY <1>5, <2>1
  <2>3. QED
    BY <1>3, <2>1, <2>2
<1>7. QED
  BY <1>4, <1>6

\* Each part adds its cost to whatever it is joined to.
Adds(part, cost, n) ==
  \A i \in 1..n : \A q \in Seq(Nat) :
    q \o part[i] \in Seq(Nat) /\ SumOf(q \o part[i]) = SumOf(q) + cost[i]

LEMMA JoinAddsUp ==
  ASSUME NEW n \in Nat, n # 0, NEW part, NEW join, IsJoin(join, part, n),
         NEW cost, \A i \in 1..n : cost[i] \in Nat,
         part[1] \in Seq(Nat), SumOf(part[1]) = cost[1], Adds(part, cost, n)
  PROVE  join[n] \in Seq(Nat) /\ SumOf(join[n]) = Total(cost, 1..n)
<1> DEFINE Good(i) == join[i] \in Seq(Nat) /\ SumOf(join[i]) = Total(cost, 1..i)
           good == {i \in 1..n : Good(i)}
<1>1. \A i \in 1..n : join[i] = IF i = 1 THEN part[i] ELSE join[i - 1] \o part[i]
  BY DEF IsJoin
<1>2. ASSUME NEW i \in 1..n
      PROVE  /\ IsFiniteSet(1..i) /\ \A k \in 1..i : cost[k] \in Nat
             /\ Total(cost, 1..i) = cost[i] + Total(cost, 1..i \ {i})
  <2>1. 1 \in Int /\ i \in Int /\ i \in 1..i /\ \A k \in 1..i : k \in 1..n
    OBVIOUS
  <2>2. IsFiniteSet(1..i) /\ \A k \in 1..i : cost[k] \in Nat
    BY <2>1, FS_Interval
  <2>3. QED
    BY <2>1, <2>2, TotalSplits
<1>3. 1 \in good
  <2>1. 1 \in 1..n /\ 1..1 \ {1} = {}
    OBVIOUS
  <2>2. Total(cost, 1..1) = cost[1] + 0 /\ cost[1] \in Nat
    BY <1>2, <2>1, TotalOfNothing
  <2>3. SumOf(join[1]) = Total(cost, 1..1) /\ join[1] \in Seq(Nat)
    BY <1>1, <2>1, <2>2
  <2>4. QED
    BY <2>1, <2>3
<1>4. good \in SUBSET Nat /\ \A i \in good : i <= n
  OBVIOUS
<1>5. PICK i \in good : \A k \in good : k <= i
  <2> HIDE DEF good
  <2>1. QED
    BY <1>3, <1>4, Greatest
<1>6. i \in 1..n /\ Good(i)
  BY <1>5
<1>7. i = n
  <2> SUFFICES ASSUME i # n
               PROVE  FALSE
    OBVIOUS
  <2>1. i + 1 \in 1..n /\ i + 1 # 1 /\ (i + 1) - 1 = i /\ ~(i + 1 <= i)
    BY <1>6
  <2>2. 1..(i + 1) \ {i + 1} = 1..i
    BY <1>6
  <2>3. join[i + 1] = join[i] \o part[i + 1]
    BY <1>1, <2>1
  <2>4. join[i + 1] \in Seq(Nat) /\ SumOf(join[i + 1]) = SumOf(join[i]) + cost[i + 1]
    BY <1>6, <2>1, <2>3 DEF Adds
  <2>5. Total(cost, 1..(i + 1)) = cost[i + 1] + Total(cost, 1..i)
    BY <1>2, <2>1, <2>2
  <2>6. cost[i + 1] \in Nat /\ Total(cost, 1..i) \in Nat
    BY <1>2, <1>6, <2>1, TotalIsNat
  <2>7. Good(i + 1)
    BY <1>6, <2>4, <2>5, <2>6
  <2>8. i + 1 \in good
    BY <2>1, <2>7
  <2>9. QED
    BY <1>5, <2>1, <2>8
<1>8. QED
  BY <1>6, <1>7

LEMMA OneOrTwo ==
  ASSUME NEW q \in Seq(Nat), NEW a \in Nat, NEW b \in Nat
  PROVE  /\ q \o <<a>> \in Seq(Nat) /\ SumOf(q \o <<a>>) = SumOf(q) + a
         /\ q \o <<a, b>> \in Seq(Nat) /\ SumOf(q \o <<a, b>>) = SumOf(q) + (a + b)
<1>1. PICK r : r = Append(q, a)
  OBVIOUS
<1>2. r \in Seq(Nat) /\ SumOf(r) = SumOf(q) + a /\ SumOf(q) \in Nat
  BY <1>1, SumOfAppend, SumOfType
<1>3. q \o <<a>> = r
  BY <1>1
<1>4. PICK s : s = Append(r, b)
  OBVIOUS
<1>5. s \in Seq(Nat) /\ SumOf(s) = SumOf(r) + b
  BY <1>2, <1>4, SumOfAppend
<1>6. q \o <<a, b>> = s
  BY <1>1, <1>4
<1>7. SumOf(s) = SumOf(q) + (a + b)
  <2>1. PICK x : x = SumOf(q)
    OBVIOUS
  <2>2. x \in Nat /\ SumOf(s) = (x + a) + b
    BY <1>2, <1>5, <2>1
  <2>3. (x + a) + b = x + (a + b)
    BY <2>2
  <2>4. QED
    BY <2>1, <2>2, <2>3
<1>8. q \o <<a>> \in Seq(Nat) /\ SumOf(q \o <<a>>) = SumOf(q) + a
  BY <1>2, <1>3, Zenon
<1>9. q \o <<a, b>> \in Seq(Nat) /\ SumOf(q \o <<a, b>>) = SumOf(q) + (a + b)
  BY <1>5, <1>6, <1>7, Zenon
<1>10. QED
  BY <1>8, <1>9

\* The rows of a run, question by question, and what each question cost.
PartsOf(r) == [k \in DOMAIN r |-> IF r[k].judge > 0 THEN <<r[k].agent, r[k].judge>>
                                                    ELSE <<r[k].agent>>]
CostsOf(r) == [k \in DOMAIN r |-> r[k].agent + r[k].judge]

LEMMA RowsAddUp ==
  ASSUME NEW X, NEW r \in Seq(X), \A k \in DOMAIN r : r[k].agent \in Nat /\ r[k].judge \in Nat
  PROVE  RowsOf(r) \in Seq(Nat) /\ CostsOf(r) \in Seq(Nat) /\ SumOf(RowsOf(r)) = SumOf(CostsOf(r))
<1>1. PICK n : n = Len(r)
  OBVIOUS
<1>2. n \in Nat /\ DOMAIN r = 1..n
  BY <1>1
<1>3. PICK part : part = PartsOf(r)
  OBVIOUS
<1>4. PICK cost : cost = CostsOf(r)
  OBVIOUS
<1>5. /\ cost \in Seq(Nat) /\ DOMAIN cost = 1..n
      /\ \A i \in 1..n : cost[i] = r[i].agent + r[i].judge /\ cost[i] \in Nat
  BY SMTT(30), <1>2, <1>4 DEF CostsOf
<1>6. /\ part = [k \in 1..n |-> part[k]] /\ Len(part) = n
      /\ \A i \in 1..n : part[i] = IF r[i].judge > 0 THEN <<r[i].agent, r[i].judge>>
                                                     ELSE <<r[i].agent>>
  BY <1>2, <1>3 DEF PartsOf
<1>7. RowsOf(r) = FlattenSeq(part)
  BY <1>3 DEF RowsOf, PartsOf
<1>8. CASE n = 0
  <2>1. part = << >> /\ cost = << >>
    BY <1>5, <1>6, <1>8
  <2>2. RowsOf(r) = << >>
    BY <1>6, <1>7, <1>8, <2>1 DEF FlattenSeq
  <2>3. QED
    BY <1>4, <1>5, <2>1, <2>2
<1>9. CASE n # 0
  <2>1. RowsOf(r) = (CHOOSE g : IsJoin(g, part, n))[n]
    BY <1>6, <1>7, <1>9 DEF FlattenSeq, IsJoin
  <2>2. PICK join : join = CHOOSE g : IsJoin(g, part, n)
    OBVIOUS
  <2>3. IsJoin(join, part, n)
    BY <1>2, <1>9, <2>2, JoinExists
  <2>4. ASSUME NEW i \in 1..n, NEW q \in Seq(Nat)
        PROVE  q \o part[i] \in Seq(Nat) /\ SumOf(q \o part[i]) = SumOf(q) + cost[i]
    <3>1. PICK a, b : a = r[i].agent /\ b = r[i].judge
      OBVIOUS
    <3>2. a \in Nat /\ b \in Nat /\ cost[i] = a + b
      BY <1>2, <1>5, <3>1
    <3>3. part[i] = IF b > 0 THEN <<a, b>> ELSE <<a>>
      BY <1>6, <3>1
    <3>4. CASE b > 0
      <4>1. part[i] = <<a, b>>
        BY <3>3, <3>4
      <4>2. q \o <<a, b>> \in Seq(Nat) /\ SumOf(q \o <<a, b>>) = SumOf(q) + (a + b)
        BY <3>2, OneOrTwo, Zenon
      <4>3. QED
        BY <3>2, <4>1, <4>2, Zenon
    <3>5. CASE ~(b > 0)
      <4>1. part[i] = <<a>> /\ a + b = a
        BY <3>2, <3>3, <3>5
      <4>2. q \o <<a>> \in Seq(Nat) /\ SumOf(q \o <<a>>) = SumOf(q) + a
        BY <3>2, OneOrTwo, Zenon
      <4>3. QED
        BY <3>2, <4>1, <4>2, Zenon
    <3>6. QED
      BY <3>4, <3>5
  <2>5. part[1] \in Seq(Nat) /\ SumOf(part[1]) = cost[1]
    <3>1. 1 \in 1..n /\ << >> \in Seq(Nat)
      BY <1>2, <1>9
    <3>2. << >> \o part[1] \in Seq(Nat) /\ SumOf(<< >> \o part[1]) = SumOf(<< >>) + cost[1]
      BY <2>4, <3>1
    <3>3. << >> \o part[1] = part[1]
      <4>1. part[1] \in Seq(Nat)
        <5>1. PICK a, b : a = r[1].agent /\ b = r[1].judge
          OBVIOUS
        <5>2. a \in Nat /\ b \in Nat /\ (part[1] = <<a, b>> \/ part[1] = <<a>>)
          BY <1>2, <1>6, <3>1, <5>1
        <5>3. <<a, b>> \in Seq(Nat) /\ <<a>> \in Seq(Nat)
          BY <5>2
        <5>4. QED
          BY <5>2, <5>3
      <4>2. QED
        BY <4>1
    <3>4. SumOf(<< >>) = 0 /\ cost[1] \in Nat
      BY <1>5, <3>1, SumOfType
    <3>5. QED
      BY <3>2, <3>3, <3>4
  <2>6. join[n] \in Seq(Nat) /\ SumOf(join[n]) = Total(cost, 1..n)
    <3>1. Adds(part, cost, n)
      BY <2>4, Zenon DEF Adds
    <3>2. n \in Nat /\ n # 0 /\ \A i \in 1..n : cost[i] \in Nat
      BY <1>2, <1>5, <1>9
    <3>3. QED
      BY <2>3, <2>5, <3>1, <3>2, JoinAddsUp
  <2>7. QED
    BY <1>4, <1>5, <2>1, <2>2, <2>6, SumOfIsTotal
<1>10. QED
  BY <1>8, <1>9
-----------------------------------------------------------------------------
(* The inductive invariant                                                 *)

Prints == {Family[t] : t \in Types} \cup {Missing}

\* A run of before there were fingerprints says nothing; any other one has answers, all of
\* them the work of one brain, and if the database stood still all on one schema.
SoundRun(r) ==
  /\ r.id \in Nat /\ r.correct \in Nat
  /\ \/ r.brain = None /\ r.schema = None /\ r.answers = {}
     \/ /\ r.brain \in Brains /\ r.answers # {}
        /\ r.schema \in [r.brain.declared -> Prints]
        /\ \A a \in r.answers : a.brain = r.brain
        /\ ~r.moved => \A a \in r.answers : a.schema = r.schema

HasFields(j) ==
  j = [split |-> j.split, trials |-> j.trials, model |-> j.model, brain |-> j.brain,
       gold |-> j.gold, results |-> j.results, rows |-> j.rows, passes |-> j.passes]

WorldInv ==
  /\ files \in Brains /\ schema \in [Columns -> Types \cup {Missing}]
  /\ clock \in Nat
  /\ pc = [e \in Evals |-> pc[e]] /\ job = [e \in Evals |-> job[e]]

\* What an eval holds is the work of the brain it loaded, and passes that are sound.
JobSound(e) ==
  /\ HasFields(job[e])
  /\ \E X : job[e].passes \in Seq(X)
  /\ \E X : job[e].results \in Seq(X)
  /\ \A k \in DOMAIN job[e].passes : SoundRun(job[e].passes[k]) /\ job[e].passes[k].id <= clock
  /\ pc[e] # "idle" => job[e].trials \in Nat \ {0}
  /\ pc[e] \in {"loading", "regolding", "metering"} => job[e].results = << >>
  /\ pc[e] \in {"regolding", "asking"} => job[e].brain \in Brains
  /\ pc[e] = "asking" =>
       \A k \in DOMAIN job[e].results :
         /\ job[e].results[k].brain = job[e].brain
         /\ e \notin moved =>
              job[e].results[k].schema = SchemaOf(schema, job[e].brain.declared)

RunsInv == \A r \in runs : SoundRun(r) /\ r.id <= clock

\* A draft nobody has interfered with is about the files as they are.
DraftInv ==
  /\ maker \in {"idle", "fingerprinting", "verifying", "reading"}
  /\ maker = "fingerprinting" =>
       /\ draft = [declared |-> draft.declared, touched |-> draft.touched]
       /\ ~draft.touched => draft.declared = files.declared
  /\ maker = "verifying" =>
       /\ draft = [declared |-> draft.declared, print |-> draft.print,
                   touched |-> draft.touched]
       /\ ~draft.touched => draft.declared = files.declared /\ draft.print = files
  /\ maker = "reading" =>
       /\ draft = [declared |-> draft.declared, run |-> draft.run, touched |-> draft.touched]
       /\ SoundRun(draft.run) /\ draft.run.split = "test"
       /\ ~draft.touched =>
            draft.declared = files.declared /\ draft.run.brain \in {None, files}

ReleaseInv ==
  \A r \in releases :
    /\ SoundRun(r.run) /\ r.run.split = "test"
    /\ ~r.touched => r.run.brain \in {None, r.brain}

Inv == /\ WorldInv /\ (\A e \in Evals : JobSound(e)) /\ RunsInv /\ DraftInv /\ ReleaseInv
       /\ WarningsAreTrue

LEMMA NoJobIsSound ==
  /\ HasFields(NoJob) /\ NoJob.passes = << >> /\ NoJob.results = << >>
BY DEF NoJob, HasFields

\* An eval updated in its fields is an eval still, and keeps the other ones.
LEMMA StillAJob ==
  ASSUME NEW j, HasFields(j), NEW k, NEW x, NEW y, NEW z,
         \/ k = [j EXCEPT !.brain = x]
         \/ k = [j EXCEPT !.gold = x]
         \/ k = [j EXCEPT !.results = x]
         \/ k = [j EXCEPT !.rows = x]
         \/ k = [j EXCEPT !.split = x, !.trials = y, !.model = z]
         \/ k = [j EXCEPT !.passes = x, !.rows = y, !.results = z]
  PROVE  HasFields(k)
<1>1. DOMAIN k = DOMAIN j /\ k = [f \in DOMAIN k |-> k[f]]
  OBVIOUS
<1>2. DOMAIN j = {"split", "trials", "model", "brain", "gold", "results", "rows", "passes"}
  BY DEF HasFields
<1>3. QED
  BY <1>1, <1>2 DEF HasFields

LEMMA NewResults ==
  ASSUME NEW j, HasFields(j), NEW k, NEW x, k = [j EXCEPT !.results = x]
  PROVE  /\ k.results = x
         /\ k.passes = j.passes /\ k.trials = j.trials /\ k.brain = j.brain
BY DEF HasFields

LEMMA NewRows ==
  ASSUME NEW j, HasFields(j), NEW k, NEW x, k = [j EXCEPT !.rows = x]
  PROVE  /\ k.results = j.results /\ k.passes = j.passes /\ k.trials = j.trials
BY DEF HasFields

LEMMA SchemaOfType ==
  ASSUME NEW live \in [Columns -> Types \cup {Missing}], NEW declared \in SUBSET Columns
  PROVE  SchemaOf(live, declared) \in [declared -> Prints]
<1>1. \A c \in declared : live[c] \in Types \cup {Missing}
  OBVIOUS
<1>2. QED
  BY <1>1 DEF SchemaOf, Prints

LEMMA NoneIsNothing ==
  /\ None \notin Brains
  /\ \A declared \in SUBSET Columns : None \notin [declared -> Prints]
BY EvaluationAssumption DEF Brains, Prints

LEMMA InvInit == Init => Inv
<1> SUFFICES ASSUME Init PROVE Inv
  OBVIOUS
<1>1. WorldInv
  BY EvaluationAssumption DEF Init, WorldInv, Brains
<1>2. ASSUME NEW e \in Evals
      PROVE  JobSound(e)
  <2>1. pc[e] = "idle" /\ job[e] = NoJob
    BY DEF Init
  <2>2. \E X : << >> \in Seq(X)
    OBVIOUS
  <2>3. QED
    BY <2>1, <2>2, NoJobIsSound DEF JobSound
<1>3. RunsInv
  <2>1. SoundRun(LegacyRun) /\ LegacyRun.id = 0 /\ clock = 1
    BY DEF Init, SoundRun, LegacyRun
  <2>2. QED
    BY <2>1 DEF Init, RunsInv
<1>4. DraftInv /\ ReleaseInv /\ WarningsAreTrue
  BY DEF Init, DraftInv, ReleaseInv, WarningsAreTrue
<1>5. QED
  BY <1>1, <1>2, <1>3, <1>4 DEF Inv

-----------------------------------------------------------------------------
(* Evals                                                                   *)

LEMMA Becomes ==
  ASSUME WorldInv, NEW e \in Evals, NEW step, NEW new, Become(e, step, new)
  PROVE  /\ pc'[e] = step /\ job'[e] = new
         /\ \A f \in Evals \ {e} : pc'[f] = pc[f] /\ job'[f] = job[f]
         /\ pc' = [f \in Evals |-> pc'[f]] /\ job' = [f \in Evals |-> job'[f]]
BY DEF WorldInv, Become

\* Other evals keep what they hold.
LEMMA OthersKeep ==
  ASSUME NEW f \in Evals, JobSound(f), pc'[f] = pc[f], job'[f] = job[f],
         schema' = schema, clock \in Nat, clock' \in Nat, clock <= clock',
         f \notin moved' => f \notin moved
  PROVE  JobSound(f)'
<1>1. \A k \in DOMAIN job[f].passes :
        SoundRun(job'[f].passes[k]) /\ job'[f].passes[k].id <= clock'
  BY SMTT(30) DEF JobSound, SoundRun
<1>2. QED
  BY <1>1 DEF JobSound

\* What an eval that has just moved holds.
LEMMA NowSound ==
  ASSUME NEW f \in Evals, NEW step, NEW j, pc'[f] = step, job'[f] = j, HasFields(j),
         \E X : j.passes \in Seq(X), \E X : j.results \in Seq(X),
         \A k \in DOMAIN j.passes : SoundRun(j.passes[k]) /\ j.passes[k].id <= clock',
         step # "idle" => j.trials \in Nat \ {0},
         step \in {"loading", "regolding", "metering"} => j.results = << >>,
         step \in {"regolding", "asking"} => j.brain \in Brains,
         step = "asking" =>
           \A k \in DOMAIN j.results :
             /\ j.results[k].brain = j.brain
             /\ f \notin moved' => j.results[k].schema = SchemaOf(schema', j.brain.declared)
  PROVE  JobSound(f)'
<1>1. \A k \in DOMAIN job'[f].passes :
        SoundRun(job'[f].passes[k]) /\ job'[f].passes[k].id <= clock'
  OBVIOUS
<1>2. HasFields(job'[f])
  OBVIOUS
<1>3. QED
  BY <1>1, <1>2 DEF JobSound

LEMMA StopIsSound ==
  ASSUME NEW e \in Evals, pc'[e] = "idle", job'[e] = NoJob
  PROVE  JobSound(e)'
<1>1. \E X : << >> \in Seq(X)
  OBVIOUS
<1>2. QED
  BY <1>1, NoJobIsSound DEF JobSound

\* What a pass leaves behind is sound.
LEMMA RunIsSound ==
  ASSUME WorldInv, NEW e \in Evals, JobSound(e), Stamp(e)
  PROVE  SoundRun(RunOf(e)) /\ RunOf(e).id = clock
<1> DEFINE r == job[e].results
           b == job[e].brain
<1>1. PICK X : r \in Seq(X)
  BY DEF JobSound
<1>2. /\ b \in Brains /\ b.declared \in SUBSET Columns
      /\ \A k \in DOMAIN r : /\ r[k].brain = b
                             /\ e \notin moved => r[k].schema = SchemaOf(schema, b.declared)
  BY DEF JobSound, Stamp, Brains
<1>3. Len(r) = NQuestions /\ NQuestions \in Nat \ {0} /\ DOMAIN r = 1..NQuestions
  BY <1>1, EvaluationAssumption DEF Stamp
<1>4. SchemaOf(schema, b.declared) \in [b.declared -> Prints]
  BY <1>2, SchemaOfType DEF WorldInv
<1>5. Cardinality({k \in DOMAIN r : r[k].verdict = "correct"}) \in Nat
  <2>1. IsFiniteSet(1..NQuestions)
    BY <1>3, IntervalSize
  <2> DEFINE C == {k \in DOMAIN r : r[k].verdict = "correct"}
  <2>2. C \in SUBSET (1..NQuestions)
    BY <1>3
  <2> HIDE DEF C
  <2>3. Cardinality(C) \in Nat
    BY <2>1, <2>2, FS_Subset, FS_CardinalityType
  <2>4. QED
    BY <2>3 DEF C
<1> DEFINE R == RunOf(e)
<1>6. /\ R.id = clock /\ R.brain = b /\ R.schema = SchemaOf(schema, b.declared)
      /\ R.correct = Cardinality({k \in DOMAIN r : r[k].verdict = "correct"})
      /\ R.moved = (e \in moved)
      /\ R.answers = {[brain |-> r[k].brain, schema |-> r[k].schema] : k \in DOMAIN r}
  BY DEF RunOf
<1>7. R.answers # {}
  <2>1. 1 \in DOMAIN r
    BY <1>3
  <2>2. QED
    BY ZenonT(30), <1>6, <2>1
<1>8. \A a \in R.answers : a.brain = b /\ (e \notin moved => a.schema = R.schema)
  BY <1>2, <1>6
<1> HIDE DEF r, b, R
<1>9. clock \in Nat
  BY DEF WorldInv
<1>10. SoundRun(R) /\ R.id = clock
  BY <1>2, <1>4, <1>5, <1>6, <1>7, <1>8, <1>9 DEF SoundRun
<1>11. QED
  BY <1>10 DEF R

LEMMA JobStep ==
  ASSUME Inv, [Next]_vars, NEW f \in Evals
  PROVE  JobSound(f)'
<1>1. WorldInv /\ JobSound(f) /\ clock \in Nat
  BY DEF Inv, WorldInv
<1>2. ASSUME NEW e \in Evals,
             NEW step, NEW new, Become(e, step, new), schema' = schema,
             clock' = clock \/ clock' = clock + 1,
             e # f => (f \notin moved' => f \notin moved)
      PROVE  /\ e # f => JobSound(f)'
             /\ e = f => pc'[f] = step /\ job'[f] = new
  BY <1>1, <1>2, Becomes, OthersKeep
<1>3. ASSUME NEW e \in Evals, Begin(e)
      PROVE  JobSound(f)'
  <2>1. PICK s \in Splits, n \in Trials, m \in AgentModels :
          Become(e, "loading", [NoJob EXCEPT !.split = s, !.trials = n, !.model = m])
    BY <1>3 DEF Begin
  <2>2. UNCHANGED <<schema, clock, moved>>
    BY <1>3 DEF Begin, project
  <2>3. CASE e = f
    <3> DEFINE j == [NoJob EXCEPT !.split = s, !.trials = n, !.model = m]
    <3>1. pc'[f] = "loading" /\ job'[f] = j
      BY <1>2, <2>1, <2>2, <2>3
    <3>2. HasFields(j) /\ j.trials = n /\ j.passes = << >> /\ j.results = << >>
      <4>1. HasFields(NoJob) /\ NoJob.passes = << >> /\ NoJob.results = << >>
        BY NoJobIsSound
      <4>2. j = [NoJob EXCEPT !.split = s, !.trials = n, !.model = m]
        OBVIOUS
      <4> HIDE DEF j
      <4>3. HasFields(j)
        BY <4>1, <4>2, StillAJob
      <4>4. j.passes = NoJob.passes /\ j.results = NoJob.results /\ j.trials = n
        BY <4>1, <4>2 DEF HasFields
      <4>5. QED
        BY <4>1, <4>3, <4>4
    <3>3. /\ n \in Nat \ {0}
          /\ \E X : j.passes \in Seq(X)
          /\ \E X : j.results \in Seq(X)
      <4>1. \E X : << >> \in Seq(X)
        OBVIOUS
      <4> HIDE DEF j
      <4>2. QED
        BY <3>2, <4>1, EvaluationAssumption
    <3> HIDE DEF j
    <3>4. QED
      <4>1. \A k \in DOMAIN j.passes : SoundRun(j.passes[k]) /\ j.passes[k].id <= clock'
        BY <3>2
      <4>2. QED
        BY <3>1, <3>2, <3>3, <4>1, NowSound
  <2>4. QED
    BY <1>2, <2>1, <2>2, <2>3
<1>4. ASSUME NEW e \in Evals, LoadKnowledge(e)
      PROVE  JobSound(f)'
  <2>1. /\ pc[e] = "loading" /\ Become(e, "regolding", [job[e] EXCEPT !.brain = Brain])
        /\ moved' = moved \ {e} /\ UNCHANGED <<schema, clock>>
    BY <1>4 DEF LoadKnowledge, project
  <2>2. CASE e = f
    <3> DEFINE j == [job[e] EXCEPT !.brain = Brain]
    <3>1. pc'[f] = "regolding" /\ job'[f] = j
      BY <1>2, <2>1, <2>2
    <3>2. /\ HasFields(j) /\ j.trials = job[f].trials /\ j.passes = job[f].passes
          /\ j.results = job[f].results /\ j.brain = files
      BY <1>1, <2>2 DEF JobSound, HasFields, Brain
    <3> HIDE DEF j
    <3>3. /\ \E X : j.passes \in Seq(X)
          /\ \E X : j.results \in Seq(X)
          /\ \A k \in DOMAIN j.passes : SoundRun(j.passes[k]) /\ j.passes[k].id <= clock'
          /\ j.trials \in Nat \ {0} /\ j.results = << >> /\ j.brain \in Brains
      BY <1>1, <2>1, <2>2, <3>2 DEF JobSound, WorldInv
    <3>4. QED
      BY <3>1, <3>2, <3>3, NowSound
  <2>3. QED
    BY <1>2, <2>1, <2>2
<1>5. ASSUME NEW e \in Evals, LoadGold(e)
      PROVE  JobSound(f)'
  <2>1. /\ pc[e] = "regolding"
        /\ Become(e, "asking", [job[e] EXCEPT !.gold = files.assets])
        /\ UNCHANGED <<schema, clock, moved>>
    BY <1>5 DEF LoadGold, project
  <2>2. CASE e = f
    <3> DEFINE j == [job[e] EXCEPT !.gold = files.assets]
    <3>1. pc'[f] = "asking" /\ job'[f] = j
      BY <1>2, <2>1, <2>2
    <3>2. /\ HasFields(j) /\ j.trials = job[f].trials /\ j.passes = job[f].passes
          /\ j.results = job[f].results /\ j.brain = job[f].brain
      BY <1>1, <2>2 DEF JobSound, HasFields
    <3> HIDE DEF j
    <3>3. /\ \E X : j.passes \in Seq(X)
          /\ \E X : j.results \in Seq(X)
          /\ \A k \in DOMAIN j.passes : SoundRun(j.passes[k]) /\ j.passes[k].id <= clock'
          /\ j.trials \in Nat \ {0} /\ j.results = << >> /\ j.brain \in Brains
      BY <1>1, <2>1, <2>2, <3>2 DEF JobSound, WorldInv
    <3>4. DOMAIN j.results = {}
      BY <3>3
    <3>5. QED
      BY <3>1, <3>2, <3>3, <3>4, NowSound
  <2>3. QED
    BY <1>2, <2>1, <2>2
<1>6. ASSUME NEW e \in Evals, Ask(e)
      PROVE  JobSound(f)'
  <2>1. PICK v \in Verdicts, agent \in 1..MaxCost, judge \in 0..MaxCost :
          Become(e, "asking",
                 [job[e] EXCEPT !.results = Append(@, [verdict |-> v, agent |-> agent,
                    judge |-> judge, brain |-> job[e].brain,
                    schema |-> SchemaOf(schema, job[e].brain.declared)])])
    BY <1>6 DEF Ask
  <2>2. pc[e] = "asking" /\ UNCHANGED <<schema, clock, moved>>
    BY <1>6 DEF Ask, project
  <2>3. CASE e = f
    <3> DEFINE a == [verdict |-> v, agent |-> agent, judge |-> judge, brain |-> job[f].brain,
                     schema |-> SchemaOf(schema, job[f].brain.declared)]
               j == [job[f] EXCEPT !.results = Append(@, a)]
    <3>1. pc'[f] = "asking" /\ job'[f] = j
      BY <1>2, <2>1, <2>2, <2>3
    <3>2. a.brain = job[f].brain /\ a.schema = SchemaOf(schema, job[f].brain.declared)
      OBVIOUS
    <3> HIDE DEF a
    <3>3. /\ HasFields(j) /\ j.trials = job[f].trials /\ j.passes = job[f].passes
          /\ j.results = Append(job[f].results, a) /\ j.brain = job[f].brain
      <4>1. HasFields(job[f])
        BY <1>1 DEF JobSound
      <4> DEFINE x == Append(job[f].results, a)
      <4>2. j = [job[f] EXCEPT !.results = x]
        OBVIOUS
      <4> HIDE DEF j, x
      <4>3. HasFields(j)
        BY <4>1, <4>2, StillAJob
      <4>4. j.results = x /\ j.passes = job[f].passes /\ j.trials = job[f].trials
            /\ j.brain = job[f].brain
        BY <4>1, <4>2, NewResults
      <4>5. QED
        BY <4>3, <4>4 DEF x
    <3> HIDE DEF j
    <3>4. PICK X : job[f].results \in Seq(X)
      BY <1>1 DEF JobSound
    <3> DEFINE n == Len(job[f].results)
               Y == X \cup {a}
    <3>5. /\ n \in Nat /\ DOMAIN job[f].results = 1..n
          /\ job[f].results \in Seq(Y) /\ a \in Y
      BY <3>4
    <3> HIDE DEF n, Y
    <3>6. /\ j.results \in Seq(Y) /\ DOMAIN j.results = 1..(n + 1)
          /\ j.results[n + 1] = a
          /\ \A k \in 1..n : j.results[k] = job[f].results[k]
      BY <3>3, <3>5 DEF n
    <3>7. \A k \in DOMAIN j.results :
            /\ j.results[k].brain = j.brain
            /\ f \notin moved => j.results[k].schema = SchemaOf(schema, j.brain.declared)
      <4>1. ASSUME NEW k \in 1..n
            PROVE  /\ j.results[k].brain = j.brain
                   /\ f \notin moved =>
                        j.results[k].schema = SchemaOf(schema, j.brain.declared)
        BY <1>1, <2>2, <2>3, <3>3, <3>5, <3>6 DEF JobSound
      <4>2. \A k \in 1..(n + 1) : k \in 1..n \/ k = n + 1
        BY <3>5
      <4>3. QED
        BY <3>2, <3>3, <3>6, <4>1, <4>2
    <3>8. /\ \E Z : j.passes \in Seq(Z)
          /\ \E Z : j.results \in Seq(Z)
          /\ \A k \in DOMAIN j.passes : SoundRun(j.passes[k]) /\ j.passes[k].id <= clock'
          /\ j.trials \in Nat \ {0} /\ j.brain \in Brains
      BY <1>1, <2>2, <2>3, <3>3, <3>6 DEF JobSound
    <3>9. \A k \in DOMAIN j.results :
            /\ j.results[k].brain = j.brain
            /\ f \notin moved' => j.results[k].schema = SchemaOf(schema', j.brain.declared)
      BY <2>2, <3>7
    <3>10. QED
      BY <3>1, <3>3, <3>8, <3>9, NowSound
  <2>4. QED
    BY <1>2, <2>1, <2>2, <2>3
<1>7. ASSUME NEW e \in Evals, Stamp(e)
      PROVE  JobSound(f)'
  <2>1. /\ pc[e] = "asking" /\ clock' = clock + 1 /\ UNCHANGED <<schema, moved>>
        /\ Become(e, "metering", [job[e] EXCEPT !.passes = Append(@, RunOf(e)),
                                    !.rows = RowsOf(job[e].results), !.results = << >>])
    BY <1>7 DEF Stamp, project
  <2>2. CASE e = f
    <3> DEFINE R == RunOf(f)
               j == [job[f] EXCEPT !.passes = Append(@, R), !.rows = RowsOf(job[f].results),
                                   !.results = << >>]
    <3>1. pc'[f] = "metering" /\ job'[f] = j
      BY <1>2, <2>1, <2>2
    <3>2. SoundRun(R) /\ R.id = clock
      BY <1>1, <1>7, <2>2, RunIsSound
    <3> HIDE DEF R
    <3>3. /\ HasFields(j) /\ j.trials = job[f].trials /\ j.results = << >>
          /\ j.passes = Append(job[f].passes, R)
      <4>1. HasFields(job[f])
        BY <1>1 DEF JobSound
      <4> DEFINE x == Append(job[f].passes, R)
                 y == RowsOf(job[f].results)
                 z == << >>
      <4>2. j = [job[f] EXCEPT !.passes = x, !.rows = y, !.results = z]
        OBVIOUS
      <4> HIDE DEF j, x, y, z
      <4>3. HasFields(j)
        BY <4>1, <4>2, StillAJob
      <4>4. j.passes = x /\ j.results = z /\ j.trials = job[f].trials
        BY <4>1, <4>2 DEF HasFields
      <4>5. QED
        BY <4>3, <4>4 DEF x, z
    <3> HIDE DEF j
    <3>4. PICK X : job[f].passes \in Seq(X)
      BY <1>1 DEF JobSound
    <3> DEFINE n == Len(job[f].passes)
               Y == X \cup {R}
    <3>5. /\ n \in Nat /\ DOMAIN job[f].passes = 1..n
          /\ job[f].passes \in Seq(Y) /\ R \in Y
      BY <3>4
    <3> HIDE DEF n, Y
    <3>6. /\ j.passes \in Seq(Y) /\ DOMAIN j.passes = 1..(n + 1)
          /\ j.passes[n + 1] = R
          /\ \A k \in 1..n : j.passes[k] = job[f].passes[k]
      BY <3>3, <3>5 DEF n
    <3>7. \A k \in DOMAIN j.passes : SoundRun(j.passes[k]) /\ j.passes[k].id <= clock'
      <4>1. ASSUME NEW k \in 1..n
            PROVE  SoundRun(j.passes[k]) /\ j.passes[k].id <= clock'
        <5>1. SoundRun(j.passes[k]) /\ j.passes[k].id <= clock
          BY <1>1, <3>5, <3>6 DEF JobSound
        <5>2. j.passes[k].id \in Nat
          BY <5>1 DEF SoundRun
        <5>3. QED
          BY <1>1, <2>1, <5>1, <5>2
      <4>2. \A k \in 1..(n + 1) : k \in 1..n \/ k = n + 1
        BY <3>5
      <4>3. clock <= clock'
        BY <1>1, <2>1
      <4>4. QED
        BY <3>2, <3>6, <4>1, <4>2, <4>3
    <3>8. \E Z : << >> \in Seq(Z)
      OBVIOUS
    <3>9. j.trials \in Nat \ {0} /\ \E Z : j.passes \in Seq(Z)
      BY <1>1, <2>1, <2>2, <3>3, <3>6 DEF JobSound
    <3>10. QED
      BY <3>1, <3>3, <3>7, <3>8, <3>9, NowSound
  <2>3. QED
    BY <1>2, <2>1, <2>2
<1>8. ASSUME NEW e \in Evals, MeterRow(e)
      PROVE  JobSound(f)'
  <2>1. /\ pc[e] = "metering" /\ Become(e, "metering", [job[e] EXCEPT !.rows = Tail(@)])
        /\ UNCHANGED <<schema, clock, moved>>
    BY <1>8 DEF MeterRow, project
  <2>2. CASE e = f
    <3> DEFINE j == [job[e] EXCEPT !.rows = Tail(@)]
    <3>1. pc'[f] = "metering" /\ job'[f] = j
      BY <1>2, <2>1, <2>2
    <3>2. /\ HasFields(j) /\ j.trials = job[f].trials /\ j.passes = job[f].passes
          /\ j.results = job[f].results
      <4>1. HasFields(job[f])
        BY <1>1 DEF JobSound
      <4>2. QED
        BY <2>2, <4>1, StillAJob, NewRows
    <3> HIDE DEF j
    <3>3. /\ \E X : j.passes \in Seq(X)
          /\ \E X : j.results \in Seq(X)
          /\ \A k \in DOMAIN j.passes : SoundRun(j.passes[k]) /\ j.passes[k].id <= clock'
          /\ j.trials \in Nat \ {0} /\ j.results = << >>
      BY <1>1, <2>1, <2>2, <3>2 DEF JobSound
    <3>4. QED
      BY <3>1, <3>2, <3>3, NowSound
  <2>3. QED
    BY <1>2, <2>1, <2>2
<1>9. ASSUME NEW e \in Evals, NextTrial(e)
      PROVE  JobSound(f)'
  <2>1. /\ pc[e] = "metering" /\ Become(e, "loading", job[e])
        /\ UNCHANGED <<schema, clock, moved>>
    BY <1>9 DEF NextTrial, project
  <2>2. CASE e = f
    <3>1. pc'[f] = "loading" /\ job'[f] = job[f]
      BY <1>2, <2>1, <2>2
    <3>2. QED
      BY <1>1, <2>1, <2>2, <3>1 DEF JobSound, SoundRun
  <2>3. QED
    BY <1>2, <2>1, <2>2
<1>10. ASSUME NEW e \in Evals, Save(e) \/ Raise(e) \/ Kill(e)
       PROVE  JobSound(f)'
  <2>1. Become(e, "idle", NoJob) /\ UNCHANGED <<schema, clock, moved>>
    BY <1>10 DEF Save, Raise, Kill, project
  <2>2. QED
    BY <1>2, <2>1, StopIsSound
<1>11. CASE Migrate
  <2>1. UNCHANGED <<pc, job, clock>> /\ moved' = moved \cup {e \in Evals : pc[e] # "idle"}
    BY <1>11 DEF Migrate, evals
  <2>2. pc[f] = "asking" => f \in moved'
    BY <2>1
  <2>3. \A k \in DOMAIN job[f].passes : SoundRun(job[f].passes[k])'
    BY <1>1, <2>1 DEF JobSound, SoundRun
  <2>4. QED
    BY <1>1, <2>1, <2>2, <2>3 DEF JobSound
<1>12. CASE UNCHANGED <<pc, job, schema, clock, moved>>
  <2>1. pc' = pc /\ job' = job /\ schema' = schema /\ clock' = clock /\ moved' = moved
    BY <1>12
  <2>2. clock \in Nat /\ clock' \in Nat /\ clock <= clock'
    BY <1>1, <2>1
  <2>3. QED
    BY <1>1, <2>1, <2>2, OthersKeep
<1>13. QED
  BY <1>3, <1>4, <1>5, <1>6, <1>7, <1>8, <1>9, <1>10, <1>11, <1>12
     DEF Next, vars, evals, project, ReadSemantics, Fingerprint, Verify, WriteRelease, Load,
         EditFiles

LEMMA WorldStep ==
  ASSUME Inv, [Next]_vars
  PROVE  WorldInv'
<1>1. WorldInv
  BY DEF Inv
<1>2. clock' \in Nat
  <2>1. clock' = clock \/ clock' = clock + 1
    BY DEF Next, vars, Begin, LoadKnowledge, LoadGold, Ask, Stamp, MeterRow, NextTrial, Save,
           Raise, Kill, ReadSemantics, Fingerprint, Verify, WriteRelease, Load, EditFiles,
           Migrate
  <2>2. QED
    BY <1>1, <2>1 DEF WorldInv
<1>3. files' \in Brains
  <2>1. CASE EditFiles
    <3>1. files = [declared |-> files.declared, assets |-> files.assets,
                   others |-> files.others]
          /\ files.declared \subseteq Columns /\ files.assets \in Nat /\ files.others \in Nat
      BY <1>1 DEF WorldInv, Brains
    <3>2. \/ files' = [files EXCEPT !.assets = @ + 1]
          \/ files' = [files EXCEPT !.others = @ + 1]
          \/ \E c \in Columns : files' = [files EXCEPT !.declared = @ \ {c}]
      BY <2>1 DEF EditFiles
    <3>3. \/ files' = [declared |-> files.declared, assets |-> files.assets + 1,
                       others |-> files.others]
          \/ files' = [declared |-> files.declared, assets |-> files.assets,
                       others |-> files.others + 1]
          \/ \E c \in Columns :
               files' = [declared |-> files.declared \ {c}, assets |-> files.assets,
                         others |-> files.others]
      BY <3>1, <3>2
    <3>4. QED
      BY <3>1, <3>3 DEF Brains
  <2>2. CASE UNCHANGED files
    BY <1>1, <2>2 DEF WorldInv
  <2>3. QED
    BY <2>1, <2>2
       DEF Next, vars, project, Begin, LoadKnowledge, LoadGold, Ask, Stamp, MeterRow,
           NextTrial, Save, Raise, Kill, ReadSemantics, Fingerprint, Verify, WriteRelease,
           Load, Migrate
<1>4. schema' \in [Columns -> Types \cup {Missing}]
  <2>1. CASE Migrate
    <3>1. PICK c \in Columns, t \in Types \cup {Missing} : schema' = [schema EXCEPT ![c] = t]
      BY <2>1, EvaluationAssumption DEF Migrate
    <3>2. QED
      BY <1>1, <3>1 DEF WorldInv
  <2>2. CASE UNCHANGED schema
    BY <1>1, <2>2 DEF WorldInv
  <2>3. QED
    BY <2>1, <2>2
       DEF Next, vars, project, Begin, LoadKnowledge, LoadGold, Ask, Stamp, MeterRow,
           NextTrial, Save, Raise, Kill, ReadSemantics, Fingerprint, Verify, WriteRelease,
           Load, EditFiles
<1>5. pc' = [e \in Evals |-> pc'[e]] /\ job' = [e \in Evals |-> job'[e]]
  <2>1. CASE \E e \in Evals : \E step, new : Become(e, step, new)
    BY <1>1, <2>1, Becomes
  <2>2. CASE UNCHANGED <<pc, job>>
    BY <1>1, <2>2 DEF WorldInv
  <2>3. QED
    BY ZenonT(30), <2>1, <2>2
       DEF Next, vars, evals, Begin, LoadKnowledge, LoadGold, Ask, Stamp, MeterRow, NextTrial,
           Save, Raise, Kill, ReadSemantics, Fingerprint, Verify, WriteRelease, Load,
           EditFiles, Migrate
<1>6. QED
  BY <1>2, <1>3, <1>4, <1>5 DEF WorldInv

-----------------------------------------------------------------------------
(* The runs that are saved                                                 *)

\* The passes of an eval are ordered by accuracy, and by time when it is equal.
LEMMA RepresentativeIsOne ==
  ASSUME NEW X, NEW passes \in Seq(X), passes # << >>,
         \A k \in DOMAIN passes : passes[k].correct \in Nat
  PROVE  \E k \in DOMAIN passes : Representative(passes) = passes[k]
<1> DEFINE S == DOMAIN passes
           n == Len(passes)
           B(j, i) == \/ passes[j].correct < passes[i].correct
                      \/ passes[j].correct = passes[i].correct /\ j < i
           pred == [i \in S |-> {j \in S : B(j, i)}]
           mid == n \div 2
<1>1. n \in Nat /\ n # 0 /\ S = 1..n
  OBVIOUS
<1>2. mid \in Nat /\ mid < n
  <2> HIDE DEF n
  <2>1. QED
    BY <1>1
<1>3. IsFiniteSet(S) /\ Cardinality(S) = n
  <2> HIDE DEF n, S
  <2>1. QED
    BY <1>1, IntervalSize
<1>4. StrictOrder(S, pred)
  <2>1. S \subseteq Nat /\ \A i \in S : passes[i].correct \in Nat
    OBVIOUS
  <2>2. pred \in [S -> SUBSET S] /\ \A i, j \in S : j \in pred[i] <=> B(j, i)
    OBVIOUS
  <2> HIDE DEF S, pred
  <2>3. /\ \A i \in S : ~B(i, i)
        /\ \A i, j \in S : i # j => B(i, j) \/ B(j, i)
        /\ \A i, j, k \in S : B(i, j) /\ B(j, k) => B(i, k)
    BY <2>1
  <2> HIDE DEF B
  <2>4. QED
    BY <2>2, <2>3 DEF StrictOrder
<1>5. \E i \in S : Cardinality(pred[i]) = mid
  <2> HIDE DEF S, pred, mid, n
  <2>1. mid < Cardinality(S)
    BY <1>2, <1>3
  <2>2. QED
    BY <1>2, <1>3, <1>4, <2>1, EveryRank
<1>6. \E i \in S : Cardinality({j \in S : B(j, i)}) = mid
  BY <1>5
<1>7. QED
  BY <1>6 DEF Representative

LEMMA RunsStep ==
  ASSUME Inv, [Next]_vars
  PROVE  RunsInv'
<1>1. RunsInv /\ clock \in Nat
  BY DEF Inv, WorldInv
<1>2. ASSUME NEW e \in Evals, Save(e)
      PROVE  RunsInv'
  <2>1. /\ JobSound(e) /\ pc[e] = "metering" /\ Len(job[e].passes) = job[e].trials
        /\ runs' = runs \cup {Representative(job[e].passes)} /\ clock' = clock
    BY <1>2 DEF Inv, Save
  <2>2. PICK X : job[e].passes \in Seq(X)
    BY <2>1 DEF JobSound
  <2>3. Len(job[e].passes) # 0
    BY <2>1 DEF JobSound
  <2>4. \A k \in DOMAIN job[e].passes :
          SoundRun(job[e].passes[k]) /\ job[e].passes[k].id <= clock
    BY <2>1 DEF JobSound
  <2>5. PICK k \in DOMAIN job[e].passes : Representative(job[e].passes) = job[e].passes[k]
    <3>1. job[e].passes # << >> /\ \A k \in DOMAIN job[e].passes :
                                     job[e].passes[k].correct \in Nat
      BY <2>2, <2>3, <2>4 DEF SoundRun
    <3>2. QED
      BY <2>2, <3>1, RepresentativeIsOne
  <2>6. QED
    BY <1>1, <2>1, <2>4, <2>5 DEF RunsInv, SoundRun
<1>3. CASE UNCHANGED runs /\ (clock' = clock \/ clock' = clock + 1)
  <2>1. ASSUME NEW r \in runs
        PROVE  SoundRun(r)' /\ r.id <= clock'
    <3>1. SoundRun(r) /\ r.id <= clock /\ r.id \in Nat
      BY <1>1 DEF RunsInv, SoundRun
    <3>2. r.id <= clock'
      BY <1>1, <1>3, <3>1
    <3>3. QED
      BY <3>1, <3>2 DEF SoundRun
  <2>2. QED
    BY <1>3, <2>1 DEF RunsInv
<1>4. QED
  BY <1>2, <1>3
     DEF Next, vars, saved, Begin, LoadKnowledge, LoadGold, Ask, Stamp, MeterRow, NextTrial,
         Raise, Kill, ReadSemantics, Fingerprint, Verify, WriteRelease, Load, EditFiles,
         Migrate

\* Where there is a run of a split, there is a latest one.
LEMMA LatestIsOne ==
  ASSUME Inv, NEW split, \E r \in runs : r.split = split
  PROVE  Latest(split) \in runs /\ Latest(split).split = split
<1> DEFINE candidates == {r \in runs : r.split = split}
           N == {r.id : r \in candidates}
<1>1. clock \in Nat /\ \A r \in runs : r.id \in Nat /\ r.id <= clock
  BY DEF Inv, WorldInv, RunsInv, SoundRun
<1>2. N \in SUBSET Nat /\ N # {} /\ \A i \in N : i <= clock
  BY <1>1
<1>3. PICK i \in N : \A j \in N : j <= i
  <2> HIDE DEF N
  <2>1. QED
    BY <1>1, <1>2, Greatest
<1>4. \E r \in candidates : \A other \in candidates : other.id <= r.id
  BY <1>3
<1>5. QED
  BY <1>4 DEF Latest

-----------------------------------------------------------------------------
(* Releases and loads                                                      *)

LEMMA DraftStep ==
  ASSUME Inv, [Next]_vars
  PROVE  DraftInv'
<1>1. DraftInv /\ RunsInv
  BY DEF Inv
<1>2. CASE ReadSemantics
  BY <1>2 DEF ReadSemantics, Make, project, DraftInv
<1>3. CASE Fingerprint
  BY <1>1, <1>3 DEF Fingerprint, Make, Brain, project, DraftInv
<1>4. CASE Verify
  <2>1. CASE maker' = "idle"
    BY <2>1 DEF DraftInv
  <2>2. CASE maker' # "idle"
    <3>1. /\ \E r \in runs : r.split = "test"
          /\ Latest("test").brain \in {None, draft.print}
          /\ maker' = "reading"
          /\ draft' = [declared |-> draft.declared, run |-> Latest("test"),
                       touched |-> draft.touched]
          /\ maker = "verifying" /\ UNCHANGED files
      BY <1>4, <2>2 DEF Verify, Make, project
    <3>2. SoundRun(Latest("test")) /\ Latest("test").split = "test"
      BY <1>1, <3>1, LatestIsOne DEF RunsInv
    <3>3. QED
      BY <1>1, <3>1, <3>2 DEF DraftInv, SoundRun
  <2>3. QED
    BY <2>1, <2>2
<1>5. CASE WriteRelease
  BY <1>5 DEF WriteRelease, Make, DraftInv
<1>6. CASE EditFiles
  <2>1. UNCHANGED maker /\ (maker # "idle" => draft' = [draft EXCEPT !.touched = TRUE])
    BY <1>6 DEF EditFiles, Touch
  <2>2. CASE maker = "fingerprinting"
    BY <1>1, <2>1, <2>2 DEF DraftInv
  <2>3. CASE maker = "verifying"
    BY <1>1, <2>1, <2>3 DEF DraftInv
  <2>4. CASE maker = "reading"
    BY <1>1, <2>1, <2>4 DEF DraftInv, SoundRun
  <2>5. QED
    BY <1>1, <2>1, <2>2, <2>3, <2>4 DEF DraftInv
<1>7. CASE UNCHANGED <<files, maker, draft>>
  BY <1>1, <1>7 DEF DraftInv, SoundRun
<1>8. QED
  BY <1>2, <1>3, <1>4, <1>5, <1>6, <1>7
     DEF Next, vars, project, delivery, Begin, LoadKnowledge, LoadGold, Ask, Stamp, MeterRow,
         NextTrial, Save, Raise, Kill, Load, Migrate

LEMMA ReleaseStep ==
  ASSUME Inv, [Next]_vars
  PROVE  ReleaseInv'
<1>1. ReleaseInv /\ DraftInv /\ files \in Brains
  BY DEF Inv, WorldInv
<1>2. CASE WriteRelease
  <2> DEFINE new == [brain |-> [declared |-> draft.declared, assets |-> files.assets,
                                others |-> files.others],
                     run |-> draft.run, touched |-> draft.touched]
  <2>1. releases' = releases \cup {new} /\ maker = "reading"
    BY <1>2 DEF WriteRelease
  <2>2. SoundRun(draft.run) /\ draft.run.split = "test"
        /\ (~draft.touched =>
              draft.declared = files.declared /\ draft.run.brain \in {None, files})
    BY <1>1, <2>1 DEF DraftInv
  <2>3. ~new.touched => new.run.brain \in {None, new.brain}
    <3>1. files = [declared |-> files.declared, assets |-> files.assets,
                   others |-> files.others]
      BY <1>1 DEF Brains
    <3>2. QED
      BY <2>2, <3>1
  <2>4. SoundRun(new.run) /\ new.run.split = "test"
    BY <2>2
  <2> HIDE DEF new
  <2>5. QED
    BY <1>1, <2>1, <2>3, <2>4 DEF ReleaseInv, SoundRun
<1>3. CASE UNCHANGED releases
  BY <1>1, <1>3 DEF ReleaseInv, SoundRun
<1>4. QED
  BY <1>2, <1>3
     DEF Next, vars, delivery, Begin, LoadKnowledge, LoadGold, Ask, Stamp, MeterRow,
         NextTrial, Save, Raise, Kill, ReadSemantics, Fingerprint, Verify, Load, EditFiles,
         Migrate

\* Of a release nobody has interfered with the schema warning is true of every answer.
LEMMA DriftIsTrue ==
  ASSUME Inv, NEW r \in releases, ~r.touched, ~r.run.moved
  PROVE  SchemaWarning(r) <=>
           \E a \in r.run.answers : a.schema # SchemaOf(schema, r.brain.declared)
<1>1. SoundRun(r.run) /\ r.run.brain \in {None, r.brain}
  BY DEF Inv, ReleaseInv
<1>2. CASE r.run.schema = None /\ r.run.answers = {}
  BY <1>2 DEF SchemaWarning
<1>3. CASE /\ r.run.brain \in Brains /\ r.run.answers # {}
           /\ r.run.schema \in [r.run.brain.declared -> Prints]
           /\ \A a \in r.run.answers : a.schema = r.run.schema
  <2>1. r.run.brain = r.brain /\ r.run.schema # None
    BY <1>1, <1>3, NoneIsNothing DEF Brains
  <2>2. QED
    BY <1>3, <2>1 DEF SchemaWarning
<1>4. QED
  BY <1>1, <1>2, <1>3 DEF SoundRun

LEMMA WarningStep ==
  ASSUME Inv, [Next]_vars
  PROVE  WarningsAreTrue'
<1>1. WarningsAreTrue
  BY DEF Inv
<1>2. CASE Load
  <2>1. PICK r \in releases, m \in Models :
          loaded' = [release |-> r, model |-> m, schema |-> schema,
                     other |-> ModelWarning(r, m), drift |-> SchemaWarning(r)]
    BY <1>2 DEF Load
  <2>2. /\ loaded'.release = r /\ loaded'.model = m /\ loaded'.schema = schema
        /\ loaded'.other = ModelWarning(r, m) /\ loaded'.drift = SchemaWarning(r)
    BY <2>1
  <2>3. loaded'.other <=> r.run.model # loaded'.model
    BY <2>2 DEF ModelWarning
  <2>4. ~r.touched /\ ~r.run.moved =>
          (loaded'.drift <=>
             \E a \in r.run.answers : a.schema # SchemaOf(loaded'.schema, r.brain.declared))
    BY <2>2, DriftIsTrue
  <2>5. QED
    BY <2>2, <2>3, <2>4 DEF WarningsAreTrue, SchemaOf
<1>3. CASE UNCHANGED loaded
  BY <1>1, <1>3 DEF WarningsAreTrue, SchemaOf
<1>4. QED
  BY <1>2, <1>3
     DEF Next, vars, delivery, Begin, LoadKnowledge, LoadGold, Ask, Stamp, MeterRow,
         NextTrial, Save, Raise, Kill, ReadSemantics, Fingerprint, Verify, WriteRelease,
         EditFiles, Migrate

-----------------------------------------------------------------------------
(* The books: what was metered, and what is still to be                    *)

\* IsRun at the time now.
RunShape(r, now) ==
  /\ r.id \in 0..now /\ r.split \in Splits /\ r.model \in AgentModels \cup {None}
  /\ r.brain \in Brains \cup {None}
  /\ r.correct \in 0..NQuestions /\ r.cost \in Nat

\* What of pass k is still to be metered: its remaining rows, if it is the last one.
Owed(j, k) == IF k = Len(j.passes) THEN SumOf(j.rows) ELSE 0

\* A pass is in the ledger with all it cost but what it owes.
BookedPass(j, k, led, now) ==
  /\ RunShape(j.passes[k], now)
  /\ j.passes[k].id \in DOMAIN led
  /\ led[j.passes[k].id] + Owed(j, k) = j.passes[k].cost

\* What an eval at this step may hold.
BookedJob(step, j, led, now) ==
  /\ step \in {"idle", "loading", "regolding", "asking", "metering"}
  /\ step = "idle" => j = NoJob
  /\ step # "idle" => j.split \in Splits /\ j.model \in AgentModels /\ j.trials \in Nat \ {0}
  /\ \A k \in DOMAIN j.results : j.results[k].agent \in Nat /\ j.results[k].judge \in Nat
  /\ Len(j.results) <= NQuestions /\ (step # "asking" => j.results = << >>)
  /\ j.rows \in Seq(Nat) /\ (step # "metering" => j.rows = << >>)
  /\ Len(j.passes) <= j.trials
  /\ step = "metering" => j.passes # << >>
  /\ step \in {"loading", "regolding", "asking"} => Len(j.passes) < j.trials
  /\ \A k \in DOMAIN j.passes : BookedPass(j, k, led, now)
  /\ \A k, l \in DOMAIN j.passes : j.passes[k].id = j.passes[l].id => k = l

Ids(j) == {j.passes[k].id : k \in DOMAIN j.passes}

LedgerInv ==
  /\ clock \in Nat \ {0}
  /\ ledger = [i \in DOMAIN ledger |-> ledger[i]] /\ DOMAIN ledger \subseteq 1..(clock - 1)
  /\ \A i \in DOMAIN ledger : ledger[i] \in Nat
  /\ billed \in Nat /\ lost \in Nat

\* No pass has the id of another eval's pass, nor a saved run that of a pass at work.
ApartInv ==
  /\ \A e, f \in Evals : e # f => Ids(job[e]) \cap Ids(job[f]) = {}
  /\ \A r \in runs, e \in Evals : r.id \notin Ids(job[e])

SavedInv ==
  \A r \in runs : /\ RunShape(r, clock)
                  /\ r.id # 0 => r.id \in DOMAIN ledger /\ ledger[r.id] = r.cost

Balance == billed = SumFunction(ledger) + lost + SumFunction([e \in Evals |-> Unmetered(e)])

JobsInv == \A e \in Evals : BookedJob(pc[e], job[e], ledger, clock)

BooksInv == LedgerInv /\ ApartInv /\ SavedInv /\ Balance /\ JobsInv

\* An eval updated in one field keeps the other ones.
LEMMA OtherFieldsKeep ==
  ASSUME NEW j, HasFields(j), NEW x
  PROVE  /\ \A k : k \in {[j EXCEPT !.brain = x], [j EXCEPT !.gold = x]} =>
              /\ k.split = j.split /\ k.trials = j.trials /\ k.model = j.model
              /\ k.results = j.results /\ k.rows = j.rows /\ k.passes = j.passes
         /\ \A k : k = [j EXCEPT !.results = x] =>
              /\ k.split = j.split /\ k.trials = j.trials /\ k.model = j.model
              /\ k.results = x /\ k.rows = j.rows /\ k.passes = j.passes
         /\ \A k : k = [j EXCEPT !.rows = x] =>
              /\ k.split = j.split /\ k.trials = j.trials /\ k.model = j.model
              /\ k.results = j.results /\ k.rows = x /\ k.passes = j.passes
BY DEF HasFields

\* Time passes and the ledger grows by other runs.
LEMMA BookedStays ==
  ASSUME NEW step, NEW j, NEW led, NEW now \in Nat, BookedJob(step, j, led, now),
         NEW led2, NEW now2 \in Nat, now <= now2, DOMAIN led \subseteq DOMAIN led2,
         \A i \in Ids(j) : led2[i] = led[i]
  PROVE  BookedJob(step, j, led2, now2)
<1>1. ASSUME NEW k \in DOMAIN j.passes
      PROVE  BookedPass(j, k, led2, now2)
  <2>1. BookedPass(j, k, led, now) /\ led2[j.passes[k].id] = led[j.passes[k].id]
    BY DEF BookedJob, Ids
  <2>2. RunShape(j.passes[k], now2)
    BY <2>1 DEF BookedPass, RunShape
  <2>3. QED
    BY <2>1, <2>2 DEF BookedPass
<1>2. QED
  BY <1>1 DEF BookedJob

\* An eval that goes on with what it has.
LEMMA GoesOn ==
  ASSUME NEW step, NEW j, NEW led, NEW now, BookedJob(step, j, led, now), step # "idle",
         NEW next \in {"loading", "regolding", "asking"}, NEW k,
         k.split = j.split, k.trials = j.trials, k.model = j.model,
         k.results = j.results, k.rows = j.rows, k.passes = j.passes,
         j.results = << >>, j.rows = << >>, Len(j.passes) < j.trials
  PROVE  BookedJob(next, k, led, now)
<1>1. \A i \in DOMAIN k.passes : BookedPass(k, i, led, now)
  BY DEF BookedJob, BookedPass, Owed
<1>2. QED
  BY <1>1 DEF BookedJob

LEMMA NothingIsBooked ==
  ASSUME NEW led, NEW now
  PROVE  BookedJob("idle", NoJob, led, now) /\ Ids(NoJob) = {}
BY EvaluationAssumption DEF BookedJob, NoJob, Ids

LEMMA BegunIsBooked ==
  ASSUME NEW led, NEW now, NEW s \in Splits, NEW n \in Trials, NEW m \in AgentModels,
         NEW k, k = [NoJob EXCEPT !.split = s, !.trials = n, !.model = m]
  PROVE  BookedJob("loading", k, led, now) /\ Ids(k) = {}
<1>1. /\ k.split = s /\ k.trials = n /\ k.model = m
      /\ k.passes = << >> /\ k.rows = << >> /\ k.results = << >>
  <2>1. HasFields(NoJob) /\ NoJob.passes = << >> /\ NoJob.rows = << >> /\ NoJob.results = << >>
    BY DEF NoJob, HasFields
  <2>2. /\ k.split = s /\ k.trials = n /\ k.model = m
        /\ k.passes = NoJob.passes /\ k.rows = NoJob.rows /\ k.results = NoJob.results
    BY <2>1 DEF HasFields
  <2>3. QED
    BY <2>1, <2>2
<1>2. n \in Nat \ {0} /\ NQuestions \in Nat
  BY EvaluationAssumption
<1>3. Len(k.passes) = 0 /\ Len(k.results) = 0 /\ DOMAIN k.passes = {} /\ DOMAIN k.results = {}
      /\ k.rows \in Seq(Nat)
  <2>1. Len(<< >>) = 0 /\ DOMAIN << >> = {} /\ << >> \in Seq(Nat)
    OBVIOUS
  <2>2. QED
    BY <1>1, <2>1, Zenon
<1>4. QED
  BY <1>1, <1>2, <1>3 DEF BookedJob, Ids

IsSeq(q) == \E X : q \in Seq(X)

\* The runs in the ledger are of before now.
IsYoung(led, now) == now \in Nat \ {0} /\ DOMAIN led \subseteq 1..(now - 1)

\* The run of a pass, at the moment it is stamped.
IsStamped(R, j, now) ==
  RunShape(R, now) /\ R.id = now /\ R.cost = SumOf(CostsOf(j.results))

\* A run is opened in the ledger, and a row is posted to it.
Opened(led, led2, id) ==
  /\ DOMAIN led2 = DOMAIN led \cup {id} /\ led2[id] = 0
  /\ \A i \in DOMAIN led : led2[i] = led[i]

Posted(led, led2, id, row) ==
  /\ DOMAIN led2 = DOMAIN led /\ led2[id] = led[id] + row
  /\ \A i \in DOMAIN led \ {id} : led2[i] = led[i]

\* The updates of an eval that answers, stamps and meters.
Answered(j, x) == [j EXCEPT !.results = x]
Stamped(j, R) ==
  [j EXCEPT !.passes = Append(j.passes, R), !.rows = RowsOf(j.results), !.results = << >>]
Metered(j, x) == [j EXCEPT !.rows = x]

LEMMA AnsweredIsBooked ==
  ASSUME NEW j, NEW led, NEW now, BookedJob("asking", j, led, now), HasFields(j),
         NEW X, j.results \in Seq(X), Len(j.results) < NQuestions,
         NEW a, a.agent \in Nat, a.judge \in Nat,
         NEW x, x = Append(j.results, a), NEW k, k = Answered(j, x)
  PROVE  BookedJob("asking", k, led, now) /\ Ids(k) = Ids(j)
<1>1. /\ k.split = j.split /\ k.trials = j.trials /\ k.model = j.model
      /\ k.results = Append(j.results, a) /\ k.rows = j.rows /\ k.passes = j.passes
  BY OtherFieldsKeep DEF Answered
<1>2. PICK r : r = k.results
  OBVIOUS
<1>3. PICK n : n = Len(j.results)
  OBVIOUS
<1>4. /\ n \in Nat /\ Len(r) = n + 1 /\ DOMAIN r = 1..(n + 1) /\ DOMAIN j.results = 1..n
      /\ r[n + 1] = a /\ \A i \in 1..n : r[i] = j.results[i]
  BY <1>1, <1>2, <1>3
<1>5. \A i \in DOMAIN r : r[i].agent \in Nat /\ r[i].judge \in Nat
  <2>1. \A i \in 1..n : r[i].agent \in Nat /\ r[i].judge \in Nat
    BY <1>4 DEF BookedJob
  <2>2. \A i \in 1..(n + 1) : i \in 1..n \/ i = n + 1
    BY <1>4
  <2>3. QED
    BY <1>4, <2>1, <2>2
<1>6. Len(r) <= NQuestions
  BY <1>3, <1>4, EvaluationAssumption
<1>7. \A i \in DOMAIN k.passes : BookedPass(k, i, led, now)
  BY <1>1 DEF BookedJob, BookedPass, Owed
<1>8. /\ k.split \in Splits /\ k.model \in AgentModels /\ k.trials \in Nat \ {0}
      /\ k.rows \in Seq(Nat) /\ k.rows = << >>
      /\ Len(k.passes) <= k.trials /\ Len(k.passes) < k.trials
  BY <1>1 DEF BookedJob
<1>9. \A i, l \in DOMAIN k.passes : k.passes[i].id = k.passes[l].id => i = l
  BY <1>1 DEF BookedJob
<1>10. BookedJob("asking", k, led, now)
  BY <1>2, <1>5, <1>6, <1>7, <1>8, <1>9 DEF BookedJob
<1>11. QED
  BY <1>1, <1>10 DEF Ids

\* The stamped pass is in the ledger with nothing, and owes all it cost.
LEMMA StampedIsBooked ==
  ASSUME NEW j, NEW led, NEW now, BookedJob("asking", j, led, now), HasFields(j),
         IsSeq(j.results), IsSeq(j.passes), IsYoung(led, now),
         NEW R, IsStamped(R, j, now),
         NEW led2, Opened(led, led2, now),
         NEW k, k = Stamped(j, R)
  PROVE  BookedJob("metering", k, led2, now + 1) /\ Ids(k) = Ids(j) \cup {now}
<1>0. /\ DOMAIN led2 = DOMAIN led \cup {now} /\ led2[now] = 0
      /\ \A i \in DOMAIN led : led2[i] = led[i]
      /\ now \in Nat \ {0} /\ DOMAIN led \subseteq 1..(now - 1)
  BY DEF Opened, IsYoung
<1> RunShape(R, now) /\ R.id = now /\ R.cost = SumOf(CostsOf(j.results))
  BY DEF IsStamped
<1> PICK X, Y : j.results \in Seq(X) /\ j.passes \in Seq(Y)
  BY DEF IsSeq
<1>1. /\ k.split = j.split /\ k.trials = j.trials /\ k.model = j.model
      /\ k.passes = Append(j.passes, R) /\ k.rows = RowsOf(j.results) /\ k.results = << >>
  <2>1. PICK x, y, z : x = Append(j.passes, R) /\ y = RowsOf(j.results) /\ z = << >>
    OBVIOUS
  <2>2. k = [j EXCEPT !.passes = x, !.rows = y, !.results = z]
    BY <2>1 DEF Stamped
  <2>3. /\ k.split = j.split /\ k.trials = j.trials /\ k.model = j.model
        /\ k.passes = x /\ k.rows = y /\ k.results = z
    BY <2>2 DEF HasFields
  <2>4. QED
    BY <2>1, <2>3
<1>2. PICK p : p = k.passes
  OBVIOUS
<1>3. PICK n : n = Len(j.passes)
  OBVIOUS
<1>4. /\ n \in Nat /\ DOMAIN j.passes = 1..n
      /\ Len(p) = n + 1 /\ DOMAIN p = 1..(n + 1)
      /\ p[n + 1] = R /\ \A i \in 1..n : p[i] = j.passes[i]
  BY <1>1, <1>2, <1>3
<1>5. /\ \A i \in 1..(n + 1) : i \in 1..n \/ i = n + 1
      /\ \A i \in 1..n : i # n + 1
  BY <1>4
<1>6. k.rows \in Seq(Nat) /\ SumOf(k.rows) = R.cost /\ R.cost \in Nat
  <2>1. \A i \in DOMAIN j.results : j.results[i].agent \in Nat /\ j.results[i].judge \in Nat
    BY DEF BookedJob
  <2>2. RowsOf(j.results) \in Seq(Nat) /\ SumOf(RowsOf(j.results)) = SumOf(CostsOf(j.results))
    BY <2>1, RowsAddUp
  <2>3. QED
    BY <1>1, <2>2 DEF RunShape
<1>7. ASSUME NEW i \in 1..n
      PROVE  BookedPass(k, i, led2, now + 1) /\ p[i].id \in DOMAIN led /\ p[i].id # now
  <2>1. BookedPass(j, i, led, now) /\ j.rows = << >> /\ p[i] = j.passes[i]
    BY <1>4 DEF BookedJob
  <2>2. Owed(j, i) = 0
    BY <2>1, SumOfNothing DEF Owed
  <2>3. Owed(k, i) = 0
    BY <1>2, <1>4, <1>5 DEF Owed
  <2>4. RunShape(p[i], now + 1)
    BY <1>0, <2>1 DEF BookedPass, RunShape
  <2>5. p[i].id \in DOMAIN led /\ p[i].id # now
    BY <1>0, <2>1 DEF BookedPass
  <2>6. led2[p[i].id] + 0 = p[i].cost
    BY <1>0, <2>1, <2>2, <2>5 DEF BookedPass
  <2>7. QED
    BY <1>0, <1>2, <2>3, <2>4, <2>5, <2>6 DEF BookedPass
<1>8. BookedPass(k, n + 1, led2, now + 1)
  <2>1. Owed(k, n + 1) = R.cost
    BY <1>2, <1>4, <1>6 DEF Owed
  <2>2. RunShape(R, now + 1)
    BY <1>0 DEF RunShape
  <2>3. QED
    BY <1>0, <1>2, <1>4, <1>6, <2>1, <2>2 DEF BookedPass
<1>9. \A i \in DOMAIN p : BookedPass(k, i, led2, now + 1)
  BY <1>4, <1>5, <1>7, <1>8
<1>10. ASSUME NEW i \in DOMAIN p, NEW l \in DOMAIN p, p[i].id = p[l].id
       PROVE  i = l
  <2>1. CASE i = n + 1 \/ l = n + 1
    BY <1>4, <1>5, <1>7, <1>10, <2>1
  <2>2. CASE i \in 1..n /\ l \in 1..n
    BY <1>4, <1>10, <2>2 DEF BookedJob
  <2>3. QED
    BY <1>4, <1>5, <2>1, <2>2
<1>11. Ids(k) = Ids(j) \cup {now}
  <2>1. Ids(k) = {p[i].id : i \in 1..(n + 1)}
    BY <1>2, <1>4 DEF Ids
  <2>2. Ids(j) = {p[i].id : i \in 1..n}
    BY <1>4 DEF Ids
  <2>3. QED
    BY <1>4, <1>5, <2>1, <2>2
<1>12. Len(p) <= j.trials /\ p # << >>
  <2>1. n < j.trials /\ j.trials \in Nat
    BY <1>3 DEF BookedJob
  <2>2. QED
    BY <1>4, <2>1
<1>13. Len(k.results) <= NQuestions /\ DOMAIN k.results = {}
  BY <1>1, EvaluationAssumption
<1>14. k.split \in Splits /\ k.model \in AgentModels /\ k.trials \in Nat \ {0}
  BY <1>1 DEF BookedJob
<1>15. \A i, l \in DOMAIN p : p[i].id = p[l].id => i = l
  BY <1>10
<1>16. BookedJob("metering", k, led2, now + 1)
  <2>1. \A i \in DOMAIN k.passes : BookedPass(k, i, led2, now + 1)
    BY <1>2, <1>9
  <2>6. \A i, l \in DOMAIN k.passes : k.passes[i].id = k.passes[l].id => i = l
    BY <1>2, <1>15
  <2>2. Len(k.passes) <= k.trials /\ k.passes # << >> /\ k.rows \in Seq(Nat)
    BY <1>1, <1>2, <1>6, <1>12
  <2>3. \A i \in DOMAIN k.results : k.results[i].agent \in Nat /\ k.results[i].judge \in Nat
    BY <1>13
  <2>4. k.results = << >>
    BY <1>1
  <2>5. QED
    BY <1>13, <1>14, <2>1, <2>2, <2>3, <2>4, <2>6 DEF BookedJob
<1>17. QED
  BY <1>11, <1>16

\* A row goes from what is owed to the ledger.
LEMMA MeteredIsBooked ==
  ASSUME NEW j, NEW led, NEW now, BookedJob("metering", j, led, now), HasFields(j),
         NEW Y, j.passes \in Seq(Y), j.rows # << >>, \A i \in DOMAIN led : led[i] \in Nat,
         NEW led2, Posted(led, led2, Last(j.passes).id, Head(j.rows)),
         NEW x, x = Tail(j.rows), NEW k, k = Metered(j, x)
  PROVE  /\ BookedJob("metering", k, led2, now) /\ Ids(k) = Ids(j)
         /\ Last(j.passes).id \in Ids(j) /\ Last(j.passes).id \in DOMAIN led
         /\ Head(j.rows) \in Nat
<1>0. /\ DOMAIN led2 = DOMAIN led
      /\ led2[Last(j.passes).id] = led[Last(j.passes).id] + Head(j.rows)
      /\ \A i \in DOMAIN led \ {Last(j.passes).id} : led2[i] = led[i]
  BY DEF Posted
<1>1. /\ k.split = j.split /\ k.trials = j.trials /\ k.model = j.model
      /\ k.results = j.results /\ k.rows = Tail(j.rows) /\ k.passes = j.passes
  BY OtherFieldsKeep DEF Metered
<1>2. PICK n : n = Len(j.passes)
  OBVIOUS
<1>3. n \in Nat /\ n \in DOMAIN j.passes /\ DOMAIN j.passes = 1..n /\ Last(j.passes) = j.passes[n]
  BY <1>2 DEF BookedJob, Last
<1>4. PICK row, owed : row = Head(j.rows) /\ owed = SumOf(Tail(j.rows))
  OBVIOUS
<1>5. /\ j.rows \in Seq(Nat) /\ Tail(j.rows) \in Seq(Nat) /\ row \in Nat
      /\ SumOf(j.rows) = row + owed /\ owed \in Nat
  <2>1. j.rows \in Seq(Nat)
    BY DEF BookedJob
  <2>2. Tail(j.rows) \in Seq(Nat) /\ row \in Nat
    BY <1>4, <2>1
  <2>3. SumOf(j.rows) = row + owed /\ owed \in Nat
    BY <1>4, <2>1, <2>2, SumOfTail, SumOfType
  <2>4. QED
    BY <2>1, <2>2, <2>3
<1>6. ASSUME NEW i \in DOMAIN j.passes
      PROVE  BookedPass(k, i, led2, now)
  <2>1. BookedPass(j, i, led, now)
    BY DEF BookedJob
  <2>2. CASE i = n
    <3>1. PICK id : id = j.passes[n].id
      OBVIOUS
    <3>2. id \in DOMAIN led /\ led[id] \in Nat /\ led[id] + (row + owed) = j.passes[n].cost
      BY <1>2, <1>5, <2>1, <2>2, <3>1 DEF BookedPass, Owed
    <3>3. led2[id] = led[id] + row
      BY <1>0, <1>3, <1>4, <3>1
    <3>4. led2[id] + owed = j.passes[n].cost
      BY <1>5, <3>2, <3>3
    <3>5. Owed(k, n) = owed
      BY <1>1, <1>2, <1>4 DEF Owed
    <3>6. QED
      BY <1>0, <1>1, <2>1, <2>2, <3>1, <3>2, <3>4, <3>5 DEF BookedPass
  <2>3. CASE i # n
    <3>1. j.passes[i].id # j.passes[n].id
      BY <1>3, <2>3 DEF BookedJob
    <3>2. Owed(j, i) = 0 /\ Owed(k, i) = 0
      BY <1>1, <1>2, <2>3 DEF Owed
    <3>3. led2[j.passes[i].id] = led[j.passes[i].id]
      BY <1>0, <1>3, <2>1, <3>1 DEF BookedPass
    <3>4. QED
      BY <1>0, <1>1, <2>1, <3>2, <3>3 DEF BookedPass
  <2>4. QED
    BY <2>2, <2>3
<1>7. Last(j.passes).id \in Ids(j) /\ Last(j.passes).id \in DOMAIN led
  <2>1. BookedPass(j, n, led, now)
    BY <1>3 DEF BookedJob
  <2>2. QED
    BY <1>3, <2>1 DEF BookedPass, Ids
<1>8. BookedJob("metering", k, led2, now)
  <2>1. \A i \in DOMAIN k.passes : BookedPass(k, i, led2, now)
    BY <1>1, <1>6
  <2>2. /\ k.split \in Splits /\ k.model \in AgentModels /\ k.trials \in Nat \ {0}
        /\ Len(k.results) <= NQuestions /\ k.results = << >> /\ k.passes # << >>
        /\ Len(k.passes) <= k.trials
        /\ \A i \in DOMAIN k.results : k.results[i].agent \in Nat /\ k.results[i].judge \in Nat
    BY <1>1 DEF BookedJob
  <2>3. \A i, l \in DOMAIN k.passes : k.passes[i].id = k.passes[l].id => i = l
    BY <1>1 DEF BookedJob
  <2>4. k.rows \in Seq(Nat)
    BY <1>1, <1>5
  <2>5. QED
    BY <2>1, <2>2, <2>3, <2>4 DEF BookedJob
<1>9. Ids(k) = Ids(j)
  BY <1>1 DEF Ids
<1>10. QED
  BY <1>4, <1>5, <1>7, <1>8, <1>9

\* What an eval has spent and not metered.
UnmeteredOf(step, j) ==
  IF step = "metering" THEN SumOf(j.rows) ELSE SumOf(RowsOf(j.results))

LEMMA NoRows == SumOf(RowsOf(<< >>)) = 0
<1>1. << >> \in Seq(Nat) /\ DOMAIN << >> = {} /\ CostsOf(<< >>) = << >>
  BY DEF CostsOf
<1>2. SumOf(RowsOf(<< >>)) = SumOf(CostsOf(<< >>))
  BY <1>1, RowsAddUp
<1>3. QED
  BY <1>1, <1>2, SumOfNothing

LEMMA UnmeteredIsNat ==
  ASSUME NEW step, NEW j, NEW led, NEW now, BookedJob(step, j, led, now),
         NEW X, j.results \in Seq(X)
  PROVE  UnmeteredOf(step, j) \in Nat
<1>1. SumOf(j.rows) \in Nat
  BY SumOfType DEF BookedJob
<1>2. SumOf(RowsOf(j.results)) \in Nat
  <2>1. \A k \in DOMAIN j.results : j.results[k].agent \in Nat /\ j.results[k].judge \in Nat
    BY DEF BookedJob
  <2>2. RowsOf(j.results) \in Seq(Nat)
    BY <2>1, RowsAddUp
  <2>3. QED
    BY <2>2, SumOfType
<1>3. QED
  BY <1>1, <1>2 DEF UnmeteredOf

LEMMA LedgerSum ==
  ASSUME NEW now \in Nat \ {0}, NEW led, DOMAIN led \subseteq 1..(now - 1),
         \A i \in DOMAIN led : led[i] \in Nat
  PROVE  /\ IsFiniteSet(DOMAIN led)
         /\ SumFunction(led) = Total(led, DOMAIN led) /\ SumFunction(led) \in Nat
<1>1. IsFiniteSet(DOMAIN led)
  <2>1. 1 \in Int /\ now - 1 \in Int
    OBVIOUS
  <2>2. IsFiniteSet(1..(now - 1))
    BY <2>1, FS_Interval
  <2>3. QED
    BY <2>2, FS_Subset
<1>2. SumFunction(led) = Total(led, DOMAIN led)
  BY <1>1, SumFunctionIsTotal
<1>3. Total(led, DOMAIN led) \in Nat
  BY <1>1, TotalIsNat
<1>4. QED
  BY <1>1, <1>2, <1>3

\* One of the addends changes.
LEMMA SumMoves ==
  ASSUME NEW S, IsFiniteSet(S), NEW f, NEW g, DOMAIN f = S, DOMAIN g = S, NEW x \in S,
         \A y \in S : f[y] \in Nat /\ g[y] \in Nat, \A y \in S \ {x} : g[y] = f[y]
  PROVE  /\ SumFunction(f) \in Nat /\ SumFunction(g) \in Nat
         /\ SumFunction(g) + f[x] = SumFunction(f) + g[x]
<1>1. SumFunction(f) = Total(f, S) /\ SumFunction(g) = Total(g, S)
  BY SumFunctionIsTotal
<1>2. /\ Total(f, S) \in Nat /\ Total(g, S) \in Nat
      /\ Total(g, S) + f[x] = Total(f, S) + g[x]
  BY TotalMoves
<1>3. QED
  BY <1>1, <1>2

\* The ledger grows, and changes only by the passes of e.
LedgerGrows(e) ==
  /\ clock <= clock' /\ DOMAIN ledger \subseteq DOMAIN ledger'
  /\ \A i \in DOMAIN ledger \ Ids(job[e]) : ledger'[i] = ledger[i]

\* The eval e saves these runs, all its own and all paid for, and lets go of them.
Saves(e, new, more) ==
  /\ runs' = runs \cup more
  /\ \A r \in more : /\ RunShape(r, clock') /\ r.id \in DOMAIN ledger'
                     /\ ledger'[r.id] = r.cost /\ r.id \in Ids(job[e]) \ Ids(new)

\* An eval moves, and with it the ledger and the runs.
LEMMA TheBooksMove ==
  ASSUME Inv, BooksInv, NEW e \in Evals, NEW step, NEW new, NEW more,
         Become(e, step, new), LedgerInv', LedgerGrows(e),
         BookedJob(step, new, ledger', clock'), IsSeq(new.results),
         Ids(new) \subseteq Ids(job[e]) \cup {clock}, Saves(e, new, more),
         billed' + UnmeteredOf(pc[e], job[e]) + SumFunction(ledger) + lost
           = billed + UnmeteredOf(step, new) + SumFunction(ledger') + lost'
  PROVE  BooksInv'
<1>0. /\ pc'[e] = step /\ job'[e] = new
      /\ \A f \in Evals \ {e} : pc'[f] = pc[f] /\ job'[f] = job[f]
  BY Becomes DEF Inv
<1>1. /\ clock \in Nat \ {0} /\ clock' \in Nat \ {0}
      /\ DOMAIN ledger \subseteq 1..(clock - 1) /\ clock \notin DOMAIN ledger
      /\ \A f \in Evals : BookedJob(pc[f], job[f], ledger, clock)
  BY DEF BooksInv, LedgerInv, JobsInv
<1>2. \A f \in Evals : Ids(job[f]) \subseteq DOMAIN ledger
  BY <1>1 DEF BookedJob, BookedPass, Ids
<1>3. JobsInv'
  <2>1. ASSUME NEW f \in Evals
        PROVE  BookedJob(pc'[f], job'[f], ledger', clock')
    <3>1. CASE f = e
      BY <1>0, <3>1
    <3>2. CASE f # e
      <4>1. \A i \in Ids(job[f]) : ledger'[i] = ledger[i]
        BY <1>2, <3>2 DEF BooksInv, ApartInv, LedgerGrows
      <4>2. BookedJob(pc[f], job[f], ledger', clock')
        BY <1>1, <4>1, BookedStays DEF LedgerGrows
      <4>3. QED
        BY <1>0, <3>2, <4>2
    <3>3. QED
      BY <3>1, <3>2
  <2>2. QED
    BY <2>1 DEF JobsInv
<1>4. ApartInv'
  <2>1. Ids(job'[e]) = Ids(new) /\ \A f \in Evals : f # e => Ids(job'[f]) = Ids(job[f])
    BY <1>0
  <2>2. /\ \A f, g \in Evals : f # g => Ids(job[f]) \cap Ids(job[g]) = {}
        /\ \A r \in runs, f \in Evals : r.id \notin Ids(job[f])
    BY DEF BooksInv, ApartInv
  <2>3. \A f, g \in Evals : f # g => Ids(job'[f]) \cap Ids(job'[g]) = {}
    BY <1>1, <1>2, <2>1, <2>2
  <2>4. \A r \in runs : r.id # clock
    BY <1>1 DEF BooksInv, SavedInv
  <2>5. \A r \in runs', f \in Evals : r.id \notin Ids(job'[f])
    BY <2>1, <2>2, <2>4 DEF Saves
  <2>6. QED
    BY <2>3, <2>5 DEF ApartInv, Ids
<1>5. SavedInv'
  <2>1. ASSUME NEW r \in runs
        PROVE  /\ RunShape(r, clock')
               /\ r.id # 0 => r.id \in DOMAIN ledger' /\ ledger'[r.id] = r.cost
    <3>1. /\ RunShape(r, clock) /\ r.id \notin Ids(job[e])
          /\ r.id # 0 => r.id \in DOMAIN ledger /\ ledger[r.id] = r.cost
      BY DEF BooksInv, SavedInv, ApartInv
    <3>2. RunShape(r, clock')
      BY <1>1, <3>1 DEF RunShape, LedgerGrows
    <3>3. QED
      BY <3>1, <3>2 DEF LedgerGrows
  <2>2. QED
    BY <2>1 DEF SavedInv, RunShape, Saves
<1>6. Balance'
  <2>1. PICK f : f = [x \in Evals |-> Unmetered(x)]
    OBVIOUS
  <2>2. PICK g : g = [x \in Evals |-> UnmeteredOf(pc'[x], job'[x])]
    OBVIOUS
  <2>3. /\ DOMAIN f = Evals /\ DOMAIN g = Evals
        /\ \A x \in Evals : f[x] = UnmeteredOf(pc[x], job[x])
        /\ \A x \in Evals : g[x] = UnmeteredOf(pc'[x], job'[x])
    BY <2>1, <2>2 DEF Unmetered, UnmeteredOf
  <2>4. \A x \in Evals : f[x] \in Nat
    BY <1>1, <2>3, UnmeteredIsNat DEF Inv, JobSound
  <2>5. \A x \in Evals \ {e} : g[x] = f[x]
    BY <1>0, <2>3
  <2>6. f[e] = UnmeteredOf(pc[e], job[e]) /\ g[e] = UnmeteredOf(step, new) /\ g[e] \in Nat
    BY <1>0, <2>3, UnmeteredIsNat DEF IsSeq
  <2>7. \A x \in Evals : g[x] \in Nat
    BY <2>4, <2>5, <2>6
  <2>8. /\ SumFunction(f) \in Nat /\ SumFunction(g) \in Nat
        /\ SumFunction(g) + f[e] = SumFunction(f) + g[e]
    BY <2>3, <2>4, <2>5, <2>7, EvaluationAssumption, SumMoves
  <2>9. billed = SumFunction(ledger) + lost + SumFunction(f)
    BY <2>1 DEF BooksInv, Balance
  <2>10. SumFunction(ledger) \in Nat /\ SumFunction(ledger') \in Nat
    <3>1. /\ DOMAIN ledger' \subseteq 1..(clock' - 1)
          /\ \A i \in DOMAIN ledger' : ledger'[i] \in Nat
          /\ \A i \in DOMAIN ledger : ledger[i] \in Nat
      BY DEF BooksInv, LedgerInv
    <3>2. QED
      BY <1>1, <3>1, LedgerSum
  <2>11. billed \in Nat /\ lost \in Nat /\ billed' \in Nat /\ lost' \in Nat
    BY DEF BooksInv, LedgerInv
  <2>12. billed' = SumFunction(ledger') + lost' + SumFunction(g)
    <3>1. PICK a, b, c, d : /\ a = SumFunction(ledger) /\ b = SumFunction(ledger')
                            /\ c = SumFunction(f) /\ d = SumFunction(g)
      OBVIOUS
    <3>2. PICK u, v, m, n, p, q : /\ u = f[e] /\ v = g[e] /\ m = billed /\ n = billed'
                                  /\ p = lost /\ q = lost'
      OBVIOUS
    <3>3. n + u + a + p = m + v + b + q /\ d + u = c + v /\ m = a + p + c
      BY <2>6, <2>8, <2>9, <3>1, <3>2
    <3>4. /\ a \in Nat /\ b \in Nat /\ c \in Nat /\ d \in Nat /\ u \in Nat /\ v \in Nat
          /\ m \in Nat /\ n \in Nat /\ p \in Nat /\ q \in Nat
      BY <2>4, <2>6, <2>8, <2>10, <2>11, <3>1, <3>2
    <3>5. n = b + q + d
      BY <3>3, <3>4
    <3>6. QED
      BY <3>1, <3>2, <3>5
  <2>13. g = [x \in Evals |-> Unmetered(x)']
    BY <2>2 DEF Unmetered, UnmeteredOf
  <2>14. QED
    BY <2>12, <2>13 DEF Balance
<1>7. QED
  BY <1>3, <1>4, <1>5, <1>6 DEF BooksInv

\* An eval moves and spends nothing, saves nothing and meters nothing.
LEMMA TheBooksStand ==
  ASSUME Inv, BooksInv, NEW e \in Evals, NEW step, NEW new, Become(e, step, new),
         UNCHANGED <<ledger, clock, runs, billed, lost>>,
         BookedJob(step, new, ledger, clock), IsSeq(new.results),
         Ids(new) \subseteq Ids(job[e]),
         UnmeteredOf(step, new) = UnmeteredOf(pc[e], job[e])
  PROVE  BooksInv'
<1>1. LedgerInv' /\ clock \in Nat
  BY DEF BooksInv, LedgerInv
<1>2. PICK more : more = {}
  OBVIOUS
<1>3. LedgerGrows(e) /\ Saves(e, new, more)
  BY <1>1, <1>2 DEF LedgerGrows, Saves
<1>4. BookedJob(step, new, ledger', clock')
  OBVIOUS
<1>5. billed' + UnmeteredOf(pc[e], job[e]) + SumFunction(ledger) + lost
        = billed + UnmeteredOf(step, new) + SumFunction(ledger') + lost'
  OBVIOUS
<1>6. Ids(new) \subseteq Ids(job[e]) \cup {clock}
  OBVIOUS
<1>7. QED
  BY <1>1, <1>3, <1>4, <1>5, <1>6, TheBooksMove

LEMMA QuietSteps ==
  ASSUME Inv, BooksInv, NEW e \in Evals,
         Begin(e) \/ LoadKnowledge(e) \/ LoadGold(e) \/ NextTrial(e)
  PROVE  BooksInv'
<1>1. /\ WorldInv /\ JobSound(e) /\ BookedJob(pc[e], job[e], ledger, clock)
      /\ \A f \in Evals : JobSound(f)
  BY DEF Inv, BooksInv, JobsInv
<1>2. HasFields(job[e]) /\ IsSeq(job[e].results)
  BY <1>1 DEF JobSound, IsSeq
<1>3. UNCHANGED <<ledger, clock, runs, billed, lost>>
  BY DEF Begin, LoadKnowledge, LoadGold, NextTrial, saved, money
<1>4. CASE Begin(e)
  <2>1. PICK s \in Splits, n \in Trials, m \in AgentModels :
          Become(e, "loading", [NoJob EXCEPT !.split = s, !.trials = n, !.model = m])
    BY <1>4 DEF Begin
  <2>2. PICK k : k = [NoJob EXCEPT !.split = s, !.trials = n, !.model = m]
    OBVIOUS
  <2>3. Become(e, "loading", k)
    BY <2>1, <2>2
  <2>4. BookedJob("loading", k, ledger, clock) /\ Ids(k) = {}
    BY <2>2, BegunIsBooked
  <2>5. k.results = << >> /\ job[e].results = << >>
    <3>1. k.results = << >>
      BY <2>4 DEF BookedJob
    <3>2. pc[e] # "asking"
      BY <1>4 DEF Begin
    <3>3. QED
      BY <1>1, <3>1, <3>2 DEF BookedJob
  <2>6. UnmeteredOf("loading", k) = UnmeteredOf(pc[e], job[e])
    BY <1>4, <2>5 DEF Begin, UnmeteredOf
  <2>7. IsSeq(k.results)
    BY <1>2, <2>5
  <2>8. QED
    BY <1>1, <1>3, <2>3, <2>4, <2>6, <2>7, TheBooksStand
<1>5. ASSUME NEW next \in {"loading", "regolding", "asking"}, NEW k, Become(e, next, k),
             k.split = job[e].split, k.trials = job[e].trials, k.model = job[e].model,
             k.results = job[e].results, k.rows = job[e].rows, k.passes = job[e].passes,
             pc[e] \in {"loading", "regolding", "metering"}, job[e].rows = << >>,
             Len(job[e].passes) < job[e].trials
      PROVE  BooksInv'
  <2>1. IsSeq(k.results)
    BY <1>2, <1>5
  <2>2. job[e].results = << >>
    BY <1>1, <1>5 DEF BookedJob
  <2>3. BookedJob(next, k, ledger, clock)
    BY <1>1, <1>5, <2>2, GoesOn
  <2>4. Ids(k) = Ids(job[e])
    BY <1>5 DEF Ids
  <2>5. UnmeteredOf(next, k) = UnmeteredOf(pc[e], job[e])
    <3>1. UnmeteredOf(next, k) = 0
      <4>1. next # "metering" /\ k.results = << >>
        BY <1>5, <2>2
      <4>2. QED
        BY <4>1, NoRows DEF UnmeteredOf
    <3>2. UnmeteredOf(pc[e], job[e]) = 0
      BY <1>5, <2>2, NoRows, SumOfNothing DEF UnmeteredOf
    <3>3. QED
      BY <3>1, <3>2
  <2>6. QED
    BY <1>1, <1>2, <1>3, <1>5, <2>1, <2>3, <2>4, <2>5, TheBooksStand
<1>6. CASE LoadKnowledge(e)
  <2>1. PICK k : k = [job[e] EXCEPT !.brain = Brain]
    OBVIOUS
  <2>2. Become(e, "regolding", k) /\ pc[e] = "loading"
    BY <1>6, <2>1 DEF LoadKnowledge
  <2>3. /\ k.split = job[e].split /\ k.trials = job[e].trials /\ k.model = job[e].model
        /\ k.results = job[e].results /\ k.rows = job[e].rows /\ k.passes = job[e].passes
    BY <1>2, <2>1 DEF HasFields
  <2>4. job[e].rows = << >> /\ Len(job[e].passes) < job[e].trials
    BY <1>1, <2>2 DEF BookedJob
  <2>5. QED
    BY <1>5, <2>2, <2>3, <2>4
<1>7. CASE LoadGold(e)
  <2>1. PICK k : k = [job[e] EXCEPT !.gold = files.assets]
    OBVIOUS
  <2>2. Become(e, "asking", k) /\ pc[e] = "regolding"
    BY <1>7, <2>1 DEF LoadGold
  <2>3. /\ k.split = job[e].split /\ k.trials = job[e].trials /\ k.model = job[e].model
        /\ k.results = job[e].results /\ k.rows = job[e].rows /\ k.passes = job[e].passes
    BY <1>2, <2>1 DEF HasFields
  <2>4. job[e].rows = << >> /\ Len(job[e].passes) < job[e].trials
    BY <1>1, <2>2 DEF BookedJob
  <2>5. QED
    BY <1>5, <2>2, <2>3, <2>4
<1>8. CASE NextTrial(e)
  <2>1. /\ pc[e] = "metering" /\ job[e].rows = << >> /\ Len(job[e].passes) < job[e].trials
        /\ Become(e, "loading", job[e])
    BY <1>8 DEF NextTrial
  <2>2. QED
    BY <1>5, <2>1
<1>9. QED
  BY <1>4, <1>6, <1>7, <1>8

\* One more answer is one more cost.
LEMMA AnswerCosts ==
  ASSUME NEW X, NEW r \in Seq(X), \A k \in DOMAIN r : r[k].agent \in Nat /\ r[k].judge \in Nat,
         NEW a, a.agent \in Nat, a.judge \in Nat
  PROVE  SumOf(RowsOf(Append(r, a))) = SumOf(RowsOf(r)) + (a.agent + a.judge)
<1>1. PICK q : q = Append(r, a)
  OBVIOUS
<1>2. PICK n : n = Len(r)
  OBVIOUS
<1>3. /\ n \in Nat /\ DOMAIN r = 1..n /\ DOMAIN q = 1..(n + 1) /\ q[n + 1] = a
      /\ \A i \in 1..n : q[i] = r[i]
  BY <1>1, <1>2
<1>4. \A i \in 1..(n + 1) : i \in 1..n \/ i = n + 1
  BY <1>3
<1>5. \A i \in DOMAIN q : q[i].agent \in Nat /\ q[i].judge \in Nat
  BY <1>3, <1>4
<1>6. PICK Y : q \in Seq(Y)
  <2>1. r \in Seq(X \cup {a}) /\ a \in X \cup {a}
    OBVIOUS
  <2>2. Append(r, a) \in Seq(X \cup {a})
    BY <2>1
  <2>3. QED
    BY <1>1, <2>2
<1>7. PICK c : c = a.agent + a.judge
  OBVIOUS
<1>8. c \in Nat
  BY <1>7
<1>9. PICK old, new : old = CostsOf(r) /\ new = CostsOf(q)
  OBVIOUS
<1>10. old \in Seq(Nat) /\ SumOf(RowsOf(r)) = SumOf(old)
  BY <1>9, RowsAddUp
<1>11. new \in Seq(Nat) /\ SumOf(RowsOf(q)) = SumOf(new)
  BY <1>5, <1>6, <1>9, RowsAddUp
<1>12. new = Append(old, c)
  <2>1. /\ DOMAIN old = 1..n /\ DOMAIN new = 1..(n + 1) /\ new[n + 1] = c
        /\ \A i \in 1..n : new[i] = old[i]
    BY <1>3, <1>4, <1>7, <1>9 DEF CostsOf
  <2>2. Len(old) = n /\ Len(new) = n + 1
    BY <1>3, <1>10, <1>11, <2>1
  <2>3. QED
    BY <1>3, <1>8, <1>10, <1>11, <2>1, <2>2
<1>13. SumOf(new) = SumOf(old) + c
  BY <1>8, <1>10, <1>12, SumOfAppend
<1>14. QED
  BY <1>1, <1>7, <1>10, <1>11, <1>13

LEMMA AskStep ==
  ASSUME Inv, BooksInv, NEW e \in Evals, Ask(e)
  PROVE  BooksInv'
<1>1. /\ WorldInv /\ JobSound(e) /\ BookedJob("asking", job[e], ledger, clock)
      /\ \A f \in Evals : JobSound(f)
  BY DEF Inv, BooksInv, JobsInv, Ask
<1>2. PICK X : job[e].results \in Seq(X)
  BY <1>1 DEF JobSound
<1>3. PICK v \in Verdicts, agent \in 1..MaxCost, judge \in 0..MaxCost :
        /\ Become(e, "asking",
                  [job[e] EXCEPT !.results = Append(@, [verdict |-> v, agent |-> agent,
                     judge |-> judge, brain |-> job[e].brain,
                     schema |-> SchemaOf(schema, job[e].brain.declared)])])
        /\ billed' = billed + agent + judge
  BY DEF Ask
<1>4. PICK a : a = [verdict |-> v, agent |-> agent, judge |-> judge, brain |-> job[e].brain,
                    schema |-> SchemaOf(schema, job[e].brain.declared)]
  OBVIOUS
<1>5. PICK x, k : x = Append(job[e].results, a) /\ k = [job[e] EXCEPT !.results = x]
  OBVIOUS
<1>6. a.agent = agent /\ a.judge = judge /\ agent \in Nat /\ judge \in Nat
  BY <1>4, EvaluationAssumption
<1>7. Become(e, "asking", k)
  BY <1>3, <1>4, <1>5
<1>8. UNCHANGED <<ledger, clock, runs, lost>>
  BY DEF Ask, saved
<1>9. BookedJob("asking", k, ledger, clock) /\ Ids(k) = Ids(job[e])
  <2>1. HasFields(job[e]) /\ Len(job[e].results) < NQuestions
    BY <1>1 DEF JobSound, Ask
  <2>2. a.agent \in Nat /\ a.judge \in Nat
    BY <1>6
  <2>3. PICK j, led, now : j = job[e] /\ led = ledger /\ now = clock
    OBVIOUS
  <2>4. k = Answered(j, x) /\ x = Append(j.results, a)
    BY <1>5, <2>3 DEF Answered
  <2>5. /\ BookedJob("asking", j, led, now) /\ HasFields(j) /\ Len(j.results) < NQuestions
        /\ j.results \in Seq(X)
    BY <1>1, <1>2, <2>1, <2>3
  <2>6. BookedJob("asking", k, led, now) /\ Ids(k) = Ids(j)
    BY ZenonT(30), <2>2, <2>4, <2>5, AnsweredIsBooked
  <2>7. QED
    BY <2>3, <2>6
<1>10. k.results = Append(job[e].results, a)
  BY <1>1, <1>5, NewResults DEF JobSound
<1>11. IsSeq(k.results)
  <2>1. Append(job[e].results, a) \in Seq(X \cup {a})
    <3>1. job[e].results \in Seq(X \cup {a}) /\ a \in X \cup {a}
      BY <1>2
    <3>2. QED
      BY <3>1
  <2>2. QED
    BY <1>10, <2>1 DEF IsSeq
<1>12. UnmeteredOf("asking", k) = UnmeteredOf(pc[e], job[e]) + (agent + judge)
  <2>1. \A i \in DOMAIN job[e].results :
          job[e].results[i].agent \in Nat /\ job[e].results[i].judge \in Nat
    BY <1>1 DEF BookedJob
  <2>2. SumOf(RowsOf(k.results)) = SumOf(RowsOf(job[e].results)) + (agent + judge)
    BY <1>2, <1>6, <1>10, <2>1, AnswerCosts
  <2>3. pc[e] = "asking"
    BY DEF Ask
  <2>4. QED
    BY <2>2, <2>3 DEF UnmeteredOf
<1>13. LedgerInv /\ clock \in Nat /\ billed \in Nat /\ lost \in Nat
  BY DEF BooksInv, LedgerInv
<1>14. LedgerInv'
  <2>1. billed' \in Nat
    BY <1>3, <1>6, <1>13
  <2>2. QED
    BY <1>8, <1>13, <2>1 DEF LedgerInv
<1>15. billed' + UnmeteredOf(pc[e], job[e]) + SumFunction(ledger) + lost
         = billed + UnmeteredOf("asking", k) + SumFunction(ledger') + lost'
  <2>1. PICK u, s, b : u = UnmeteredOf(pc[e], job[e]) /\ s = SumFunction(ledger) /\ b = billed
    OBVIOUS
  <2>2. u \in Nat /\ s \in Nat /\ b \in Nat
    <3>1. u \in Nat
      BY <1>1, <1>2, <2>1, UnmeteredIsNat DEF Ask
    <3>2. s \in Nat
      BY <1>13, <2>1, LedgerSum DEF LedgerInv
    <3>3. QED
      BY <1>13, <2>1, <3>1, <3>2
  <2>3. (b + agent + judge) + u + s + lost = b + (u + (agent + judge)) + s + lost
    BY <1>6, <1>13, <2>2
  <2>4. billed' = b + agent + judge /\ SumFunction(ledger') = s /\ lost' = lost
    BY <1>3, <1>8, <2>1
  <2>5. QED
    BY <1>12, <2>1, <2>3, <2>4
<1>16. PICK more : more = {}
  OBVIOUS
<1>17. /\ Ids(k) \subseteq Ids(job[e]) \cup {clock}
       /\ Saves(e, k, more) /\ LedgerGrows(e) /\ BookedJob("asking", k, ledger', clock')
  BY <1>8, <1>9, <1>13, <1>16 DEF Saves, LedgerGrows
<1>18. QED
  BY <1>7, <1>11, <1>14, <1>15, <1>17, TheBooksMove

LEMMA RunIsShaped ==
  ASSUME NEW e \in Evals, JobSound(e), BookedJob("asking", job[e], ledger, clock),
         clock \in Nat, pc[e] = "asking", Len(job[e].results) = NQuestions
  PROVE  /\ RunShape(RunOf(e), clock) /\ RunOf(e).id = clock
         /\ RunOf(e).cost = SumOf(CostsOf(job[e].results))
<1>1. PICK r : r = job[e].results
  OBVIOUS
<1>2. PICK X : r \in Seq(X)
  BY <1>1 DEF JobSound
<1>3. NQuestions \in Nat /\ DOMAIN r = 1..NQuestions
  BY <1>1, <1>2, EvaluationAssumption
<1>4. PICK C : C = {k \in DOMAIN r : r[k].verdict = "correct"}
  OBVIOUS
<1>5. Cardinality(C) \in 0..NQuestions
  <2>1. IsFiniteSet(1..NQuestions) /\ Cardinality(1..NQuestions) = NQuestions
    BY <1>3, IntervalSize
  <2>2. C \in SUBSET (1..NQuestions)
    BY <1>3, <1>4
  <2>3. Cardinality(C) \in Nat /\ Cardinality(C) <= Cardinality(1..NQuestions)
    BY <2>1, <2>2, FS_Subset, FS_CardinalityType
  <2>4. PICK n : n = Cardinality(C)
    OBVIOUS
  <2>5. n \in Nat /\ n <= NQuestions
    BY <2>1, <2>3, <2>4
  <2>6. QED
    BY <1>3, <2>4, <2>5
<1>6. PICK R : R = RunOf(e)
  OBVIOUS
<1>7. /\ R.id = clock /\ R.split = job[e].split /\ R.model = job[e].model
      /\ R.brain = job[e].brain
  BY <1>6 DEF RunOf
<1>8. R.correct = Cardinality(C)
  BY <1>1, <1>4, <1>6 DEF RunOf
<1>9. R.cost = SumOf(CostsOf(r))
  BY <1>1, <1>6 DEF RunOf, CostsOf
<1>10. SumOf(CostsOf(r)) \in Nat
  <2>1. \A k \in DOMAIN r : r[k].agent \in Nat /\ r[k].judge \in Nat
    BY <1>1 DEF BookedJob
  <2>2. CostsOf(r) \in Seq(Nat)
    BY <1>2, <2>1, RowsAddUp
  <2>3. QED
    BY <2>2, SumOfType
<1>11. /\ job[e].split \in Splits /\ job[e].model \in AgentModels /\ job[e].brain \in Brains
       /\ clock \in 0..clock
  BY DEF BookedJob, JobSound
<1>12. RunShape(R, clock)
  <2>1. R.cost \in Nat /\ R.correct \in 0..NQuestions
    BY <1>5, <1>8, <1>9, <1>10
  <2>2. QED
    BY <1>7, <1>11, <2>1 DEF RunShape
<1>13. QED
  BY <1>1, <1>6, <1>7, <1>9, <1>12

LEMMA StampStep ==
  ASSUME Inv, BooksInv, NEW e \in Evals, Stamp(e)
  PROVE  BooksInv'
<1>1. /\ JobSound(e) /\ BookedJob("asking", job[e], ledger, clock) /\ pc[e] = "asking"
      /\ LedgerInv /\ HasFields(job[e]) /\ Len(job[e].results) = NQuestions
  BY DEF Inv, BooksInv, JobsInv, Stamp, JobSound
<1>2. PICK X, Y : job[e].results \in Seq(X) /\ job[e].passes \in Seq(Y)
  BY <1>1 DEF JobSound
<1>3. PICK j, led, led2, now, R : /\ j = job[e] /\ led = ledger /\ led2 = ledger' /\ now = clock
                                  /\ R = RunOf(e)
  OBVIOUS
<1>4. Len(j.results) = NQuestions
  BY <1>1, <1>3
<1>5. PICK k : k = Stamped(j, R)
  OBVIOUS
<1>6. Become(e, "metering", k)
  BY <1>3, <1>5 DEF Stamp, Stamped
<1>7. RunShape(R, now) /\ R.id = now /\ R.cost = SumOf(CostsOf(j.results))
  BY <1>1, <1>3, RunIsShaped DEF LedgerInv
<1>8. /\ now \in Nat \ {0} /\ DOMAIN led \subseteq 1..(now - 1) /\ now \notin DOMAIN led
      /\ \A i \in DOMAIN led : led[i] \in Nat
  BY <1>1, <1>3 DEF LedgerInv
<1>9. /\ led2 = [i \in DOMAIN led \cup {now} |-> led2[i]]
      /\ DOMAIN led2 = DOMAIN led \cup {now} /\ led2[now] = 0
      /\ \A i \in DOMAIN led : led2[i] = led[i]
  <2>1. led2 = [i \in DOMAIN led \cup {now} |-> IF i = now THEN 0 ELSE led[i]]
    BY <1>3 DEF Stamp
  <2>2. QED
    BY <1>8, <2>1
<1>10. UNCHANGED <<runs, billed, lost>> /\ clock' = now + 1
  BY <1>3 DEF Stamp, money
<1>11. BookedJob("metering", k, led2, now + 1) /\ Ids(k) = Ids(j) \cup {now}
  <2>1. BookedJob("asking", j, led, now) /\ HasFields(j)
    BY <1>1, <1>3
  <2>2. IsSeq(j.results) /\ IsSeq(j.passes)
    BY <1>2, <1>3 DEF IsSeq
  <2>3. Opened(led, led2, now) /\ IsYoung(led, now)
    BY <1>8, <1>9 DEF Opened, IsYoung
  <2>4. IsStamped(R, j, now)
    BY <1>7 DEF IsStamped
  <2>5. QED
    BY <1>5, <2>1, <2>2, <2>3, <2>4, StampedIsBooked, SMT
<1>12. LedgerInv'
  <2>1. /\ now + 1 \in Nat \ {0} /\ DOMAIN led2 \subseteq 1..((now + 1) - 1)
        /\ \A i \in DOMAIN led2 : led2[i] \in Nat
    BY <1>8, <1>9
  <2>2. ledger' = [i \in DOMAIN ledger' |-> ledger'[i]]
    BY <1>3, <1>9
  <2>3. billed \in Nat /\ lost \in Nat
    BY <1>1 DEF LedgerInv
  <2>4. QED
    BY <1>3, <1>10, <2>1, <2>2, <2>3 DEF LedgerInv
<1>13. LedgerGrows(e)
  BY <1>3, <1>8, <1>9, <1>10 DEF LedgerGrows
<1>14. PICK more : more = {}
  OBVIOUS
<1>15. Saves(e, k, more)
  BY <1>10, <1>14 DEF Saves
<1>16. k.results = << >> /\ k.rows = RowsOf(j.results)
  <2>1. PICK x, y, z : x = Append(j.passes, R) /\ y = RowsOf(j.results) /\ z = << >>
    OBVIOUS
  <2>2. k = [j EXCEPT !.passes = x, !.rows = y, !.results = z]
    BY <1>5, <2>1 DEF Stamped
  <2>3. k.rows = y /\ k.results = z
    BY <1>1, <1>3, <2>2 DEF HasFields
  <2>4. QED
    BY <2>1, <2>3
<1>17. IsSeq(k.results)
  BY <1>16 DEF IsSeq
<1>18. UnmeteredOf("metering", k) = UnmeteredOf(pc[e], job[e])
  BY <1>1, <1>3, <1>16 DEF UnmeteredOf
<1>19. SumFunction(led2) = SumFunction(led)
  <2>1. /\ SumFunction(led) = Total(led, DOMAIN led) /\ SumFunction(led) \in Nat
        /\ IsFiniteSet(DOMAIN led)
    BY <1>8, LedgerSum
  <2>2. PICK S, S2 : S = DOMAIN led /\ S2 = DOMAIN led2
    OBVIOUS
  <2>3. now \in S2 /\ S2 \ {now} = S /\ \A i \in S2 : led2[i] \in Nat
    BY <1>8, <1>9, <2>2
  <2>4. IsFiniteSet(S2)
    BY <1>9, <2>1, <2>2, FS_AddElement
  <2>5. SumFunction(led2) = Total(led2, S2)
    BY <2>2, <2>3, <2>4, SumFunctionIsTotal
  <2>6. Total(led2, S2) = led2[now] + Total(led2, S2 \ {now})
    BY <2>3, <2>4, TotalSplits
  <2>7. Total(led2, S) = Total(led, S)
    BY <1>9, <2>2, TotalsAgree
  <2>8. QED
    BY <1>9, <2>1, <2>2, <2>3, <2>5, <2>6, <2>7
<1>20. billed' + UnmeteredOf(pc[e], job[e]) + SumFunction(ledger) + lost
         = billed + UnmeteredOf("metering", k) + SumFunction(ledger') + lost'
  BY <1>3, <1>10, <1>18, <1>19
<1>21. BookedJob("metering", k, ledger', clock') /\ Ids(k) \subseteq Ids(job[e]) \cup {clock}
  BY <1>3, <1>10, <1>11
<1>22. QED
  BY <1>6, <1>12, <1>13, <1>15, <1>17, <1>20, <1>21, TheBooksMove

LEMMA MeterStep ==
  ASSUME Inv, BooksInv, NEW e \in Evals, MeterRow(e)
  PROVE  BooksInv'
<1>1. /\ JobSound(e) /\ BookedJob("metering", job[e], ledger, clock) /\ pc[e] = "metering"
      /\ LedgerInv /\ HasFields(job[e]) /\ job[e].rows # << >>
  BY DEF Inv, BooksInv, JobsInv, MeterRow, JobSound
<1>2. PICK Y : job[e].passes \in Seq(Y)
  BY <1>1 DEF JobSound
<1>3. PICK j, led, led2, now, id : /\ j = job[e] /\ led = ledger /\ led2 = ledger'
                                   /\ now = clock /\ id = Last(j.passes).id
  OBVIOUS
<1>4. PICK x, row : x = Tail(j.rows) /\ row = Head(j.rows)
  OBVIOUS
<1>5. PICK k : k = Metered(j, x)
  OBVIOUS
<1>6. Become(e, "metering", k)
  BY <1>3, <1>4, <1>5 DEF MeterRow, Metered
<1>7. /\ now \in Nat \ {0} /\ DOMAIN led \subseteq 1..(now - 1)
      /\ led = [i \in DOMAIN led |-> led[i]]
      /\ \A i \in DOMAIN led : led[i] \in Nat
  BY <1>1, <1>3 DEF LedgerInv
<1>8. id \in DOMAIN led /\ row \in Nat
  <2>1. Len(j.passes) \in DOMAIN j.passes /\ Last(j.passes) = j.passes[Len(j.passes)]
    BY <1>1, <1>2, <1>3 DEF BookedJob, Last
  <2>2. id \in DOMAIN led
    BY <1>1, <1>3, <2>1 DEF BookedJob, BookedPass
  <2>3. j.rows \in Seq(Nat) /\ j.rows # << >>
    BY <1>1, <1>3 DEF BookedJob
  <2>4. QED
    BY <1>4, <2>2, <2>3
<1>9. /\ DOMAIN led2 = DOMAIN led /\ led2[id] = led[id] + row
      /\ led2 = [i \in DOMAIN led2 |-> led2[i]]
      /\ \A i \in DOMAIN led \ {id} : led2[i] = led[i]
  <2>1. led2 = [led EXCEPT ![id] = led[id] + row]
    BY <1>3, <1>4 DEF MeterRow
  <2>2. QED
    BY <1>7, <1>8, <2>1
<1>10. UNCHANGED <<runs, clock, billed, lost>>
  BY DEF MeterRow, money
<1>11. BookedJob("metering", k, led2, now) /\ Ids(k) = Ids(j) /\ id \in Ids(j)
  <2>1. BookedJob("metering", j, led, now) /\ HasFields(j) /\ j.rows # << >>
    BY <1>1, <1>3
  <2>2. j.passes \in Seq(Y)
    BY <1>2, <1>3
  <2>3. Posted(led, led2, Last(j.passes).id, Head(j.rows))
    BY <1>3, <1>4, <1>9 DEF Posted
  <2>4. BookedJob("metering", k, led2, now) /\ Ids(k) = Ids(j) /\ Last(j.passes).id \in Ids(j)
    BY <1>4, <1>5, <1>7, <2>1, <2>2, <2>3, MeteredIsBooked, Zenon
  <2>5. QED
    BY <1>3, <2>4
<1>12. \A i \in DOMAIN led : led2[i] \in Nat
  BY <1>7, <1>8, <1>9
<1>13. LedgerInv'
  BY <1>1, <1>3, <1>9, <1>10, <1>12 DEF LedgerInv
<1>14. LedgerGrows(e)
  BY <1>3, <1>7, <1>9, <1>10, <1>11 DEF LedgerGrows
<1>15. PICK more : more = {}
  OBVIOUS
<1>16. Saves(e, k, more)
  BY <1>10, <1>15 DEF Saves
<1>17. k.results = j.results /\ k.rows = x
  BY <1>1, <1>3, <1>5 DEF HasFields, Metered
<1>18. IsSeq(k.results)
  BY <1>1, <1>3, <1>17 DEF IsSeq, JobSound
<1>19. /\ UnmeteredOf(pc[e], job[e]) = row + SumOf(x)
       /\ UnmeteredOf("metering", k) = SumOf(x) /\ SumOf(x) \in Nat
  <2>1. j.rows \in Seq(Nat) /\ j.rows # << >>
    BY <1>1, <1>3 DEF BookedJob
  <2>2. SumOf(j.rows) = row + SumOf(x)
    BY <1>4, <2>1, SumOfTail
  <2>3. x \in Seq(Nat)
    BY <1>4, <2>1
  <2>4. SumOf(x) \in Nat
    BY <2>3, SumOfType
  <2>5. QED
    BY <1>1, <1>3, <1>17, <2>2, <2>4 DEF UnmeteredOf
<1>20. /\ SumFunction(led2) = SumFunction(led) + row
       /\ SumFunction(led) \in Nat /\ SumFunction(led2) \in Nat
  <2>1. IsFiniteSet(DOMAIN led)
    BY <1>7, LedgerSum
  <2>2. PICK S : S = DOMAIN led
    OBVIOUS
  <2>3. /\ DOMAIN led = S /\ DOMAIN led2 = S /\ id \in S /\ IsFiniteSet(S)
        /\ \A i \in S : led[i] \in Nat /\ led2[i] \in Nat
        /\ \A i \in S \ {id} : led2[i] = led[i]
    BY <1>7, <1>8, <1>9, <1>12, <2>1, <2>2
  <2>4. /\ SumFunction(led) \in Nat /\ SumFunction(led2) \in Nat
        /\ SumFunction(led2) + led[id] = SumFunction(led) + led2[id]
    BY <2>3, SumMoves
  <2>5. PICK a, b, c : a = SumFunction(led) /\ b = SumFunction(led2) /\ c = led[id]
    OBVIOUS
  <2>6. a \in Nat /\ b \in Nat /\ c \in Nat /\ b + c = a + (c + row)
    BY <1>9, <2>3, <2>4, <2>5
  <2>7. b = a + row
    BY <1>8, <2>6
  <2>8. QED
    BY <2>4, <2>5, <2>7
<1>21. billed' + UnmeteredOf(pc[e], job[e]) + SumFunction(ledger) + lost
         = billed + UnmeteredOf("metering", k) + SumFunction(ledger') + lost'
  <2>1. PICK a, u, b, l : a = SumFunction(led) /\ u = SumOf(x) /\ b = billed /\ l = lost
    OBVIOUS
  <2>2. a \in Nat /\ u \in Nat /\ b \in Nat /\ l \in Nat
    BY <1>1, <1>19, <1>20, <2>1 DEF LedgerInv
  <2>3. b + (row + u) + a + l = b + u + (a + row) + l
    BY <1>8, <2>2
  <2>4. QED
    BY <1>3, <1>10, <1>19, <1>20, <2>1, <2>3
<1>22. BookedJob("metering", k, ledger', clock') /\ Ids(k) \subseteq Ids(job[e]) \cup {clock}
  BY <1>3, <1>10, <1>11
<1>23. QED
  BY <1>6, <1>13, <1>14, <1>16, <1>18, <1>21, <1>22, TheBooksMove

\* An eval that is idle again owes nothing.
LEMMA IdleOwesNothing == UnmeteredOf("idle", NoJob) = 0 /\ IsSeq(NoJob.results)
<1>1. NoJob.results = << >>
  BY NoJobIsSound
<1>2. QED
  BY <1>1, NoRows DEF UnmeteredOf, IsSeq

LEMMA SaveStep ==
  ASSUME Inv, BooksInv, NEW e \in Evals, Save(e)
  PROVE  BooksInv'
<1>1. /\ JobSound(e) /\ BookedJob("metering", job[e], ledger, clock) /\ pc[e] = "metering"
      /\ LedgerInv /\ job[e].rows = << >>
  BY DEF Inv, BooksInv, JobsInv, Save
<1>2. PICK p : p = job[e].passes
  OBVIOUS
<1>3. PICK Y : p \in Seq(Y)
  BY <1>1, <1>2 DEF JobSound
<1>4. p # << >> /\ \A k \in DOMAIN p : BookedPass(job[e], k, ledger, clock)
  BY <1>1, <1>2 DEF BookedJob
<1>5. \A k \in DOMAIN p : p[k].correct \in Nat
  <2>1. NQuestions \in Nat /\ \A k \in DOMAIN p : p[k].correct \in 0..NQuestions
    BY <1>2, <1>4, EvaluationAssumption DEF BookedPass, RunShape
  <2>2. QED
    BY <2>1
<1>6. PICK k \in DOMAIN p : Representative(p) = p[k]
  BY <1>3, <1>4, <1>5, RepresentativeIsOne
<1>7. PICK run, more : run = p[k] /\ more = {run}
  OBVIOUS
<1>8. runs' = runs \cup more
  BY <1>2, <1>6, <1>7 DEF Save
<1>9. UNCHANGED <<ledger, clock, billed, lost>> /\ Become(e, "idle", NoJob)
  BY DEF Save, money
<1>10. /\ RunShape(run, clock) /\ run.id \in DOMAIN ledger /\ ledger[run.id] = run.cost
       /\ run.id \in Ids(job[e])
  <2>1. Owed(job[e], k) = 0
    BY <1>1, SumOfNothing DEF Owed
  <2>2. /\ RunShape(run, clock) /\ run.id \in DOMAIN ledger
        /\ ledger[run.id] + Owed(job[e], k) = run.cost
    BY <1>2, <1>4, <1>7 DEF BookedPass
  <2>3. ledger[run.id] \in Nat
    BY <1>1, <2>2 DEF LedgerInv
  <2>4. ledger[run.id] = run.cost
    BY <2>1, <2>2, <2>3
  <2>5. run.id \in Ids(job[e])
    BY <1>2, <1>7 DEF Ids
  <2>6. QED
    BY <2>2, <2>4, <2>5
<1>11. BookedJob("idle", NoJob, ledger', clock') /\ Ids(NoJob) = {}
  BY NothingIsBooked
<1>12. Saves(e, NoJob, more)
  BY <1>7, <1>8, <1>9, <1>10, <1>11 DEF Saves
<1>13. LedgerInv' /\ LedgerGrows(e)
  BY <1>1, <1>9 DEF LedgerInv, LedgerGrows
<1>14. billed' + UnmeteredOf(pc[e], job[e]) + SumFunction(ledger) + lost
         = billed + UnmeteredOf("idle", NoJob) + SumFunction(ledger') + lost'
  <2>1. UnmeteredOf(pc[e], job[e]) = 0
    BY <1>1, SumOfNothing DEF UnmeteredOf
  <2>2. QED
    BY <1>9, <2>1, IdleOwesNothing
<1>15. Ids(NoJob) \subseteq Ids(job[e]) \cup {clock}
  BY <1>11
<1>16. QED
  BY <1>9, <1>11, <1>12, <1>13, <1>14, <1>15, IdleOwesNothing, TheBooksMove

\* An eval that raises or is killed has spent what it does not meter.
LEMMA StopStep ==
  ASSUME Inv, BooksInv, NEW e \in Evals, Raise(e) \/ Kill(e)
  PROVE  BooksInv'
<1>1. /\ JobSound(e) /\ BookedJob(pc[e], job[e], ledger, clock) /\ LedgerInv
  BY DEF Inv, BooksInv, JobsInv
<1>2. UNCHANGED <<ledger, clock, runs>> /\ Become(e, "idle", NoJob)
  BY DEF Raise, Kill, saved
<1>3. PICK u : u = UnmeteredOf(pc[e], job[e])
  OBVIOUS
<1>4. u \in Nat /\ Unmetered(e) = u
  <2>1. u \in Nat
    BY <1>1, <1>3, UnmeteredIsNat DEF JobSound
  <2>2. QED
    BY <1>3, <2>1 DEF Unmetered, UnmeteredOf
<1>5. billed \in Nat /\ lost \in Nat
  BY <1>1 DEF LedgerInv
<1>6. PICK d \in Nat : billed' = billed + d /\ lost' = lost + d + u
  <2>1. CASE Raise(e)
    <3>1. PICK d \in 0..MaxCost : billed' = billed + d /\ lost' = lost + d + Unmetered(e)
      BY <2>1 DEF Raise
    <3>2. d \in Nat
      BY EvaluationAssumption
    <3>3. QED
      BY <1>4, <3>1, <3>2
  <2>2. CASE Kill(e)
    <3>1. billed' = billed /\ lost' = lost + u
      BY <1>4, <2>2 DEF Kill
    <3>2. billed' = billed + 0 /\ lost' = lost + 0 + u
      BY <1>4, <1>5, <3>1
    <3>3. QED
      BY <3>2
  <2>3. QED
    BY <2>1, <2>2
<1>7. LedgerInv' /\ LedgerGrows(e)
  <2>1. billed' \in Nat /\ lost' \in Nat
    BY <1>4, <1>5, <1>6
  <2>2. QED
    BY <1>1, <1>2, <2>1 DEF LedgerInv, LedgerGrows
<1>8. PICK more : more = {}
  OBVIOUS
<1>9. BookedJob("idle", NoJob, ledger', clock') /\ Ids(NoJob) = {}
  BY NothingIsBooked
<1>10. Saves(e, NoJob, more) /\ Ids(NoJob) \subseteq Ids(job[e]) \cup {clock}
  BY <1>2, <1>8, <1>9 DEF Saves
<1>11. billed' + UnmeteredOf(pc[e], job[e]) + SumFunction(ledger) + lost
         = billed + UnmeteredOf("idle", NoJob) + SumFunction(ledger') + lost'
  <2>1. PICK a, b, l : a = SumFunction(ledger) /\ b = billed /\ l = lost
    OBVIOUS
  <2>2. a \in Nat /\ b \in Nat /\ l \in Nat
    BY <1>1, <1>5, <2>1, LedgerSum DEF LedgerInv
  <2>3. (b + d) + u + a + l = b + 0 + a + (l + d + u)
    BY <1>4, <2>2
  <2>4. QED
    BY <1>2, <1>3, <1>6, <2>1, <2>3, IdleOwesNothing
<1>12. QED
  BY <1>2, <1>7, <1>9, <1>10, <1>11, IdleOwesNothing, TheBooksMove

LEMMA BooksInit == Init => BooksInv
<1> SUFFICES ASSUME Init PROVE BooksInv
  OBVIOUS
<1>1. /\ \A e \in Evals : pc[e] = "idle" /\ job[e] = NoJob
      /\ clock = 1 /\ billed = 0 /\ lost = 0 /\ \A r \in runs : r = LegacyRun
  BY DEF Init
<1>2. ledger = [i \in {} |-> 0] /\ DOMAIN ledger = {}
  BY DEF Init
<1>3. LedgerInv
  BY <1>1, <1>2 DEF LedgerInv
<1>4. JobsInv
  BY <1>1, NothingIsBooked DEF JobsInv
<1>5. ApartInv
  BY <1>1, NothingIsBooked DEF ApartInv
<1>6. SavedInv
  <2>1. RunShape(LegacyRun, 1) /\ LegacyRun.id = 0
    BY EvaluationAssumption DEF RunShape, LegacyRun, Splits
  <2>2. QED
    BY <1>1, <2>1 DEF SavedInv
<1>7. Balance
  <2>1. PICK f : f = [e \in Evals |-> Unmetered(e)]
    OBVIOUS
  <2>2. PICK none : none = [e \in Evals |-> 0]
    OBVIOUS
  <2>3. \A e \in Evals : Unmetered(e) = 0
    BY <1>1, IdleOwesNothing DEF Unmetered, UnmeteredOf
  <2>4. f = none
    BY <2>1, <2>2, <2>3
  <2>5. SumFunction(f) = 0
    <3>1. SumFunction(f) = Total(f, Evals)
      BY <2>2, <2>4, EvaluationAssumption, SumFunctionIsTotal
    <3>2. Area(f, Evals) = {}
      <4>1. 1..0 = {}
        OBVIOUS
      <4>2. \A e \in Evals : f[e] = 0
        BY <2>2, <2>4
      <4>3. QED
        BY <4>1, <4>2 DEF Area
    <3>3. QED
      BY <3>1, <3>2, FS_EmptySet DEF Total
  <2>6. SumFunction(ledger) = 0
    <3>1. SumFunction(ledger) = Total(ledger, {})
      BY <1>1, <1>2, LedgerSum
    <3>2. QED
      BY <3>1, TotalOfNothing
  <2>7. QED
    BY <1>1, <2>1, <2>5, <2>6 DEF Balance
<1>8. QED
  BY <1>3, <1>4, <1>5, <1>6, <1>7 DEF BooksInv

LEMMA BooksStep ==
  ASSUME Inv, BooksInv, [Next]_vars
  PROVE  BooksInv'
<1>1. CASE UNCHANGED <<pc, job, runs, ledger, clock, billed, lost>>
  <2>1. LedgerInv' /\ ApartInv' /\ SavedInv' /\ JobsInv'
    BY <1>1 DEF BooksInv, LedgerInv, ApartInv, SavedInv, JobsInv
  <2>2. Balance'
    BY <1>1 DEF BooksInv, Balance, Unmetered
  <2>3. QED
    BY <2>1, <2>2 DEF BooksInv
<1>2. CASE UNCHANGED vars
  BY <1>1, <1>2 DEF vars, evals, saved, money
<1>3. CASE ReadSemantics \/ Fingerprint \/ Verify \/ WriteRelease \/ Load \/ EditFiles \/ Migrate
  BY <1>1, <1>3 DEF ReadSemantics, Fingerprint, Verify, WriteRelease, Load, EditFiles, Migrate,
     evals, saved, money
<1>4. QED
  BY <1>2, <1>3, QuietSteps, AskStep, StampStep, MeterStep, SaveStep, StopStep DEF Next

\* What else the types say: of what `release create' holds, and of the history.
DraftShape ==
  IF maker = "idle" THEN draft = None
                    ELSE draft.declared \subseteq Columns /\ draft.touched \in BOOLEAN

HistoryInv == events \in Nat /\ moved \subseteq Evals /\ DraftShape

LEMMA HistoryStep ==
  ASSUME Inv, HistoryInv, [Next]_vars
  PROVE  HistoryInv'
<1>1. events' \in Nat
  <2>1. CASE Happens
    BY <2>1 DEF Happens, HistoryInv
  <2>2. CASE events' = events
    BY <2>2 DEF HistoryInv
  <2>3. Happens \/ events' = events
    BY Zenon DEF Next, vars, Begin, LoadKnowledge, LoadGold, Ask, Stamp, MeterRow, NextTrial,
       Save, Raise, Kill, ReadSemantics, Fingerprint, Verify, WriteRelease, Load, EditFiles,
       Migrate
  <2>4. QED
    BY <2>1, <2>2, <2>3
<1>2. moved' \subseteq Evals
  BY DEF HistoryInv, Next, vars, Begin, LoadKnowledge, LoadGold, Ask, Stamp, MeterRow,
     NextTrial, Save, Raise, Kill, ReadSemantics, Fingerprint, Verify, WriteRelease, Load,
     EditFiles, Migrate
<1>3. DraftShape'
  <2>1. CASE UNCHANGED <<maker, draft>>
    BY <2>1 DEF HistoryInv, DraftShape
  <2>2. CASE UNCHANGED vars
    BY <2>1, <2>2 DEF vars, delivery
  <2>3. CASE \E e \in Evals :
                \/ Begin(e) \/ LoadKnowledge(e) \/ LoadGold(e) \/ Ask(e) \/ Stamp(e)
                \/ MeterRow(e) \/ NextTrial(e) \/ Save(e) \/ Raise(e) \/ Kill(e)
    BY <2>1, <2>3 DEF Begin, LoadKnowledge, LoadGold, Ask, Stamp, MeterRow, NextTrial, Save,
       Raise, Kill, delivery
  <2>4. CASE ReadSemantics \/ Fingerprint \/ Verify \/ WriteRelease
    <3>1. files.declared \subseteq Columns
      BY DEF Inv, WorldInv, Brains
    <3>2. CASE ReadSemantics
      BY <3>1, <3>2 DEF ReadSemantics, Make, DraftShape
    <3>3. CASE Fingerprint
      BY <3>3 DEF HistoryInv, Fingerprint, Make, DraftShape
    <3>4. CASE Verify
      BY <3>4 DEF HistoryInv, Verify, Make, DraftShape
    <3>5. CASE WriteRelease
      BY <3>5 DEF WriteRelease, Make, DraftShape
    <3>6. QED
      BY <2>4, <3>2, <3>3, <3>4, <3>5
  <2>5. CASE Load \/ Migrate
    BY <2>1, <2>5 DEF Load, Migrate, delivery
  <2>6. CASE EditFiles
    <3>1. maker' = maker /\ Touch
      BY <2>6 DEF EditFiles
    <3>2. CASE maker = "idle"
      BY <2>1, <3>1, <3>2 DEF Touch
    <3>3. CASE maker # "idle"
      <4>1. draft' = [draft EXCEPT !.touched = TRUE]
        BY <3>1, <3>3 DEF Touch
      <4>2. draft'.declared = draft.declared /\ draft'.touched = TRUE
        BY <3>3, <4>1 DEF Inv, DraftInv
      <4>3. QED
        BY <3>1, <3>3, <4>2 DEF HistoryInv, DraftShape
    <3>4. QED
      BY <3>2, <3>3
  <2>7. QED
    BY <2>2, <2>3, <2>4, <2>5, <2>6 DEF Next
<1>4. QED
  BY <1>1, <1>2, <1>3 DEF HistoryInv

-----------------------------------------------------------------------------
(* Theorems                                                                *)

LEMMA InvHolds == Spec => []Inv
<1>1. ASSUME Inv, [Next]_vars
      PROVE  Inv'
  <2>1. \A e \in Evals : JobSound(e)'
    BY <1>1, JobStep
  <2>2. WorldInv' /\ RunsInv' /\ DraftInv' /\ ReleaseInv' /\ WarningsAreTrue'
    BY <1>1, WorldStep, RunsStep, DraftStep, ReleaseStep, WarningStep
  <2>3. QED
    BY <2>1, <2>2 DEF Inv
<1>2. QED
  BY InvInit, <1>1, PTL DEF Spec

LEMMA BooksHold == Spec => [](Inv /\ BooksInv /\ HistoryInv)
<1>1. Init => BooksInv /\ HistoryInv
  BY BooksInit DEF Init, HistoryInv, DraftShape
<1>2. ASSUME Inv, BooksInv, HistoryInv, [Next]_vars
      PROVE  BooksInv' /\ HistoryInv'
  BY <1>2, BooksStep, HistoryStep
<1>3. QED
  BY InvHolds, <1>1, <1>2, PTL DEF Spec

\* The variables keep their types, and an eval holds answers only while it asks, no more
\* passes than it was asked for and nothing when it is idle.
THEOREM TypeCorrect == Spec => []TypeOK
<1>1. ASSUME Inv, BooksInv, HistoryInv
      PROVE  TypeOK
  <2>1. ASSUME NEW e \in Evals
        PROVE  /\ pc[e] \in {"idle", "loading", "regolding", "asking", "metering"}
               /\ pc[e] = "idle" <=> job[e] = NoJob
               /\ pc[e] # "asking" => job[e].results = << >>
               /\ pc[e] # "metering" => job[e].rows = << >>
               /\ Len(job[e].passes) <= job[e].trials /\ Len(job[e].results) <= NQuestions
               /\ \A k \in DOMAIN job[e].passes : IsRun(job[e].passes[k])
    <3>1. BookedJob(pc[e], job[e], ledger, clock)
      BY <1>1 DEF BooksInv, JobsInv
    <3>2. \A k \in DOMAIN job[e].passes : IsRun(job[e].passes[k])
      BY <3>1 DEF BookedJob, BookedPass, RunShape, IsRun
    <3>3. pc[e] # "idle" => job[e] # NoJob
      BY <3>1 DEF BookedJob, NoJob
    <3>4. QED
      BY <3>1, <3>2, <3>3 DEF BookedJob
  <2>2. files \in Brains /\ schema \in [Columns -> Types \cup {Missing}]
    BY <1>1 DEF Inv, WorldInv
  <2>3. /\ DOMAIN ledger \subseteq 1..clock /\ \A i \in DOMAIN ledger : ledger[i] \in Nat
        /\ clock \in Nat /\ billed \in Nat /\ lost \in Nat
    BY <1>1 DEF BooksInv, LedgerInv
  <2>4. \A r \in runs : IsRun(r)
    BY <1>1 DEF BooksInv, SavedInv, RunShape, IsRun
  <2>5. /\ maker \in {"idle", "fingerprinting", "verifying", "reading"}
        /\ DraftShape /\ events \in Nat /\ moved \subseteq Evals
    BY <1>1 DEF Inv, DraftInv, HistoryInv
  <2>7. IF maker = "idle" THEN draft = None
                         ELSE draft.declared \subseteq Columns /\ draft.touched \in BOOLEAN
    BY <2>5 DEF DraftShape
  <2>6. QED
    BY <2>1, <2>2, <2>3, <2>4, <2>5, <2>7 DEF TypeOK
<1>2. QED
  BY BooksHold, <1>1, PTL

\* For any number of evals at once, questions, passes and costs: a saved run is paid for in
\* the ledger to the last row, and every dollar billed is in the ledger, about to be put
\* there, or was spent by an eval that raised or was killed.
THEOREM TheBooksBalance == Spec => []RunsAreOnTheBooks
<1>1. ASSUME BooksInv
      PROVE  RunsAreOnTheBooks
  <2>1. \A r \in runs : r.id # 0 => ledger[r.id] = r.cost
    BY <1>1 DEF BooksInv, SavedInv
  <2>2. QED
    BY <1>1, <2>1 DEF BooksInv, Balance, RunsAreOnTheBooks
<1>2. QED
  BY BooksHold, <1>1, PTL

\* For any number of evals at a time, questions and passes, and whatever is edited, killed or
\* fails: the headline of a release was earned by the brain it ships.
THEOREM HeadlineIsEarned == Spec => []ReleaseEarnedItsScore
<1>1. ASSUME Inv
      PROVE  ReleaseEarnedItsScore
  <2>1. ASSUME NEW r \in releases, ~r.touched, r.run.brain # None
        PROVE  r.run.split = "test" /\ \A a \in r.run.answers : a.brain = r.brain
    <3>1. /\ SoundRun(r.run) /\ r.run.split = "test"
          /\ r.run.brain \in {None, r.brain}
      BY <1>1, <2>1 DEF Inv, ReleaseInv
    <3>2. QED
      BY <2>1, <3>1 DEF SoundRun
  <2>2. QED
    BY <2>1 DEF ReleaseEarnedItsScore
<1>2. QED
  BY InvHolds, <1>1, PTL

\* For any columns, types and families: load() warns of another model or another schema
\* exactly when the answers behind the score were given on one.
THEOREM WarningsHold == Spec => []WarningsAreTrue
<1>1. Inv => WarningsAreTrue
  BY DEF Inv
<1>2. QED
  BY InvHolds, <1>1, PTL

-----------------------------------------------------------------------------
(* Results                                                                 *)

Canons == {Canon[c] : c \in Cells}

\* What is compared is a sequence of rows, each as wide as the result.
LEMMA CanonicalType ==
  ASSUME NEW r, IsResult(r)
  PROVE  /\ Canonical(r) \in Seq([1..r.width -> Canons])
         /\ Len(Canonical(r)) = Len(r.rows) /\ Len(r.rows) \in Nat
         /\ DOMAIN Canonical(r) = 1..Len(r.rows)
<1>1. /\ r.width \in Nat /\ Len(r.rows) \in Nat
      /\ DOMAIN r.rows = 1..Len(r.rows)
      /\ \A k \in 1..Len(r.rows) : r.rows[k] \in [1..r.width -> Cells]
  BY DEF IsResult
<1>2. ASSUME NEW k \in 1..Len(r.rows)
      PROVE  [i \in 1..r.width |-> Canon[r.rows[k][i]]] \in [1..r.width -> Canons]
  BY <1>1 DEF Canons
<1>3. Canonical(r) \in [1..Len(r.rows) -> [1..r.width -> Canons]]
  BY <1>1, <1>2 DEF Canonical
<1>4. QED
  BY <1>1, <1>3

\* Projecting and taking a column keep the number of rows.
LEMMA ProjectType ==
  ASSUME NEW S, NEW rows \in Seq(S), NEW columns
  PROVE  /\ Len(Project(rows, columns)) = Len(rows)
         /\ DOMAIN Project(rows, columns) = DOMAIN rows
<1> DEFINE row(k) == [i \in DOMAIN columns |-> rows[k][columns[i]]]
           P      == [k \in 1..Len(rows) |-> row(k)]
<1>1. Len(rows) \in Nat /\ DOMAIN rows = 1..Len(rows)
  OBVIOUS
<1>2. Project(rows, columns) = P
  BY <1>1, Zenon DEF Project
<1>3. P \in [1..Len(rows) -> {row(k) : k \in 1..Len(rows)}]
  <2> HIDE DEF row
  <2>1. QED
    OBVIOUS
<1>4. Len(P) = Len(rows) /\ DOMAIN P = 1..Len(rows)
  <2> HIDE DEF P
  <2>1. QED
    BY <1>1, <1>3
<1>5. QED
  BY <1>1, <1>2, <1>4

LEMMA ColumnType ==
  ASSUME NEW S, NEW rows \in Seq(S), NEW i
  PROVE  /\ Len(Column(rows, i)) = Len(rows)
         /\ DOMAIN Column(rows, i) = DOMAIN rows
<1>1. Column(rows, i) \in [1..Len(rows) -> {Column(rows, i)[k] : k \in 1..Len(rows)}]
  BY DEF Column
<1>2. QED
  BY <1>1

\* The question and the answer, once both statements ran.
Both == gold \in GoldResults /\ gen \in GenResults

LEMMA BothTypes ==
  ASSUME Both
  PROVE  /\ GoldRows \in Seq([1..gold.width -> Canons]) /\ GenRows \in Seq([1..gen.width -> Canons])
         /\ gold.width \in Nat /\ gen.width \in Nat
<1>1. IsResult(gold) /\ IsResult(gen)
  BY ScoringAssumption DEF Both
<1>2. QED
  BY <1>1, CanonicalType DEF GoldRows, GenRows, IsResult

\* A match gives every gold column one of its candidates: pruning loses nothing.
LEMMA MatchesAreCandidates ==
  ASSUME Both, NEW f \in [1..gold.width -> 1..gen.width], Holds(f), NEW i \in 1..gold.width
  PROVE  f[i] \in Candidates(i)
<1> DEFINE P == Project(GenRows, f)
<1>1. /\ GoldRows \in Seq([1..gold.width -> Canons]) /\ GenRows \in Seq([1..gen.width -> Canons])
      /\ gold.width \in Nat /\ gen.width \in Nat
  BY BothTypes
<1>2. /\ Len(P) = Len(GenRows) /\ DOMAIN P = DOMAIN GenRows
  BY <1>1, ProjectType
<1>3. /\ Len(GoldRows) = Len(P)
      /\ \E p \in [DOMAIN GoldRows -> DOMAIN GoldRows] :
           /\ \A k, l \in DOMAIN GoldRows : p[k] = p[l] => k = l
           /\ \A k \in DOMAIN GoldRows : GoldRows[k] = P[p[k]]
  BY DEF Holds, SameRows
<1>4. PICK p \in [DOMAIN GoldRows -> DOMAIN GoldRows] :
        /\ \A k, l \in DOMAIN GoldRows : p[k] = p[l] => k = l
        /\ \A k \in DOMAIN GoldRows : GoldRows[k] = P[p[k]]
  BY <1>3
<1>5. DOMAIN GoldRows = DOMAIN GenRows
  BY <1>1, <1>2, <1>3
<1>6. ASSUME NEW k \in DOMAIN GoldRows
      PROVE  GoldRows[k][i] = GenRows[p[k]][f[i]]
  <2>1. p[k] \in DOMAIN GenRows
    BY <1>4, <1>5
  <2>2. P[p[k]][i] = GenRows[p[k]][f[i]]
    BY <2>1 DEF Project
  <2>3. QED
    BY <1>4, <2>2
<1>7. /\ Len(Column(GoldRows, i)) = Len(GoldRows) /\ DOMAIN Column(GoldRows, i) = DOMAIN GoldRows
      /\ Len(Column(GenRows, f[i])) = Len(GenRows)
  BY <1>1, ColumnType
<1>8. ASSUME NEW k \in DOMAIN GoldRows
      PROVE  Column(GoldRows, i)[k] = Column(GenRows, f[i])[p[k]]
  <2>1. p[k] \in DOMAIN GenRows
    BY <1>4, <1>5
  <2>2. QED
    BY <1>6, <2>1 DEF Column
<1>9. SameRows(Column(GoldRows, i), Column(GenRows, f[i]))
  BY ZenonT(30), <1>2, <1>3, <1>4, <1>7, <1>8 DEF SameRows
<1>10. f[i] \in 1..gen.width
  OBVIOUS
<1>11. QED
  BY <1>9, <1>10 DEF Candidates

\* Too few columns, or another number of rows: no assignment can match.
LEMMA TooNarrow ==
  ASSUME Both, gen.width < gold.width
  PROVE  Injections = {}
<1>1. gold.width \in Nat /\ gen.width \in Nat
  BY BothTypes
<1>2. ASSUME NEW f \in Injections
      PROVE  FALSE
  <2>1. f \in [1..gold.width -> 1..gen.width]
    BY DEF Injections
  <2>2. /\ IsFiniteSet(1..gold.width) /\ Cardinality(1..gold.width) = gold.width
        /\ IsFiniteSet(1..gen.width) /\ Cardinality(1..gen.width) = gen.width
    <3>1. \A n \in Nat : IsFiniteSet(1..n) /\ Cardinality(1..n) = n
      <4>1. ASSUME NEW n \in Nat
            PROVE  IsFiniteSet(1..n) /\ Cardinality(1..n) = n
        <5>1. IsFiniteSet(1..n) /\ Cardinality(1..n) = IF 1 > n THEN 0 ELSE n - 1 + 1
          BY FS_Interval
        <5>2. QED
          BY <5>1
      <4>2. QED
        BY <4>1
    <3>2. QED
      BY <1>1, <3>1
  <2>3. \E x, y \in 1..gold.width : x # y /\ f[x] = f[y]
    BY <1>1, <2>1, <2>2, FS_PigeonHole
  <2>4. QED
    BY <2>3 DEF Injections
<1>3. QED
  BY <1>2

LEMMA OtherLength ==
  ASSUME Both, Len(GoldRows) # Len(GenRows), NEW f
  PROVE  ~Holds(f)
BY BothTypes, ProjectType DEF Holds, SameRows

-----------------------------------------------------------------------------
(* The inductive invariant                                                 *)

\* An assignment the search has already passed: in some frame it takes a column before the
\* one taken there, or tried there last.
Behind(f) ==
  \E d \in 1..gold.width :
    /\ d <= Len(path) + 1
    /\ \A i \in 1..(d - 1) : f[i] = path[i]
    /\ IF d <= Len(path) THEN f[d] < path[d] ELSE f[d] <= last

\* Both statements ran; a complete assignment is still to be tried; and unless the cap is
\* reached nothing behind the search holds.
SearchInv ==
  at = "searching" =>
    /\ Both /\ mode = "columns_superset"
    /\ Complete => attempts < MaxAttempts
    /\ attempts = MaxAttempts \/ \A f \in Injections : Behind(f) => ~Holds(f)

\* What is known at each stage of the call.
StageInv ==
  /\ at = "generated" => gold \in GoldResults
  /\ at = "comparing" => Both
  /\ at \in {"gold", "generated", "comparing"} => path = << >> /\ last = 0 /\ attempts = 0
  /\ at \in {"gold", "generated", "comparing", "searching"} => correctness = "n/a"
  /\ at \in {"gold", "generated", "comparing", "searching", "folding"} => verdict = "none"
  /\ correctness = "yes" => Both
  /\ verdict = "correct" => ok /\ correctness = "yes"

ScoringInv == ScoringTypeOK /\ StageInv /\ SearchInv /\ ScoreIsReproduction

\* Question and answer never change, and with them nothing that is made of them.
LEMMA Frozen ==
  ASSUME UNCHANGED <<question, answer>>
  PROVE  /\ UNCHANGED <<gold, mode, gen, ok, GoldRows, GenRows, Injections, PanelSize>>
         /\ (Both' <=> Both) /\ (Reproduced' <=> Reproduced)
         /\ \A i : Candidates(i)' = Candidates(i)
         /\ \A f : Holds(f)' <=> Holds(f)
<1>1. UNCHANGED <<gold, mode, gen, ok>>
  BY DEF question, answer
<1>2. UNCHANGED <<GoldRows, GenRows, PanelSize>>
  BY <1>1 DEF GoldRows, GenRows, Canonical, PanelSize
<1>3. UNCHANGED Injections /\ (Both' <=> Both)
  BY <1>1 DEF Injections, Both
<1>4. \A i : Candidates(i)' = Candidates(i)
  BY <1>1, <1>2, Zenon DEF Candidates
<1>5. \A f : Holds(f)' <=> Holds(f)
  BY <1>2 DEF Holds
<1>6. Reproduced' <=> Reproduced
  BY <1>1, <1>2, <1>3, <1>5, Zenon DEF Reproduced
<1>7. QED
  BY <1>1, <1>2, <1>3, <1>4, <1>5, <1>6

LEMMA NextFreezes == [ScoringNext]_scoringVars => UNCHANGED <<question, answer>>
BY DEF ScoringNext, scoringVars, ExecuteGold, ExecuteGenerated, Compare, CompareExact,
   CompareSuperset, Assign, Try, Backtrack, Exhausted, Fold, Judge, JudgeRaises, Suggest

\* A frame returns.
LEMMA Beginning ==
  ASSUME NEW s \in Seq(Nat), s # << >>, NEW t, t = SubSeq(s, 1, Len(s) - 1)
  PROVE  /\ Len(s) \in Nat \ {0} /\ t \in Seq(Nat) /\ Len(t) = Len(s) - 1
         /\ \A i \in 1..(Len(s) - 1) : t[i] = s[i]
         /\ s[Len(s)] \in Nat
<1>1. Len(s) \in Nat \ {0} /\ \A i \in 1..Len(s) : s[i] \in Nat
  OBVIOUS
<1>2. PICK k \in Nat : k = Len(s) - 1 /\ k <= Len(s)
  BY <1>1
<1>3. /\ SubSeq(s, 1, k) \in Seq(Nat)
      /\ Len(SubSeq(s, 1, k)) = k
      /\ \A i \in 1..k : SubSeq(s, 1, k)[i] = s[i]
  <2>1. SubSeq(s, 1, k) \in Seq(Nat)
    BY <1>2
  <2>2. Len(SubSeq(s, 1, k)) = k
    BY <1>2
  <2>3. \A i \in 1..k : SubSeq(s, 1, k)[i] = s[i]
    BY <1>2
  <2>4. QED
    BY <2>1, <2>2, <2>3
<1>4. t = SubSeq(s, 1, k)
  BY <1>2, Zenon
<1>5. t \in Seq(Nat) /\ Len(t) = k /\ \A i \in 1..k : t[i] = s[i]
  BY <1>3, <1>4, Zenon
<1>6. QED
  BY <1>1, <1>2, <1>5

LEMMA ScoringInvInit == ScoringInit => ScoringInv
BY ScoringAssumption
   DEF ScoringInit, ScoringInv, ScoringTypeOK, StageInv, SearchInv, ScoreIsReproduction,
       RowVerdicts, Vote

-----------------------------------------------------------------------------
(* Types                                                                   *)

\* The part of the type invariant that is about the frames of the search.
PathOK ==
  /\ path \in Seq(Nat) /\ last \in Nat
  /\ path # << >> =>
       /\ gold \in GoldResults /\ gen \in GenResults /\ Len(path) <= gold.width
       /\ \A i \in DOMAIN path : path[i] \in Candidates(i)
       /\ \A i, k \in DOMAIN path : path[i] = path[k] => i = k

\* While a gold column has no generated one yet, it has a frame.
LEMMA Incomplete ==
  ASSUME ScoringTypeOK, Both, ~Complete
  PROVE  Len(path) \in Nat /\ Len(path) + 1 \in 1..gold.width
<1>1. gold.width \in Nat /\ Len(path) \in Nat /\ path \in Seq(Nat)
  BY BothTypes DEF ScoringTypeOK
<1>2. path = << >> => Len(path) = 0
  BY <1>1
<1>3. Len(path) <= gold.width
  BY <1>1, <1>2 DEF ScoringTypeOK
<1>4. QED
  BY <1>1, <1>3 DEF Complete

LEMMA AssignPath ==
  ASSUME ScoringInv, Assign
  PROVE  PathOK'
<1>1. /\ UNCHANGED <<gold, gen>> /\ \A i : Candidates(i)' = Candidates(i)
  BY Frozen DEF Assign, question, answer
<1>2. Both /\ ScoringTypeOK /\ ~Complete /\ last' = 0
  BY DEF Assign, ScoringInv, SearchInv
<1>3. PICK j \in Eligible : path' = Append(path, j)
  BY DEF Assign
<1> DEFINE n == Len(path)
<1>4. n \in Nat /\ n + 1 \in 1..gold.width /\ path \in Seq(Nat) /\ DOMAIN path = 1..n
  BY <1>2, Incomplete DEF ScoringTypeOK
<1>5. j \in Candidates(n + 1) /\ j \in Nat /\ \A i \in 1..n : path[i] # j
  <2>1. j \in Candidates(n + 1) /\ \A i \in 1..n : path[i] # j
    BY <1>4, Zenon DEF Eligible
  <2>2. j \in 1..gen.width
    BY <2>1, Zenon DEF Candidates
  <2>3. QED
    BY <2>1, <2>2
<1>6. /\ path' \in Seq(Nat) /\ Len(path') = n + 1 /\ DOMAIN path' = 1..(n + 1)
      /\ \A i \in 1..n : path'[i] = path[i]
      /\ path'[n + 1] = j
  BY <1>3, <1>4, <1>5
<1>7. /\ \A i \in 1..n : path[i] \in Candidates(i)
      /\ \A i, k \in 1..n : path[i] = path[k] => i = k
  <2>1. CASE path = << >>
    BY <2>1, <1>4
  <2>2. CASE path # << >>
    BY <2>2, <1>2, <1>4 DEF ScoringTypeOK
  <2>3. QED
    BY <2>1, <2>2
<1>8. \A i \in 1..(n + 1) : path'[i] \in Candidates(i)
  <2>1. ASSUME NEW i \in 1..(n + 1)
        PROVE  path'[i] \in Candidates(i)
    <3>1. CASE i = n + 1
      BY <3>1, <1>5, <1>6
    <3>2. CASE i # n + 1
      <4>1. i \in 1..n
        BY <3>2, <1>4
      <4>2. QED
        BY <4>1, <1>6, <1>7
    <3>3. QED
      BY <3>1, <3>2
  <2>2. QED
    BY <2>1
<1>9. \A i, k \in 1..(n + 1) : path'[i] = path'[k] => i = k
  <2> HIDE DEF n
  <2>1. QED
    BY <1>4, <1>5, <1>6, <1>7
<1>10. QED
  BY <1>1, <1>2, <1>4, <1>6, <1>8, <1>9 DEF PathOK, Both

LEMMA ReturnPath ==
  ASSUME ScoringInv, Return, UNCHANGED <<question, answer>>
  PROVE  PathOK'
<1>1. /\ UNCHANGED <<gold, gen>> /\ \A i : Candidates(i)' = Candidates(i)
  BY Frozen DEF question, answer
<1>2. ScoringTypeOK /\ path \in Seq(Nat) /\ path # << >> /\ last' = path[Len(path)]
  BY DEF Return, ScoringInv, ScoringTypeOK
<1> DEFINE n == Len(path)
<1>3. /\ n \in Nat \ {0} /\ path' \in Seq(Nat) /\ Len(path') = n - 1
      /\ \A i \in 1..(n - 1) : path'[i] = path[i]
      /\ last' \in Nat
  BY <1>2, Beginning DEF Return
<1>4. /\ gold \in GoldResults /\ gen \in GenResults /\ n <= gold.width
      /\ \A i \in 1..n : path[i] \in Candidates(i)
      /\ \A i, k \in 1..n : path[i] = path[k] => i = k
  BY <1>2 DEF ScoringTypeOK
<1>5. DOMAIN path' = 1..(n - 1) /\ gold.width \in Nat
  BY <1>3, <1>4, BothTypes DEF Both
<1> HIDE DEF n
<1>6. /\ \A i \in 1..(n - 1) : path'[i] \in Candidates(i)
      /\ \A i, k \in 1..(n - 1) : path'[i] = path'[k] => i = k
  BY <1>3, <1>4
<1>7. QED
  BY <1>1, <1>3, <1>4, <1>5, <1>6 DEF PathOK

LEMMA PathStep ==
  ASSUME ScoringInv, [ScoringNext]_scoringVars
  PROVE  PathOK'
<1>1. UNCHANGED <<question, answer>> /\ PathOK
  BY NextFreezes DEF ScoringInv, ScoringTypeOK, PathOK
<1>2. CASE UNCHANGED search
  <2>1. UNCHANGED <<gold, gen, path, last>> /\ \A i : Candidates(i)' = Candidates(i)
    BY <1>1, <1>2, Frozen DEF search
  <2>2. QED
    BY <1>1, <2>1 DEF PathOK
<1>3. CASE Assign
  BY <1>3, AssignPath
<1>4. CASE Return
  BY <1>1, <1>4, ReturnPath
<1>5. CASE UNCHANGED <<path, last>>
  <2>1. UNCHANGED <<gold, gen, path, last>> /\ \A i : Candidates(i)' = Candidates(i)
    BY <1>1, <1>5, Frozen
  <2>2. QED
    BY <1>1, <2>1 DEF PathOK
<1>6. QED
  BY <1>2, <1>3, <1>4, <1>5 DEF ScoringNext, scoringVars, ExecuteGold, ExecuteGenerated, Compare,
     CompareExact, CompareSuperset, Try, Backtrack, Exhausted, Fold, Judge, JudgeRaises, Suggest

LEMMA TypeStep ==
  ASSUME ScoringInv, [ScoringNext]_scoringVars
  PROVE  ScoringTypeOK'
<1> DEFINE Rest == /\ at \in {"gold", "generated", "comparing", "searching", "folding",
                              "judging", "scored", "raised"}
                   /\ attempts \in 0..MaxAttempts
                   /\ correctness \in {"yes", "no", "n/a"}
                   /\ verdict \in RowVerdicts \cup {"none"}
                   /\ votes \subseteq Vote /\ asked \in 0..(GoldPanel + FreePanel)
                   /\ suggestion \in RowVerdicts \cup {"none"} /\ usage \in Nat
<1>1. UNCHANGED <<gold, mode, gen, ok>> /\ PathOK'
  BY NextFreezes, Frozen, PathStep
<1>2. /\ MaxAttempts \in Nat \ {0} /\ GoldPanel \in Nat \ {0} /\ FreePanel \in Nat \ {0}
      /\ Rest
  BY ScoringAssumption DEF ScoringInv, ScoringTypeOK
<1>3. Rest'
  <2>1. CASE ExecuteGold \/ ExecuteGenerated \/ CompareExact \/ CompareSuperset \/ Exhausted
    BY <2>1, <1>2 DEF ExecuteGold, ExecuteGenerated, CompareExact, CompareSuperset, Exhausted,
       Conclude, Outcome, search, panel
  <2>2. CASE Assign \/ Backtrack
    BY <2>2, <1>2 DEF Assign, Backtrack, panel
  <2>3. CASE Try
    <3>1. attempts < MaxAttempts
      BY <2>3 DEF Try, ScoringInv, SearchInv
    <3>2. QED
      BY <2>3, <3>1, <1>2 DEF Try, Conclude, panel
  <2>4. CASE Fold
    BY <2>4, <1>2 DEF Fold, search, panel, RowVerdicts
  <2>5. CASE Judge
    <3>1. asked' \in 0..(GoldPanel + FreePanel)
      BY <2>5, <1>2 DEF Judge, PanelSize
    <3>2. usage' \in Nat
      BY <2>5, <1>2, ScoringAssumption DEF Judge
    <3>3. votes' \subseteq Vote
      BY <2>5, <1>2 DEF Judge
    <3>4. QED
      BY <2>5, <3>1, <3>2, <3>3, <1>2 DEF Judge, search
  <2>6. CASE JudgeRaises \/ Suggest
    BY <2>6, <1>2 DEF JudgeRaises, Suggest, search, panel, RowVerdicts
  <2>7. CASE UNCHANGED scoringVars
    BY <2>7, <1>2 DEF scoringVars, search, panel
  <2>8. QED
    BY <2>1, <2>2, <2>3, <2>4, <2>5, <2>6, <2>7 DEF ScoringNext, Compare
<1>4. QED
  <2>1. /\ gold' \in GoldResults \cup {NoSql, Broken} /\ mode' \in Modes
        /\ gen' \in GenResults \cup {Broken} /\ ok' \in BOOLEAN
    BY <1>1 DEF ScoringInv, ScoringTypeOK
  <2>2. QED
    BY <1>1, <1>3, <2>1 DEF ScoringTypeOK, PathOK

\* Stages follow each other, and the search starts from nothing.
LEMMA StageStep ==
  ASSUME ScoringInv, [ScoringNext]_scoringVars
  PROVE  StageInv'
<1>1. UNCHANGED <<gold, gen, ok>> /\ (Both' <=> Both)
  BY NextFreezes, Frozen
<1>2. StageInv /\ ScoringTypeOK /\ SearchInv
  BY DEF ScoringInv
<1>3. CASE ExecuteGold \/ ExecuteGenerated
  BY <1>1, <1>2, <1>3 DEF ExecuteGold, ExecuteGenerated, Conclude, StageInv, ScoringTypeOK,
     Both, search
<1>4. CASE CompareExact \/ CompareSuperset
  BY <1>1, <1>2, <1>4
     DEF CompareExact, CompareSuperset, Conclude, Outcome, StageInv, ScoringTypeOK, search
<1>5. CASE Assign \/ Try \/ Backtrack \/ Exhausted
  BY <1>1, <1>2, <1>5 DEF Assign, Try, Backtrack, Exhausted, Conclude, StageInv, SearchInv
<1>6. CASE Fold \/ Judge \/ JudgeRaises \/ Suggest
  BY <1>1, <1>2, <1>6 DEF Fold, Judge, JudgeRaises, Suggest, StageInv, search
<1>7. CASE UNCHANGED scoringVars
  BY <1>1, <1>2, <1>7 DEF scoringVars, search, StageInv
<1>8. QED
  BY <1>3, <1>4, <1>5, <1>6, <1>7 DEF ScoringNext, Compare

-----------------------------------------------------------------------------
(* The search                                                              *)

\* A match that agrees with the frames so far, and takes a later column in the next one, is
\* still to be tried.
LEMMA NextColumn ==
  ASSUME ScoringInv, at = "searching", ~Complete, attempts < MaxAttempts, NEW f \in Injections,
         Holds(f), \A i \in 1..Len(path) : f[i] = path[i], f[Len(path) + 1] > last
  PROVE  f[Len(path) + 1] \in Eligible
<1> DEFINE n == Len(path)
<1>1. ScoringTypeOK /\ Both
  BY DEF ScoringInv, SearchInv
<1>2. n \in Nat /\ n + 1 \in 1..gold.width /\ DOMAIN path = 1..n
  BY <1>1, Incomplete DEF ScoringTypeOK
<1>3. /\ f \in [1..gold.width -> 1..gen.width]
      /\ \A i, k \in 1..gold.width : f[i] = f[k] => i = k
  BY DEF Injections
<1>4. f[n + 1] \in Candidates(n + 1)
  BY <1>1, <1>2, <1>3, MatchesAreCandidates
<1>5. ASSUME NEW i \in 1..n
      PROVE  path[i] # f[n + 1]
  <2>1. f[i] = path[i]
    OBVIOUS
  <2>2. i \in 1..gold.width /\ i # n + 1
    <3>1. i \in 1..Len(path)
      OBVIOUS
    <3>2. PICK m \in Nat : m = n
      BY <1>2
    <3>3. gold.width \in Nat /\ m + 1 <= gold.width
      BY <1>1, <1>2, <3>2, BothTypes
    <3>4. i \in 1..m
      BY <3>1, <3>2
    <3>5. i \in 1..gold.width /\ i # m + 1
      BY <3>3, <3>4
    <3>6. QED
      BY <3>2, <3>5
  <2> HIDE DEF n
  <2>3. f[i] # f[n + 1]
    BY <1>2, <1>3, <2>2
  <2>4. QED
    BY <2>1, <2>3
<1>6. \A i \in DOMAIN path : path[i] # f[n + 1]
  BY <1>2, <1>5
<1>7. QED
  BY <1>4, <1>6, Zenon DEF Eligible

\* What a step of the search must keep: nothing behind it holds.
Passed == attempts = MaxAttempts \/ \A f \in Injections : Behind(f) => ~Holds(f)

LEMMA AssignPasses ==
  ASSUME ScoringInv, Assign
  PROVE  Passed' /\ attempts' < MaxAttempts
<1>1. /\ UNCHANGED <<gold, Injections>> /\ \A f : Holds(f)' <=> Holds(f)
  BY Frozen DEF Assign, question, answer
<1>2. /\ Both /\ ScoringTypeOK /\ at = "searching" /\ ~Complete
      /\ last' = 0 /\ attempts' = attempts /\ Passed
  BY DEF Assign, ScoringInv, SearchInv, Passed
<1>3. PICK j \in Eligible : path' = Append(path, j) /\ \A k \in Eligible : j <= k
  BY DEF Assign
<1> DEFINE n == Len(path)
<1>4. n \in Nat /\ n + 1 \in 1..gold.width /\ path \in Seq(Nat) /\ gold.width \in Nat
  BY <1>2, Incomplete, BothTypes DEF ScoringTypeOK
<1>5. attempts < MaxAttempts /\ attempts # MaxAttempts /\ j \in Candidates(n + 1)
  <2>1. attempts < MaxAttempts /\ j \in Candidates(n + 1)
    BY Zenon DEF Eligible
  <2>2. QED
    BY <2>1, <1>2, ScoringAssumption DEF ScoringTypeOK
<1>6. j \in Nat
  <2>1. j \in 1..gen.width
    BY <1>5, Zenon DEF Candidates
  <2>2. QED
    BY <2>1
<1>7. /\ Len(path') = n + 1 /\ \A i \in 1..n : path'[i] = path[i]
      /\ path'[n + 1] = j
  BY <1>3, <1>4, <1>6
<1>8. ASSUME NEW f \in Injections, Behind(f)'
      PROVE  ~Holds(f)
  <2>1. PICK d \in 1..gold.width :
           /\ d <= Len(path') + 1
           /\ \A i \in 1..(d - 1) : f[i] = path'[i]
           /\ IF d <= Len(path') THEN f[d] < path'[d] ELSE f[d] <= 0
    BY <1>1, <1>2, <1>8 DEF Behind
  <2>2. f[d] \in Nat \ {0} /\ f[n + 1] \in Nat /\ last \in Nat
    <3>1. f \in [1..gold.width -> 1..gen.width]
      BY DEF Injections
    <3>2. f[d] \in 1..gen.width /\ f[n + 1] \in 1..gen.width
      BY <3>1, <1>4
    <3>3. QED
      BY <3>2, <1>2 DEF ScoringTypeOK
  <2>3. CASE d <= n
    <3>1. f[d] < path[d] /\ \A i \in 1..(d - 1) : f[i] = path[i]
      <4> HIDE DEF n
      <4>1. QED
        BY <1>4, <1>7, <2>1, <2>3
    <3>2. Behind(f)
      <4>1. d <= Len(path) /\ d <= Len(path) + 1
        BY <1>4, <2>3
      <4>2. QED
        BY <3>1, <4>1, Zenon DEF Behind
    <3>3. QED
      BY <3>2, <1>2, <1>5 DEF Passed
  <2>4. CASE d = n + 1
    <3>1. f[n + 1] < j /\ \A i \in 1..n : f[i] = path[i]
      <4> HIDE DEF n
      <4>1. QED
        BY <1>4, <1>7, <2>1, <2>4
    <3>2. CASE f[n + 1] <= last
      <4>1. Behind(f)
        <5>1. n + 1 <= n + 1 /\ ~(n + 1 <= n) /\ (n + 1) - 1 = n
          BY <1>4
        <5>2. QED
          BY <3>1, <3>2, <5>1, <1>4, Zenon DEF Behind
      <4>2. QED
        BY <4>1, <1>2, <1>5 DEF Passed
    <3>3. CASE ~(f[n + 1] <= last)
      <4>1. f[n + 1] > last
        BY <2>2, <3>3
      <4>2. ASSUME Holds(f)
            PROVE  FALSE
        <5>1. f[n + 1] \in Eligible
          BY <4>1, <4>2, <3>1, <1>2, <1>5, NextColumn
        <5>2. j <= f[n + 1]
          BY <5>1, <1>3
        <5>3. QED
          BY <5>2, <3>1, <2>2, <1>6
      <4>3. QED
        BY <4>2
    <3>4. QED
      BY <3>2, <3>3
  <2>5. CASE d > n + 1
    BY <2>5, <2>1, <2>2, <1>4, <1>7
  <2>6. QED
    BY <2>3, <2>4, <2>5, <1>4
<1>9. QED
  BY <1>1, <1>2, <1>5, <1>8 DEF Passed

\* The frame that returns has nothing left: a match that agrees with all frames is none.
LEMMA ReturnPasses ==
  ASSUME ScoringInv, at = "searching", Return, UNCHANGED <<question, answer>>,
         attempts < MaxAttempts,
         \A f \in Injections : (\A i \in 1..Len(path) : f[i] = path[i]) => ~Holds(f)
  PROVE  \A f \in Injections : Behind(f)' => ~Holds(f)'
<1>1. /\ UNCHANGED <<gold, Injections>> /\ \A f : Holds(f)' <=> Holds(f)
  BY Frozen
<1>2. /\ Both /\ ScoringTypeOK /\ path \in Seq(Nat) /\ path # << >> /\ attempts # MaxAttempts
      /\ last' = path[Len(path)] /\ Passed
  BY ScoringAssumption DEF Return, ScoringInv, SearchInv, Passed, ScoringTypeOK
<1> DEFINE n == Len(path)
<1>3. /\ n \in Nat \ {0} /\ Len(path') = n - 1
      /\ \A i \in 1..(n - 1) : path'[i] = path[i]
      /\ path[n] \in Nat
  BY <1>2, Beginning DEF Return
<1>4. gold.width \in Nat /\ gen.width \in Nat /\ n <= gold.width
  BY <1>2, BothTypes DEF ScoringTypeOK
<1>5. ASSUME NEW f \in Injections, Behind(f)'
      PROVE  ~Holds(f)
  <2>1. PICK d \in 1..gold.width :
           /\ d <= Len(path') + 1
           /\ \A i \in 1..(d - 1) : f[i] = path'[i]
           /\ IF d <= Len(path') THEN f[d] < path'[d] ELSE f[d] <= path[n]
    BY <1>1, <1>2, <1>5 DEF Behind
  <2>2. f[d] \in Nat
    <3>1. f \in [1..gold.width -> 1..gen.width]
      BY DEF Injections
    <3>2. f[d] \in 1..gen.width
      BY <3>1
    <3>3. QED
      BY <3>2
  <2>3. CASE d <= n - 1 \/ (d = n /\ f[d] # path[n])
    <3>1. d <= n /\ f[d] < path[d] /\ \A i \in 1..(d - 1) : f[i] = path[i]
      <4> HIDE DEF n
      <4>1. QED
        BY <1>3, <2>1, <2>2, <2>3
    <3>2. Behind(f)
      <4>1. d <= Len(path) /\ d <= Len(path) + 1
        BY <1>3, <3>1
      <4>2. QED
        BY <3>1, <4>1, Zenon DEF Behind
    <3>3. QED
      BY <3>2, <1>2 DEF Passed
  <2>4. CASE d = n /\ f[d] = path[n]
    <3>1. \A i \in 1..n : f[i] = path[i]
      <4> HIDE DEF n
      <4>1. QED
        BY <1>3, <2>1, <2>4
    <3>2. QED
      BY <3>1
  <2>5. QED
    <3> HIDE DEF n
    <3>1. QED
      BY <1>3, <2>1, <2>3, <2>4
<1>6. QED
  BY <1>1, <1>5

\* A frame without an eligible column: every match that agrees with the frames is behind.
LEMMA NothingEligible ==
  ASSUME ScoringInv, at = "searching", ~Complete, Eligible = {}, attempts < MaxAttempts,
         NEW f \in Injections, \A i \in 1..Len(path) : f[i] = path[i]
  PROVE  ~Holds(f)
<1> DEFINE n == Len(path)
<1>1. Both /\ ScoringTypeOK /\ Passed /\ attempts # MaxAttempts
  BY ScoringAssumption DEF ScoringInv, SearchInv, Passed, ScoringTypeOK
<1>2. n \in Nat /\ n + 1 \in 1..gold.width /\ last \in Nat /\ gen.width \in Nat
  BY <1>1, Incomplete, BothTypes DEF ScoringTypeOK
<1>3. f[n + 1] \in Nat
  <2>1. f \in [1..gold.width -> 1..gen.width]
    BY DEF Injections
  <2>2. f[n + 1] \in 1..gen.width
    BY <1>2, <2>1
  <2>3. QED
    BY <2>2
<1>4. CASE f[n + 1] > last
  BY <1>4, NextColumn
<1>5. CASE f[n + 1] <= last
  <2>1. n + 1 <= n + 1 /\ ~(n + 1 <= n) /\ (n + 1) - 1 = n
    BY <1>2
  <2>2. Behind(f)
    BY <1>2, <1>5, <2>1, Zenon DEF Behind
  <2>3. QED
    BY <2>2, <1>1 DEF Passed
<1>6. QED
  BY <1>2, <1>3, <1>4, <1>5

\* A complete path is an assignment, and the only one that agrees with it.
LEMMA PathIsAssignment ==
  ASSUME ScoringInv, at = "searching", Complete
  PROVE  /\ path \in Injections
         /\ \A f \in Injections : (\A i \in 1..Len(path) : f[i] = path[i]) => f = path
<1>1. Both /\ ScoringTypeOK /\ path \in Seq(Nat) /\ Len(path) = gold.width
  BY DEF ScoringInv, SearchInv, ScoringTypeOK, Complete
<1>2. gold.width \in Nat /\ gen.width \in Nat /\ DOMAIN path = 1..gold.width
  BY <1>1, BothTypes
<1>3. path = [i \in 1..gold.width |-> path[i]]
  BY <1>1, <1>2
<1>4. /\ \A i \in 1..gold.width : path[i] \in 1..gen.width
      /\ \A i, k \in 1..gold.width : path[i] = path[k] => i = k
  <2>1. CASE path = << >>
    <3>1. gold.width = 0
      BY <2>1, <1>1
    <3>2. QED
      BY <3>1
  <2>2. CASE path # << >>
    <3>1. /\ \A i \in 1..gold.width : path[i] \in Candidates(i)
          /\ \A i, k \in 1..gold.width : path[i] = path[k] => i = k
      BY <2>2, <1>1, <1>2, Zenon DEF ScoringTypeOK
    <3>2. \A i : Candidates(i) \subseteq 1..gen.width
      BY Zenon DEF Candidates
    <3>3. QED
      BY <3>1, <3>2
  <2>3. QED
    BY <2>1, <2>2
<1>5. path \in Injections
  <2>1. path \in [1..gold.width -> 1..gen.width]
    BY <1>3, <1>4
  <2>2. QED
    BY <2>1, <1>4, Zenon DEF Injections
<1>6. ASSUME NEW f \in Injections, \A i \in 1..Len(path) : f[i] = path[i]
      PROVE  f = path
  <2>1. f \in [1..gold.width -> 1..gen.width]
    BY DEF Injections
  <2>2. f = [i \in 1..gold.width |-> f[i]]
    BY <2>1
  <2>3. \A i \in 1..gold.width : f[i] = path[i]
    BY <1>1, <1>6
  <2>4. QED
    BY <2>2, <2>3, <1>3
<1>7. QED
  BY <1>5, <1>6

LEMMA BacktrackPasses ==
  ASSUME ScoringInv, Backtrack
  PROVE  Passed'
<1>1. /\ at = "searching" /\ ~Complete /\ Eligible = {} /\ Return
      /\ UNCHANGED <<question, answer>> /\ attempts' = attempts
      /\ attempts \in 0..MaxAttempts /\ MaxAttempts \in Nat
  BY ScoringAssumption DEF Backtrack, ScoringInv, ScoringTypeOK
<1>2. CASE attempts = MaxAttempts
  BY <1>1, <1>2 DEF Passed
<1>3. CASE attempts < MaxAttempts
  <2>1. \A f \in Injections : (\A i \in 1..Len(path) : f[i] = path[i]) => ~Holds(f)
    BY <1>1, <1>3, NothingEligible
  <2>2. \A f \in Injections : Behind(f)' => ~Holds(f)'
    BY <1>1, <1>3, <2>1, ReturnPasses
  <2>3. UNCHANGED Injections
    BY <1>1, Frozen
  <2>4. QED
    BY <2>2, <2>3 DEF Passed
<1>4. QED
  BY <1>1, <1>2, <1>3

LEMMA TryPasses ==
  ASSUME ScoringInv, Try, at' = "searching"
  PROVE  Passed' /\ ~Complete'
<1>1. /\ at = "searching" /\ Complete /\ attempts' = attempts + 1 /\ Return
      /\ ~SameRows(GoldRows, Project(GenRows, path))
      /\ UNCHANGED <<question, answer>>
  BY DEF Try, Conclude
<1>2. /\ attempts < MaxAttempts /\ attempts \in Nat /\ Both /\ path \in Seq(Nat) /\ path # << >>
  BY <1>1 DEF ScoringInv, SearchInv, ScoringTypeOK, Return
<1>3. \A f \in Injections : (\A i \in 1..Len(path) : f[i] = path[i]) => ~Holds(f)
  BY <1>1, PathIsAssignment DEF Holds
<1>4. \A f \in Injections : Behind(f)' => ~Holds(f)'
  BY <1>1, <1>2, <1>3, ReturnPasses
<1>5. UNCHANGED <<gold, Injections>>
  BY <1>1, Frozen
<1>6. Len(path') = Len(path) - 1 /\ Len(path) \in Nat \ {0}
  BY <1>1, <1>2, Beginning DEF Return
<1>7. ~Complete'
  BY <1>1, <1>5, <1>6 DEF Complete
<1>8. QED
  BY <1>4, <1>5, <1>7 DEF Passed

\* The search starts with nothing behind it.
LEMMA StartPasses ==
  ASSUME ScoringInv, CompareSuperset, at' = "searching"
  PROVE  Passed' /\ Both /\ mode = "columns_superset" /\ attempts' = 0
<1>1. /\ Both /\ path' = << >> /\ last' = 0 /\ attempts' = 0 /\ mode = "columns_superset"
      /\ UNCHANGED <<question, answer>>
  BY DEF ScoringInv, StageInv, CompareSuperset, search
<1>2. UNCHANGED <<gold, Injections>>
  BY <1>1, Frozen
<1>3. ASSUME NEW f \in Injections, Behind(f)'
      PROVE  FALSE
  <2>1. PICK d \in 1..gold.width :
           /\ d <= Len(path') + 1
           /\ IF d <= Len(path') THEN f[d] < path'[d] ELSE f[d] <= last'
    BY <1>2, <1>3 DEF Behind
  <2>2. Len(path') = 0
    BY <1>1
  <2>3. f[d] <= 0
    BY <1>1, <2>1, <2>2
  <2>4. f[d] \in 1..gen.width
    <3>1. f \in [1..gold.width -> 1..gen.width]
      BY DEF Injections
    <3>2. QED
      BY <3>1
  <2>5. QED
    BY <2>3, <2>4
<1>4. QED
  BY <1>1, <1>2, <1>3 DEF Passed

LEMMA SearchStep ==
  ASSUME ScoringInv, [ScoringNext]_scoringVars
  PROVE  SearchInv'
<1>1. /\ UNCHANGED <<gold, mode, Injections>> /\ (Both' <=> Both)
      /\ \A f : Holds(f)' <=> Holds(f)
  BY NextFreezes, Frozen
<1>2. /\ at = "searching" => Both /\ mode = "columns_superset"
                             /\ (Complete => attempts < MaxAttempts) /\ Passed
  BY DEF ScoringInv, SearchInv, Passed
<1>3. MaxAttempts \in Nat \ {0} /\ attempts \in Nat
  BY ScoringAssumption DEF ScoringInv, ScoringTypeOK
<1> SUFFICES ASSUME at' = "searching"
             PROVE  /\ Both /\ mode = "columns_superset"
                    /\ Complete' => attempts' < MaxAttempts
                    /\ Passed'
  BY <1>1 DEF SearchInv, Passed
<1>4. CASE CompareSuperset
  BY <1>3, <1>4, StartPasses
<1>5. CASE Assign
  BY <1>2, <1>5, AssignPasses DEF Assign
<1>6. CASE Backtrack
  <2>1. attempts' < MaxAttempts \/ attempts' = MaxAttempts
    BY <1>3, <1>6 DEF Backtrack, ScoringInv, ScoringTypeOK
  <2>2. Len(path') < gold.width
    <3>1. ScoringTypeOK /\ Both /\ ~Complete /\ path \in Seq(Nat) /\ path # << >>
      BY <1>2, <1>6 DEF Backtrack, ScoringInv, ScoringTypeOK, Return
    <3>2. Len(path) \in Nat /\ Len(path) + 1 \in 1..gold.width
      BY <3>1, Incomplete
    <3>3. Len(path') = Len(path) - 1 /\ gold.width \in Nat
      BY <1>6, <3>1, Beginning, BothTypes DEF Backtrack, Return
    <3>4. QED
      BY <3>2, <3>3
  <2>3. ~Complete'
    BY <1>1, <2>2 DEF Complete
  <2>4. QED
    BY <1>2, <1>6, <2>3, BacktrackPasses DEF Backtrack
<1>7. CASE Try
  BY <1>2, <1>7, TryPasses DEF Try
<1>8. CASE UNCHANGED scoringVars
  <2>1. UNCHANGED <<at, path, last, attempts>>
    BY <1>8 DEF scoringVars, search
  <2>2. \A f : Behind(f)' <=> Behind(f)
    BY <1>1, <2>1 DEF Behind
  <2>3. QED
    BY <1>1, <1>2, <2>1, <2>2 DEF Passed, Complete
<1>9. QED
  BY <1>4, <1>5, <1>6, <1>7, <1>8 DEF ScoringNext, Compare, ExecuteGold, ExecuteGenerated,
     CompareExact, Exhausted, Fold, Judge, JudgeRaises, Suggest, Conclude

-----------------------------------------------------------------------------
(* The score                                                               *)

\* A comparison that concludes, and a verdict that follows it, are right.
LEMMA ConcludeNo ==
  ASSUME ScoringInv, [ScoringNext]_scoringVars, Conclude("no"), verdict' = verdict,
         verdict = "none", gen = Broken \/ ~Reproduced \/ attempts' = MaxAttempts
  PROVE  ScoreIsReproduction'
<1>1. (Reproduced' <=> Reproduced) /\ gen' = gen
  BY NextFreezes, Frozen
<1>2. QED
  BY <1>1 DEF Conclude, ScoreIsReproduction

LEMMA ConcludeYes ==
  ASSUME ScoringInv, [ScoringNext]_scoringVars, Conclude("yes"), verdict' = verdict,
         verdict = "none", Both, Reproduced
  PROVE  ScoreIsReproduction'
<1>1. (Reproduced' <=> Reproduced) /\ UNCHANGED <<gold, gen>>
  BY NextFreezes, Frozen
<1>2. QED
  BY <1>1 DEF Conclude, ScoreIsReproduction, Both

\* Pruning: what the early returns of _compare_superset turn down has no match.
LEMMA Pruned ==
  ASSUME Both, mode = "columns_superset",
         \/ gen.width < gold.width
         \/ Len(GoldRows) # Len(GenRows)
         \/ \E i \in 1..gold.width : Candidates(i) = {}
  PROVE  ~Reproduced
<1>1. ASSUME NEW f \in Injections, Holds(f)
      PROVE  FALSE
  <2>1. f \in [1..gold.width -> 1..gen.width]
    BY DEF Injections
  <2>2. CASE gen.width < gold.width
    BY <2>2, TooNarrow
  <2>3. CASE Len(GoldRows) # Len(GenRows)
    BY <1>1, <2>3, OtherLength
  <2>4. CASE \E i \in 1..gold.width : Candidates(i) = {}
    <3>1. PICK i \in 1..gold.width : Candidates(i) = {}
      BY <2>4
    <3>2. f[i] \in Candidates(i)
      BY <1>1, <2>1, MatchesAreCandidates
    <3>3. QED
      BY <3>1, <3>2
  <2>5. QED
    BY <2>2, <2>3, <2>4
<1>2. QED
  BY <1>1 DEF Reproduced

LEMMA ScoreStep ==
  ASSUME ScoringInv, [ScoringNext]_scoringVars
  PROVE  ScoreIsReproduction'
<1>1. UNCHANGED <<gold, mode, gen, ok>> /\ (Reproduced' <=> Reproduced)
  BY NextFreezes, Frozen
<1>2. StageInv /\ ScoreIsReproduction /\ ScoringTypeOK /\ SearchInv
  BY DEF ScoringInv
<1>3. CASE UNCHANGED <<correctness, verdict, attempts>>
  BY <1>1, <1>2, <1>3 DEF ScoreIsReproduction
<1>4. CASE ExecuteGold
  BY <1>1, <1>2, <1>4 DEF ExecuteGold, Conclude, StageInv, ScoreIsReproduction
<1>5. CASE ExecuteGenerated
  <2>1. CASE gen = Broken
    BY <1>2, <1>5, <2>1, ConcludeNo DEF ExecuteGenerated, StageInv
  <2>2. CASE gen # Broken
    BY <1>3, <1>5, <2>2 DEF ExecuteGenerated, search
  <2>3. QED
    BY <2>1, <2>2
<1>6. CASE CompareExact
  <2>1. verdict' = verdict /\ verdict = "none" /\ Both /\ mode = "exact" /\ UNCHANGED search
    BY <1>2, <1>6 DEF CompareExact, StageInv
  <2>2. Reproduced <=> gold.width = gen.width /\ SameRows(GoldRows, GenRows)
    BY <2>1 DEF Reproduced
  <2>3. CASE Conclude("no") /\ ~Reproduced
    BY <2>1, <2>3, ConcludeNo
  <2>4. CASE Conclude("yes") /\ Reproduced
    BY <2>1, <2>4, ConcludeYes
  <2>5. CASE UNCHANGED correctness
    BY <1>3, <2>1, <2>5 DEF search
  <2>6. QED
    BY <1>6, <2>2, <2>3, <2>4, <2>5 DEF CompareExact, Outcome
<1>7. CASE CompareSuperset
  <2>1. verdict' = verdict /\ verdict = "none" /\ Both /\ UNCHANGED search
        /\ mode = "columns_superset"
    BY <1>2, <1>7 DEF CompareSuperset, StageInv
  <2>2. CASE UNCHANGED correctness
    BY <1>3, <2>1, <2>2 DEF search
  <2>3. CASE /\ Conclude("no")
             /\ \/ gen.width < gold.width
                \/ Len(GoldRows) # Len(GenRows)
                \/ \E i \in 1..gold.width : Candidates(i) = {}
    BY <2>1, <2>3, Pruned, ConcludeNo
  <2>4. QED
    BY <1>7, <2>2, <2>3 DEF CompareSuperset
<1>8. CASE Assign \/ Backtrack
  <2>1. UNCHANGED <<correctness, verdict, attempts>>
    BY <1>8 DEF Assign, Backtrack
  <2>2. QED
    BY <1>3, <2>1
<1>9. CASE Try
  <2>1. /\ at = "searching" /\ Complete /\ verdict' = verdict /\ verdict = "none" /\ Both
        /\ mode = "columns_superset" /\ correctness = "n/a"
    BY <1>2, <1>9 DEF Try, StageInv, SearchInv
  <2>2. CASE Conclude("yes") /\ SameRows(GoldRows, Project(GenRows, path))
    <3>1. path \in Injections /\ Holds(path)
      BY <2>1, <2>2, PathIsAssignment DEF Holds
    <3>2. Reproduced
      BY <2>1, <3>1 DEF Reproduced
    <3>3. QED
      BY <2>1, <2>2, <3>2, ConcludeYes
  <2>3. CASE UNCHANGED correctness
    BY <1>1, <2>1, <2>3 DEF ScoreIsReproduction
  <2>4. CASE Conclude("no") /\ ~SameRows(GoldRows, Project(GenRows, path)) /\ path = << >>
    <3>1. \A f \in Injections : f = path
      BY <2>1, <2>4, PathIsAssignment
    <3>2. \A f \in Injections : ~Holds(f)
      BY <2>4, <3>1 DEF Holds
    <3>3. ~Reproduced
      BY <2>1, <3>2 DEF Reproduced
    <3>4. QED
      BY <2>1, <2>4, <3>3, ConcludeNo
  <2>5. QED
    BY <1>9, <2>2, <2>3, <2>4 DEF Try
<1>10. CASE Exhausted
  <2>1. /\ at = "searching" /\ ~Complete /\ Eligible = {} /\ path = << >> /\ Conclude("no")
        /\ verdict' = verdict /\ verdict = "none" /\ attempts' = attempts
        /\ mode = "columns_superset" /\ attempts \in 0..MaxAttempts
    BY <1>2, <1>10 DEF Exhausted, StageInv, SearchInv, search, ScoringTypeOK
  <2>2. CASE attempts < MaxAttempts
    <3>1. \A f \in Injections : ~Holds(f)
      BY <2>1, <2>2, NothingEligible
    <3>2. ~Reproduced
      BY <2>1, <3>1 DEF Reproduced
    <3>3. QED
      BY <2>1, <3>2, ConcludeNo
  <2>3. CASE attempts = MaxAttempts
    BY <2>1, <2>3, ConcludeNo
  <2>4. QED
    BY <2>1, <2>2, <2>3, ScoringAssumption
<1>11. CASE Fold
  <2>1. /\ UNCHANGED <<correctness, attempts>>
        /\ verdict' = "correct" => ok /\ correctness = "yes"
    BY <1>11 DEF Fold, search
  <2>2. QED
    BY <1>1, <1>2, <2>1 DEF ScoreIsReproduction
<1>12. CASE Judge \/ JudgeRaises \/ Suggest
  BY <1>3, <1>12 DEF Judge, JudgeRaises, Suggest, search
<1>13. CASE UNCHANGED scoringVars
  BY <1>3, <1>13 DEF scoringVars, search
<1>14. QED
  BY <1>4, <1>5, <1>6, <1>7, <1>8, <1>9, <1>10, <1>11, <1>12, <1>13 DEF ScoringNext, Compare

-----------------------------------------------------------------------------
(* Theorems                                                                *)

LEMMA ScoringInvHolds == ScoringSpec => []ScoringInv
<1>1. ASSUME ScoringInv, [ScoringNext]_scoringVars
      PROVE  ScoringInv'
  BY <1>1, TypeStep, StageStep, SearchStep, ScoreStep DEF ScoringInv
<1>2. QED
  BY ScoringInvInit, <1>1, PTL DEF ScoringSpec

\* The frames of the search are well formed for any results: each gold column so far has a
\* candidate of its own, and the cap is never passed.
THEOREM ScoringTypeCorrect == ScoringSpec => []ScoringTypeOK
<1>1. ScoringInv => ScoringTypeOK
  BY DEF ScoringInv
<1>2. QED
  BY ScoringInvHolds, <1>1, PTL

\* For any two results, either match mode and any cap, score_question says correct only of an
\* answer that runs and reproduces the gold result, and compare_result_sets says no only if it
\* does not or the cap was reached: pruning, skipping and backtracking lose no match.
THEOREM ScoreIsSound == ScoringSpec => []ScoreIsReproduction
<1>1. ScoringInv => ScoreIsReproduction
  BY DEF ScoringInv
<1>2. QED
  BY ScoringInvHolds, <1>1, PTL
=============================================================================
