------------------------- MODULE OrchestratorProofs -------------------------
(***************************************************************************)
(* Proofs about Orchestrator, for any number of units, pool width, retry   *)
(* count and prices.                                                       *)
(***************************************************************************)
EXTENDS Orchestrator, FiniteSetTheorems, WellFoundedInduction, TLAPS

-----------------------------------------------------------------------------
(* Lemmas about the operators                                              *)

\* A non-empty set of naturals has a first element: FirstOf picks it.
LEMMA FirstOfLeast ==
  ASSUME NEW S \in SUBSET Nat, S # {}
  PROVE  FirstOf(S) \in S /\ \A q \in S : FirstOf(S) <= q
<1> DEFINE T == {0..x : x \in S}
<1>1. T \subseteq FiniteSubsetsOf(Nat) /\ T # {}
  <2>1. \A x \in S : 0..x \in SUBSET Nat /\ IsFiniteSet(0..x)
    BY FS_Interval
  <2>2. QED
    BY <2>1 DEF FiniteSubsetsOf
<1>2. \E t \in T : \A u \in T : ~(<<u, t>> \in StrictSubsetOrdering(Nat))
  <2> HIDE DEF T
  <2> QED BY <1>1, FS_StrictSubsetOrderingWellFounded, WFMin
<1>3. PICK x \in S : \A y \in S : ~(<<0..y, 0..x>> \in StrictSubsetOrdering(Nat))
  BY <1>2
<1>4. ASSUME NEW y \in S, y < x
      PROVE  FALSE
  <2>1. 0..y \subseteq 0..x /\ x \in 0..x /\ x \notin 0..y
    BY <1>4
  <2>2. 0..y # 0..x
    BY <2>1
  <2>3. <<0..y, 0..x>> \in StrictSubsetOrdering(Nat)
    BY <2>1, <2>2 DEF StrictSubsetOrdering
  <2> QED BY <1>3, <2>3
<1>5. \A y \in S : x <= y
  BY <1>4
<1>6. QED
  BY <1>5 DEF FirstOf

\* The two facts about products the budget argument needs.
LEMMA ProductStep ==
  ASSUME NEW a \in Nat, NEW m \in Nat
  PROVE  a * m \in Nat /\ (a + 1) * m = a * m + m
OBVIOUS

LEMMA ProductMonotone ==
  ASSUME NEW a \in Nat, NEW b \in Nat, NEW m \in Nat, a <= b
  PROVE  a * m <= b * m
OBVIOUS

\* Every set of units is a finite set of positions.
LEMMA UnitSets ==
  ASSUME TypeOK
  PROVE  /\ Units \subseteq Positions
         /\ Positions \subseteq Nat
         /\ IsFiniteSet(Units)
         /\ \A S \in SUBSET Units : IsFiniteSet(S) /\ Cardinality(S) \in Nat
         /\ ids \in [Units -> Ids]
<1>1. PICK n \in 0..MaxUnits : ids \in [1..n -> Ids]
  BY DEF TypeOK
<1>2. Units = 1..n /\ n \in Nat
  BY <1>1, OrchestratorAssumption DEF Units
<1>3. IsFiniteSet(Units)
  BY <1>2, FS_Interval
<1>4. \A S \in SUBSET Units : IsFiniteSet(S) /\ Cardinality(S) \in Nat
  BY <1>3, FS_Subset, FS_CardinalityType
<1>5. Units \subseteq Positions
  BY <1>1, <1>2, OrchestratorAssumption DEF Positions
<1>6. QED
  BY <1>1, <1>2, <1>3, <1>4, <1>5 DEF Positions

-----------------------------------------------------------------------------
(* Sums                                                                    *)

\* The sum of f over S as an area: a column of f[x] cells for each x.
Cells(f, S) == UNION {{x} \X (1..f[x]) : x \in S}
Total(f, S) == Cardinality(Cells(f, S))

LEMMA TotalIsNat ==
  ASSUME NEW S, IsFiniteSet(S), NEW f, \A x \in S : f[x] \in Nat
  PROVE  IsFiniteSet(Cells(f, S)) /\ Total(f, S) \in Nat
<1> DEFINE columns == {{x} \X (1..f[x]) : x \in S}
           column == [x \in S |-> {x} \X (1..f[x])]
<1>1. column \in Surjection(S, columns)
  BY DEF Surjection
<1>2. IsFiniteSet(columns)
  <2> HIDE DEF column, columns
  <2>1. QED
    BY <1>1, FS_Surjection
<1>3. ASSUME NEW x \in S
      PROVE  IsFiniteSet({x} \X (1..f[x]))
  <2>1. 1 \in Int /\ f[x] \in Int
    OBVIOUS
  <2>2. IsFiniteSet(1..f[x]) /\ IsFiniteSet({x})
    BY <2>1, FS_Singleton, FS_Interval
  <2>3. QED
    BY <2>2, FS_Product
<1>4. \A c \in columns : IsFiniteSet(c)
  BY <1>3
<1>5. IsFiniteSet(UNION columns)
  <2> HIDE DEF columns
  <2>1. QED
    BY <1>2, <1>4, FS_UNION
<1>6. QED
  BY <1>5, FS_CardinalityType DEF Cells, Total

LEMMA TotalSplits ==
  ASSUME NEW S, IsFiniteSet(S), NEW f, \A x \in S : f[x] \in Nat, NEW x \in S
  PROVE  Total(f, S) = f[x] + Total(f, S \ {x})
<1> DEFINE column == {x} \X (1..f[x])
           rest == Cells(f, S \ {x})
<1>1. IsFiniteSet(S \ {x})
  BY FS_RemoveElement
<1>2. IsFiniteSet(rest) /\ Cardinality(rest) \in Nat
  BY <1>1, TotalIsNat DEF Total
<1>3. IsFiniteSet(column) /\ Cardinality(column) = f[x]
  <2>1. IsFiniteSet(1..f[x]) /\ Cardinality(1..f[x]) = f[x]
    BY FS_Interval
  <2>2. IsFiniteSet({x}) /\ Cardinality({x}) = 1
    BY FS_Singleton
  <2>3. PICK one, bar : one = {x} /\ bar = 1..f[x]
    OBVIOUS
  <2>4. IsFiniteSet(one) /\ Cardinality(one) = 1 /\ IsFiniteSet(bar) /\ Cardinality(bar) = f[x]
    BY <2>1, <2>2, <2>3
  <2>5. /\ IsFiniteSet(one \X bar)
        /\ Cardinality(one \X bar) = Cardinality(one) * Cardinality(bar)
    BY <2>4, FS_Product
  <2>6. Cardinality(one) * Cardinality(bar) = f[x]
    BY <2>4
  <2>7. column = one \X bar
    BY <2>3
  <2>8. QED
    BY <2>5, <2>6, <2>7
<1>4. Cells(f, S) = column \cup rest /\ column \cap rest = {}
  BY DEF Cells
<1> HIDE DEF column, rest
<1>5. Cardinality(column \cup rest) = f[x] + Cardinality(rest)
  <2>1. Cardinality(column \cup rest) = f[x] + Cardinality(rest) - Cardinality({})
    BY <1>2, <1>3, <1>4, FS_Union
  <2>2. QED
    BY <1>2, <2>1, FS_EmptySet
<1>6. QED
  BY <1>4, <1>5 DEF Total, rest

LEMMA TotalOfNothing ==
  ASSUME NEW f
  PROVE  Total(f, {}) = 0
BY FS_EmptySet DEF Total, Cells

LEMMA TotalsAgree ==
  ASSUME NEW S, NEW f, NEW g, \A x \in S : f[x] = g[x]
  PROVE  Total(f, S) = Total(g, S)
BY DEF Total, Cells

\* A function that sums element by element, in any order, is the total.
LEMMA SumIsTotal ==
  ASSUME NEW S, IsFiniteSet(S), NEW f, \A x \in S : f[x] \in Nat,
         NEW sum, sum[{}] = 0,
         \A s \in SUBSET S : s # {} =>
           \E x \in s : sum[s] = f[x] + sum[s \ {x}] \/ sum[s] = sum[s \ {x}] + f[x]
  PROVE  sum[S] = Total(f, S)
<1> DEFINE wrong == {s \in SUBSET S : sum[s] # Total(f, s)}
<1> SUFFICES ASSUME wrong # {}
             PROVE  FALSE
  OBVIOUS
<1>1. wrong \in SUBSET FiniteSubsetsOf(S)
  BY FS_FiniteSubsetsOfFinite
<1>2. PICK s \in wrong : \A t \in wrong : ~(<<t, s>> \in StrictSubsetOrdering(S))
  <2> HIDE DEF wrong
  <2>1. QED
    BY <1>1, FS_StrictSubsetOrderingWellFounded, WFMin
<1>3. s \in SUBSET S /\ IsFiniteSet(s) /\ sum[s] # Total(f, s)
  BY <1>2, FS_Subset
<1>4. s # {}
  BY <1>3, TotalOfNothing
<1>5. PICK x \in s : sum[s] = f[x] + sum[s \ {x}] \/ sum[s] = sum[s \ {x}] + f[x]
  BY <1>3, <1>4
<1>6. s \ {x} \notin wrong
  <2>1. s \ {x} \in SUBSET S /\ s \ {x} \subseteq s /\ s \ {x} # s
    BY <1>3
  <2>2. <<s \ {x}, s>> \in StrictSubsetOrdering(S)
    BY <1>3, <2>1 DEF StrictSubsetOrdering
  <2>3. QED
    BY <1>2, <2>2
<1>7. sum[s \ {x}] = Total(f, s \ {x})
  BY <1>3, <1>6
<1>8. Total(f, s) = f[x] + Total(f, s \ {x})
  BY <1>3, TotalSplits
<1>9. f[x] \in Nat /\ Total(f, s \ {x}) \in Nat
  <2>1. IsFiniteSet(s \ {x}) /\ \A y \in s \ {x} : f[y] \in Nat
    BY <1>3, FS_RemoveElement
  <2>2. QED
    BY <1>3, <2>1, TotalIsNat
<1>10. QED
  BY <1>3, <1>5, <1>7, <1>8, <1>9

LEMMA TotalMoves ==
  ASSUME NEW S, IsFiniteSet(S), NEW f, NEW g, NEW x \in S,
         \A y \in S : f[y] \in Nat /\ g[y] \in Nat, \A y \in S \ {x} : g[y] = f[y]
  PROVE  /\ Total(f, S) \in Nat /\ Total(g, S) \in Nat
         /\ Total(g, S) + f[x] = Total(f, S) + g[x]
<1>1. IsFiniteSet(S \ {x})
  BY FS_RemoveElement
<1>2. Total(f, S) \in Nat /\ Total(g, S) \in Nat /\ Total(f, S \ {x}) \in Nat
  BY <1>1, TotalIsNat
<1>3. Total(f, S \ {x}) = Total(g, S \ {x})
  BY TotalsAgree
<1>4. Total(f, S) = f[x] + Total(f, S \ {x}) /\ Total(g, S) = g[x] + Total(g, S \ {x})
  BY TotalSplits
<1>5. QED
  BY <1>2, <1>3, <1>4

-----------------------------------------------------------------------------
(* The inductive invariant                                                 *)

\* What a worker has burned is covered by the attempts it has made.
WorkerInv ==
  \A p \in Positions :
    /\ pc[p] # "idle" => p \in Units
    /\ pc[p] = "idle" => burned[p] = 0
    /\ pc[p] # "idle" => attempt[p] >= 1
    /\ pc[p] # "idle" => burned[p] <= attempt[p] * MaxCallCost
    /\ pc[p] \in {"starting", "calling"} =>
         burned[p] + MaxCallCost <= attempt[p] * MaxCallCost
    /\ pc[p] = "retrying" => attempt[p] <= MaxRetries

\* Which units are where, phase by phase.
DispatchInv ==
  /\ inFlight \subseteq Units \ primes
  /\ todo \cap inFlight = {}
  /\ \A p \in Units : pc[p] \in Active =>
       p \in inFlight \/ (phase = "priming" /\ p \in todo \cap primes)
  /\ \A p \in todo : pc[p] # "idle" => p \in primes /\ p = FirstOf(todo \cap primes)
  /\ phase \notin {"idle", "priming", "raised"} => todo \cap primes = {}
  /\ phase \in {"idle", "priming", "returned"} => inFlight = {}
  /\ phase # "collecting" => batch = {}
  /\ phase = "priming" => Units \ primes \subseteq todo
  /\ phase = "raised" => \A p \in Units : pc[p] \notin Active
  /\ \A p \in inFlight : pc[p] # "idle"
  /\ \A p \in batch : pc[p] \in Finished
  /\ \A q \in primes \ todo : pc[q] \in {"ok", "failed"}
  /\ \A p \in Units \ primes : pc[p] # "idle" => todo \cap primes = {}
  /\ Cardinality(inFlight) <= Concurrency
  /\ phase = "returned" => todo = {}
  /\ phase = "idle" => \A p \in Positions : pc[p] = "idle"

Inv1 == TypeOK /\ WorkerInv /\ DispatchInv


\* What is on record for a unit agrees with its worker and its place in the run.
RecordOK(p) ==
  outcomes[ids[p]] # NoOutcome =>
    /\ p \notin todo \cup inFlight
    /\ outcomes[ids[p]].unit = p
    /\ outcomes[ids[p]].status = "skipped" => pc[p] = "idle" /\ p \notin primes
    /\ outcomes[ids[p]].status # "skipped" =>
         pc[p] = outcomes[ids[p]].status /\ outcomes[ids[p]].usage = burned[p]

\* Outcomes exist for accepted batches only, and then for every unit taken.
OutcomeInv ==
  /\ phase = "idle" \/ ~UniqueIds => outcomes = [i \in Ids |-> NoOutcome]
  /\ ~UniqueIds => phase = "raised"
  /\ UniqueIds => \A p \in Units : RecordOK(p)
  /\ UniqueIds /\ phase \notin {"closing", "raised"} =>
       \A p \in Units \ (todo \cup inFlight) : outcomes[ids[p]] # NoOutcome

\* The wave is taken in order, and once a unit is skipped the cap is reached.
OrderInv ==
  UniqueIds =>
    /\ \A p \in todo \ primes, q \in Units \ (primes \cup todo) : q < p
    /\ \A p \in Units : outcomes[ids[p]] # NoOutcome /\ outcomes[ids[p]].status = "skipped"
         => /\ OverBudget
            /\ \A q \in Units \ primes : pc[q] # "idle" => q < p

\* The total, and what the units in flight may still add to it, stay in bounds.
BudgetInv ==
  UniqueIds =>
    IF phase = "priming"
      THEN spent + Cardinality(todo \cap primes) * MaxUnitCost <= Cardinality(primes) * MaxUnitCost
      ELSE Capped =>
        \/ spent + Cardinality(inFlight) * MaxUnitCost <= Cardinality(primes) * MaxUnitCost
        \/ spent + Cardinality(inFlight) * MaxUnitCost <= limit - 1 + Concurrency * MaxUnitCost

Inv == Inv1 /\ OutcomeInv /\ OrderInv /\ BudgetInv

-----------------------------------------------------------------------------
(* Types, workers and the dispatcher                                       *)

LEMMA InitInv1 == Init => Inv1
<1> SUFFICES ASSUME Init PROVE Inv1
  OBVIOUS
<1>1. ids \in [1..0 -> Ids] /\ 0 \in 0..MaxUnits
  BY OrchestratorAssumption DEF Init
<1>2. MaxUnitCost \in Nat
  BY OrchestratorAssumption, ProductStep DEF MaxUnitCost
<1>3. TypeOK
  <2>1. ids \in [1..0 -> Ids] /\ 0 \in 0..MaxUnits /\ \E n \in 0..MaxUnits : ids \in [1..n -> Ids]
    BY <1>1
  <2>2. attempt \in [Positions -> 0..(MaxRetries + 1)] /\ burned \in [Positions -> 0..MaxUnitCost]
    BY <1>2, OrchestratorAssumption DEF Init
  <2>3. outcomes \in [Ids -> Outcomes \cup {NoOutcome}] 
    BY DEF Init
  <2>4. pc \in [Positions -> {"idle"} \cup Active \cup Finished]
    BY DEF Init
  <2> QED
  BY <2>1, <2>2, <2>3, <2>4 DEF Init, TypeOK, Phases
<1>4. WorkerInv
  BY DEF Init, WorkerInv
<1>5. DispatchInv
  BY FS_EmptySet, OrchestratorAssumption DEF Init, DispatchInv, Units, Active
<1>6. QED
  BY <1>3, <1>4, <1>5 DEF Inv1

LEMMA MaxUnitCostNat == MaxUnitCost \in Nat
BY OrchestratorAssumption, ProductStep DEF MaxUnitCost

\* The unit the dispatcher takes next is one it has not taken.
LEMMA NextUnit ==
  ASSUME TypeOK
  PROVE  /\ todo # {} => FirstOf(todo) \in todo
         /\ todo \cap primes # {} => FirstOf(todo \cap primes) \in todo \cap primes
BY UnitSets, FirstOfLeast DEF TypeOK

LEMMA CallRunInv1 == Inv1 /\ CallRun => Inv1'
<1> SUFFICES ASSUME Inv1, CallRun PROVE Inv1'
  OBVIOUS
<1> USE DEF Inv1
<1>1. TypeOK'
  <2>1. (\E n \in 0..MaxUnits : ids' \in [1..n -> Ids]) /\ primes' \in SUBSET Units' /\ todo' \in SUBSET Units'
    BY DEF CallRun, Units
  <2>2. inFlight' = {} /\ batch' = {}
    BY DEF CallRun, DispatchInv
  <2>3. phase' \in Phases /\ spent' \in Nat
    BY DEF CallRun, TypeOK, Phases
  <2>4. outcomes' \in [Ids -> Outcomes \cup {NoOutcome}] 
    BY DEF CallRun, TypeOK
  <2>5. /\ limit' \in Budgets \cup {NoBudget}
        /\ priced' \in BOOLEAN
        /\ pc' \in [Positions -> {"idle"} \cup Active \cup Finished]
        /\ attempt' \in [Positions -> 0..(MaxRetries + 1)] 
        /\ burned' \in [Positions -> 0..MaxUnitCost]
    BY DEF CallRun, TypeOK, worker
  <2> QED
  BY <2>1, <2>2, <2>3, <2>4, <2>5 DEF TypeOK
<1>2. WorkerInv'
  BY DEF CallRun, WorkerInv, DispatchInv, worker
<1>3. DispatchInv'
  <2>1. inFlight' = {} /\ batch' = {} /\ phase' \in {"priming", "raised"}
    BY DEF CallRun, DispatchInv
  <2>2. \A p \in Positions : pc'[p] = "idle"
    BY DEF CallRun, DispatchInv, worker
  <2>3. Units' \subseteq Positions /\ todo' = Units' /\ primes' \subseteq Units'
    <3>1. TypeOK' => Units' \subseteq Positions
      BY OrchestratorAssumption DEF TypeOK, Units, Positions
    <3> QED BY <1>1, <3>1 DEF CallRun, Units, TypeOK
  <2>4. Cardinality(inFlight') <= Concurrency
    BY <2>1, FS_EmptySet, OrchestratorAssumption
  <2>5. QED
    BY <2>1, <2>2, <2>3, <2>4 DEF DispatchInv, Active
<1>4. QED
  BY <1>1, <1>2, <1>3

LEMMA LeaveInv1 == Inv1 /\ Leave => Inv1'
<1> SUFFICES ASSUME Inv1, Leave PROVE Inv1'
  OBVIOUS
<1>1. ids' \in [1..0 -> Ids] /\ 0 \in 0..MaxUnits
  BY OrchestratorAssumption DEF Leave
<1>2. MaxUnitCost \in Nat
  BY OrchestratorAssumption, ProductStep DEF MaxUnitCost
<1>3. TypeOK'
  <2>1. ids' \in [1..0 -> Ids] /\ 0 \in 0..MaxUnits /\ \E n \in 0..MaxUnits : ids' \in [1..n -> Ids]
    BY <1>1
  <2>2. attempt' \in [Positions -> 0..(MaxRetries + 1)] /\ burned' \in [Positions -> 0..MaxUnitCost]
    BY <1>2, OrchestratorAssumption DEF Leave
  <2>3. outcomes' \in [Ids -> Outcomes \cup {NoOutcome}] 
    BY DEF Leave
  <2>4. pc' \in [Positions -> {"idle"} \cup Active \cup Finished]
    BY DEF Leave
  <2> QED
  BY <2>1, <2>2, <2>3, <2>4 DEF Leave, Inv1, TypeOK, Phases
<1>4. WorkerInv'
  BY DEF Leave, WorkerInv
<1>5. DispatchInv'
  BY FS_EmptySet, OrchestratorAssumption DEF Leave, DispatchInv, Units, Active
<1>6. QED
  BY <1>3, <1>4, <1>5 DEF Inv1


LEMMA StartPrimingInv1 == Inv1 /\ StartPriming => Inv1'
<1> SUFFICES ASSUME Inv1, StartPriming PROVE Inv1'
  OBVIOUS
<1> USE DEF Inv1
<1>1. PICK p \in todo \cap primes :
        /\ p = FirstOf(todo \cap primes)
        /\ pc[p] = "idle"
        /\ \/ /\ pc' = [pc EXCEPT ![p] = "starting"]
              /\ attempt' = [attempt EXCEPT ![p] = 1]
              /\ UNCHANGED phase
           \/ /\ phase' = "raised"
              /\ UNCHANGED <<pc, attempt>>
  BY DEF StartPriming
<1>2. /\ UNCHANGED <<ids, primes, limit, priced, todo, inFlight, batch, outcomes, spent, burned>>
      /\ Units' = Units
      /\ phase = "priming"
  BY DEF StartPriming, request, Units
<1>3. p \in Units /\ p \in Positions
  BY UnitSets DEF TypeOK
<1>4. TypeOK'
  <2>1. 1 \in 0..(MaxRetries + 1)
    BY OrchestratorAssumption
  <2>2. QED
    BY <1>1, <1>2, <1>3, <2>1 DEF TypeOK, Phases, Active
<1>5. WorkerInv'
  <2>1. 1 * MaxCallCost = MaxCallCost /\ MaxCallCost \in Nat
    BY OrchestratorAssumption
  <2>2. CASE pc' = [pc EXCEPT ![p] = "starting"] /\ attempt' = [attempt EXCEPT ![p] = 1]
    BY <1>1, <1>2, <1>3, <2>1, <2>2 DEF WorkerInv, TypeOK
  <2>3. CASE UNCHANGED <<pc, attempt>>
    BY <1>2, <2>3 DEF WorkerInv
  <2>4. QED
    BY <1>1, <2>2, <2>3
<1>6. DispatchInv'
  <2>1. CASE pc' = [pc EXCEPT ![p] = "starting"] /\ UNCHANGED phase
    <3>1. /\ pc'[p] = "starting"
          /\ \A q \in Positions : q # p => pc'[q] = pc[q]
      BY <1>3, <2>1 DEF TypeOK
    <3>2. todo \subseteq Positions /\ inFlight = {}
      BY <1>2, UnitSets DEF TypeOK, DispatchInv
    <3>3. QED
      BY ZenonT(30), <1>1, <1>2, <1>3, <2>1, <3>1, <3>2, UnitSets DEF DispatchInv, TypeOK
  <2>2. CASE phase' = "raised" /\ UNCHANGED pc
    <3>1. \A q \in Units : pc[q] \notin Active
      BY <1>1, <1>2 DEF DispatchInv, Active
    <3>2. QED
      BY <1>1, <1>2, <2>2, <3>1 DEF DispatchInv
  <2>3. QED
    BY <1>1, <2>1, <2>2
<1>7. QED
  BY <1>4, <1>5, <1>6

LEMMA EndPrimingInv1 == Inv1 /\ EndPriming => Inv1'
<1> SUFFICES ASSUME Inv1, EndPriming PROVE Inv1'
  OBVIOUS
<1> USE DEF Inv1
<1>1. PICK p \in todo \cap primes :
        \/ /\ pc[p] \in {"ok", "failed"}
           /\ outcomes' = [outcomes EXCEPT ![ids[p]] = Outcome(p, pc[p], burned[p])]
           /\ spent' = spent + Charge(p)
           /\ todo' = todo \ {p}
           /\ UNCHANGED phase
        \/ /\ pc[p] = "raised"
           /\ phase' = "raised"
           /\ UNCHANGED <<outcomes, spent, todo>>
  BY DEF EndPriming
<1>2. /\ UNCHANGED <<ids, primes, limit, priced, inFlight, batch, pc, attempt, burned>>
      /\ Units' = Units
      /\ phase = "priming"
  BY DEF EndPriming, request, Units, worker
<1>3. p \in Units /\ p \in Positions /\ p = FirstOf(todo \cap primes)
  BY <1>1, UnitSets DEF TypeOK, DispatchInv
<1>4. TypeOK'
  <2>1. CASE phase' = "raised" /\ UNCHANGED <<outcomes, spent, todo>>
    BY <1>2, <2>1 DEF TypeOK, Phases
  <2>2. CASE /\ pc[p] \in {"ok", "failed"}
             /\ outcomes' = [outcomes EXCEPT ![ids[p]] = Outcome(p, pc[p], burned[p])]
             /\ spent' = spent + Charge(p)
             /\ todo' = todo \ {p}
             /\ UNCHANGED phase
    <3>1. Outcome(p, pc[p], burned[p]) \in Outcomes /\ Charge(p) \in Nat
      BY <1>3, <2>2, MaxUnitCostNat DEF Outcome, Outcomes, Charge, TypeOK
    <3>2. outcomes' \in [Ids -> Outcomes \cup {NoOutcome}]
      BY <2>2, <3>1 DEF TypeOK
    <3>3. spent' \in Nat
      BY <2>2, <3>1 DEF TypeOK
    <3>4. QED
      BY <1>2, <2>2, <3>2, <3>3 DEF TypeOK
  <2>3. QED
    BY <1>1, <2>1, <2>2
<1>5. WorkerInv'
  BY <1>2 DEF WorkerInv
<1>6. DispatchInv'
  <2>1. \A q \in todo \cap primes : q # p => pc[q] = "idle"
    BY <1>3 DEF DispatchInv
  <2>2. CASE pc[p] \in {"ok", "failed"} /\ todo' = todo \ {p} /\ UNCHANGED phase
    BY <1>2, <1>3, <2>1, <2>2 DEF DispatchInv, Active
  <2>3. CASE pc[p] = "raised" /\ phase' = "raised" /\ UNCHANGED todo
    BY <1>2, <1>3, <2>1, <2>3 DEF DispatchInv, Active
  <2>4. QED
    BY <1>1, <2>2, <2>3
<1>7. QED
  BY <1>4, <1>5, <1>6

LEMMA ReleaseWaveInv1 == Inv1 /\ ReleaseWave => Inv1'
BY DEF Inv1, ReleaseWave, PrimingDone, TypeOK, WorkerInv, DispatchInv, Phases, Units,
       request, worker

LEMMA SubmitInv1 == Inv1 /\ Submit => Inv1'
<1> SUFFICES ASSUME Inv1, Submit PROVE Inv1'
  OBVIOUS
<1> USE DEF Inv1
<1> DEFINE p == FirstOf(todo)
<1>1. /\ todo' = todo \ {p}
      /\ inFlight' = inFlight \cup {p}
      /\ pc' = [pc EXCEPT ![p] = "starting"]
      /\ attempt' = [attempt EXCEPT ![p] = 1]
      /\ UNCHANGED <<phase, ids, primes, limit, priced, batch, outcomes, spent, burned>>
      /\ Units' = Units
      /\ phase = "filling"
      /\ Cardinality(inFlight) < Concurrency
      /\ todo # {}
  BY DEF Submit, Room, request, Units
<1>2. p \in todo /\ p \in Units /\ p \in Positions
  BY <1>1, NextUnit, UnitSets DEF TypeOK
<1> HIDE DEF p
<1>3. p \notin primes /\ pc[p] = "idle"
  BY <1>1, <1>2 DEF DispatchInv
<1>4. TypeOK'
  <2>1. 1 \in 0..(MaxRetries + 1)
    BY OrchestratorAssumption
  <2>2. QED
    BY <1>1, <1>2, <2>1 DEF TypeOK, Active
<1>5. WorkerInv'
  <2>1. 1 * MaxCallCost = MaxCallCost /\ MaxCallCost \in Nat
    BY OrchestratorAssumption
  <2>2. QED
    BY <1>1, <1>2, <1>3, <2>1 DEF WorkerInv, TypeOK
<1>6. DispatchInv'
  <2>1. Cardinality(inFlight') <= Concurrency
    <3>1. IsFiniteSet(inFlight) /\ Cardinality(inFlight) \in Nat
      BY UnitSets DEF TypeOK
    <3>2. Cardinality(inFlight \cup {p}) <= Cardinality(inFlight) + 1
      BY <3>1, FS_AddElement
    <3>3. Cardinality(inFlight \cup {p}) \in Nat
      BY <3>1, FS_AddElement, FS_CardinalityType
    <3>4. QED
      BY <1>1, <3>1, <3>2, <3>3, OrchestratorAssumption
  <2>2. todo' \cap primes' = {} /\ todo \cap primes = {}
    BY <1>1 DEF DispatchInv
  <2>3. QED
    BY <1>1, <1>2, <1>3, <2>1, <2>2 DEF DispatchInv, TypeOK
<1>7. QED
  BY <1>4, <1>5, <1>6

LEMMA SkipInv1 == Inv1 /\ Skip => Inv1'
<1> SUFFICES ASSUME Inv1, Skip PROVE Inv1'
  OBVIOUS
<1> USE DEF Inv1
<1> DEFINE p == FirstOf(todo)
<1>1. /\ todo' = todo \ {p}
      /\ outcomes' = [outcomes EXCEPT ![ids[p]] = Outcome(p, "skipped", 0)]
      /\ phase' \in {"filling", "closing"}
      /\ UNCHANGED <<ids, primes, limit, priced, inFlight, batch, spent, pc, attempt, burned>>
      /\ Units' = Units
      /\ phase = "filling"
      /\ todo # {}
  BY DEF Skip, Room, request, worker, Units
<1>2. p \in todo /\ p \in Units /\ p \in Positions
  BY <1>1, NextUnit, UnitSets DEF TypeOK
<1> HIDE DEF p
<1>3. TypeOK'
  <2>1. Outcome(p, "skipped", 0) \in Outcomes
    BY <1>2, MaxUnitCostNat DEF Outcome, Outcomes
  <2>2. outcomes' \in [Ids -> Outcomes \cup {NoOutcome}]
    BY <1>1, <2>1 DEF TypeOK
  <2>3. QED
    BY <1>1, <2>2 DEF TypeOK, Phases
<1>4. WorkerInv'
  BY <1>1 DEF WorkerInv
<1>5. DispatchInv'
  BY <1>1 DEF DispatchInv
<1>6. QED
  BY <1>3, <1>4, <1>5

LEMMA EndFillInv1 == Inv1 /\ EndFill => Inv1'
<1> SUFFICES ASSUME Inv1, EndFill PROVE Inv1'
  OBVIOUS
<1>1. inFlight = {} => todo = {}
  BY FS_EmptySet, OrchestratorAssumption DEF EndFill, Room
<1>2. QED
  BY <1>1 DEF Inv1, EndFill, TypeOK, WorkerInv, DispatchInv, Phases, Units, request, worker

LEMMA WaitInv1 == Inv1 /\ Wait => Inv1'
BY DEF Inv1, Wait, TypeOK, WorkerInv, DispatchInv, Phases, Units, request, worker

LEMMA CollectInv1 == Inv1 /\ Collect => Inv1'
<1> SUFFICES ASSUME Inv1, Collect PROVE Inv1'
  OBVIOUS
<1> USE DEF Inv1
<1>1. PICK p \in batch :
        /\ inFlight' = inFlight \ {p}
        /\ \/ /\ pc[p] # "raised"
              /\ outcomes' = [outcomes EXCEPT ![ids[p]] = Outcome(p, pc[p], burned[p])]
              /\ spent' = spent + Charge(p)
              /\ batch' = batch \ {p}
              /\ UNCHANGED phase
           \/ /\ pc[p] = "raised"
              /\ batch' = {}
              /\ phase' = "closing"
              /\ UNCHANGED <<outcomes, spent>>
  BY DEF Collect
<1>2. /\ UNCHANGED <<ids, primes, limit, priced, todo, pc, attempt, burned>>
      /\ Units' = Units
      /\ phase = "collecting"
  BY DEF Collect, request, Units, worker
<1>3. p \in Units /\ p \in Positions /\ p \in inFlight /\ pc[p] \in Finished
  BY UnitSets DEF TypeOK, DispatchInv
<1>4. TypeOK'
  <2>1. CASE /\ batch' = {}
             /\ phase' = "closing"
             /\ UNCHANGED <<outcomes, spent>>
    BY <1>1, <1>2, <2>1 DEF TypeOK, Phases
  <2>2. CASE /\ pc[p] # "raised"
             /\ outcomes' = [outcomes EXCEPT ![ids[p]] = Outcome(p, pc[p], burned[p])]
             /\ spent' = spent + Charge(p)
             /\ batch' = batch \ {p}
             /\ UNCHANGED phase
    <3>1. Outcome(p, pc[p], burned[p]) \in Outcomes /\ Charge(p) \in Nat
      BY <1>3, <2>2, MaxUnitCostNat DEF Outcome, Outcomes, Charge, TypeOK, Finished
    <3>2. outcomes' \in [Ids -> Outcomes \cup {NoOutcome}]
      BY <2>2, <3>1 DEF TypeOK
    <3>3. spent' \in Nat
      BY <2>2, <3>1 DEF TypeOK
    <3>4. QED
      BY <1>1, <1>2, <2>2, <3>2, <3>3 DEF TypeOK
  <2>3. QED
    BY <1>1, <2>1, <2>2
<1>5. WorkerInv'
  BY <1>2 DEF WorkerInv
<1>6. DispatchInv'
  <2>1. Cardinality(inFlight') <= Concurrency
    <3>1. IsFiniteSet(inFlight) /\ Cardinality(inFlight) \in Nat
      BY UnitSets DEF TypeOK
    <3>2. Cardinality(inFlight \ {p}) = Cardinality(inFlight) - 1
      BY <1>3, <3>1, FS_RemoveElement
    <3>3. QED
      BY <1>1, <3>1, <3>2, OrchestratorAssumption DEF DispatchInv
  <2>2. pc[p] \notin Active
    BY <1>3 DEF Finished, Active
  <2>3. phase' \in {"collecting", "closing"} /\ (phase' # "collecting" => batch' = {})
        /\ batch' \subseteq batch
    BY <1>1, <1>2
  <2>4. QED
    BY <1>1, <1>2, <1>3, <2>1, <2>2, <2>3 DEF DispatchInv
<1>7. QED
  BY <1>4, <1>5, <1>6

LEMMA RefillInv1 == Inv1 /\ Refill => Inv1'
BY DEF Inv1, Refill, TypeOK, WorkerInv, DispatchInv, Phases, Units, request, worker

LEMMA CloseInv1 == Inv1 /\ Close => Inv1'
BY SMTT(30) DEF Inv1, Close, TypeOK, WorkerInv, DispatchInv, Phases, Units, request, worker,
       Active, Finished

\* A worker step touches its own worker only.  Type correctness of what it has
\* burned rests on the attempts being bounded.
LEMMA BurnedBound ==
  ASSUME NEW a \in 0..(MaxRetries + 1), NEW b \in Nat, b <= a * MaxCallCost
  PROVE  b \in 0..MaxUnitCost
<1>1. a * MaxCallCost <= (MaxRetries + 1) * MaxCallCost
  BY OrchestratorAssumption, ProductMonotone
<1>2. a * MaxCallCost \in Nat
  BY OrchestratorAssumption, ProductStep
<1>3. QED
  BY <1>1, <1>2, MaxUnitCostNat DEF MaxUnitCost

LEMMA ExecInv1 == ASSUME NEW p \in Positions PROVE Inv1 /\ Exec(p) => Inv1'
<1> SUFFICES ASSUME Inv1, Exec(p) PROVE Inv1'
  OBVIOUS
<1> USE DEF Inv1
<1>1. /\ UNCHANGED <<phase, ids, primes, limit, priced, todo, inFlight, batch, outcomes, spent>>
      /\ Units' = Units
  BY DEF Exec, Started, Produced, RateLimited, Errored, Succeeded, BackOff, Failed,
         unchangedByWorker, request, Units
<1>2. /\ pc[p] \in Active
      /\ pc' = [pc EXCEPT ![p] = pc'[p]]
      /\ pc'[p] \in Active \cup Finished
      /\ \A q \in Positions : q # p => pc'[q] = pc[q]
  BY DEF Exec, Started, Produced, RateLimited, Errored, Succeeded, BackOff, Failed, Emit,
         TypeOK, Active, Finished
<1>3. p \in Units
  BY <1>2 DEF WorkerInv, Active
<1>4. attempt[p] \in 0..(MaxRetries + 1) /\ burned[p] \in Nat /\ MaxCallCost \in Nat
  BY OrchestratorAssumption, MaxUnitCostNat DEF TypeOK
<1>5. /\ attempt' = [attempt EXCEPT ![p] = attempt'[p]]
      /\ burned' = [burned EXCEPT ![p] = burned'[p]]
      /\ attempt'[p] \in 0..(MaxRetries + 1)
      /\ attempt'[p] >= 1
      /\ burned'[p] \in Nat
      /\ burned'[p] <= attempt'[p] * MaxCallCost
      /\ pc'[p] \in {"starting", "calling"} =>
           burned'[p] + MaxCallCost <= attempt'[p] * MaxCallCost
      /\ pc'[p] = "retrying" => attempt'[p] <= MaxRetries
  <2>1. CASE Started(p)
    BY <1>4, <2>1 DEF Started, Emit, WorkerInv, TypeOK
  <2>2. CASE Produced(p) \/ RateLimited(p)
    <3>1. PICK c \in 0..MaxCallCost : burned' = [burned EXCEPT ![p] = @ + c]
      BY <2>2 DEF Produced, RateLimited
    <3>2. burned' = [burned EXCEPT ![p] = burned'[p]] /\ burned'[p] = burned[p] + c
      BY <3>1 DEF TypeOK
    <3>3. burned[p] + MaxCallCost <= attempt[p] * MaxCallCost /\ attempt[p] >= 1
      BY <2>2 DEF Produced, RateLimited, WorkerInv
    <3>4. attempt[p] * MaxCallCost \in Nat
      BY <1>4, ProductStep
    <3>5. attempt' = attempt
      BY <2>2 DEF Produced, RateLimited
    <3>6. burned'[p] \in Nat /\ burned'[p] <= attempt'[p] * MaxCallCost
      BY <1>4, <3>1, <3>2, <3>3, <3>4, <3>5
    <3>7. /\ pc'[p] \in {"announcing", "failing", "retrying"}
          /\ pc'[p] = "retrying" => attempt[p] <= MaxRetries
      BY <1>4, <2>2, OrchestratorAssumption DEF Produced, RateLimited, RetriesExhausted, TypeOK
    <3>8. QED
      BY <1>4, <3>2, <3>3, <3>5, <3>6, <3>7 DEF TypeOK
  <2>3. CASE Errored(p) \/ Succeeded(p) \/ Failed(p)
    BY <1>4, <2>3 DEF Errored, Succeeded, Failed, Emit, WorkerInv, TypeOK
  <2>4. CASE BackOff(p)
    <3>1. CASE pc' = [pc EXCEPT ![p] = "starting"] /\ attempt' = [attempt EXCEPT ![p] = @ + 1]
      <4>1. attempt'[p] = attempt[p] + 1 /\ burned' = burned
        BY <2>4, <3>1 DEF BackOff, TypeOK
      <4>2. attempt[p] <= MaxRetries /\ burned[p] <= attempt[p] * MaxCallCost
        BY <2>4 DEF BackOff, WorkerInv
      <4>3. (attempt[p] + 1) * MaxCallCost = attempt[p] * MaxCallCost + MaxCallCost
            /\ attempt[p] * MaxCallCost \in Nat
        BY <1>4, ProductStep
      <4>4. burned[p] + MaxCallCost <= attempt'[p] * MaxCallCost
        BY <1>4, <4>1, <4>2, <4>3
      <4>5. QED
        BY <1>4, <3>1, <4>1, <4>2, <4>4, OrchestratorAssumption DEF TypeOK
    <3>2. CASE pc' = [pc EXCEPT ![p] = "raised"] /\ UNCHANGED attempt
      BY <1>4, <2>4, <3>2 DEF BackOff, WorkerInv, TypeOK
    <3>3. QED
      BY <2>4, <3>1, <3>2 DEF BackOff
  <2>5. QED
    BY <2>1, <2>2, <2>3, <2>4 DEF Exec
<1>6. TypeOK'
  <2>1. burned'[p] \in 0..MaxUnitCost
    BY <1>5, BurnedBound
  <2>2. QED
    BY <1>1, <1>2, <1>5, <2>1 DEF TypeOK
<1>7. WorkerInv'
  <2>1. pc'[p] # "idle"
    BY <1>2 DEF Active, Finished
  <2>2. ASSUME NEW q \in Positions, q # p
        PROVE  pc'[q] = pc[q] /\ attempt'[q] = attempt[q] /\ burned'[q] = burned[q]
    BY <1>2, <1>5, <2>2 DEF TypeOK
  <2>3. QED
    BY <1>1, <1>3, <1>5, <2>1, <2>2 DEF WorkerInv
<1>8. DispatchInv'
  <2>1. pc'[p] # "idle"
    BY <1>2 DEF Active, Finished
  <2>2. p \notin batch /\ phase \notin {"raised", "idle"} /\ p \notin primes \ todo
    BY <1>2, <1>3 DEF DispatchInv, Active, Finished
  <2>3. Units \subseteq Positions /\ batch \subseteq Units /\ todo \subseteq Units
        /\ primes \subseteq Units /\ inFlight \subseteq Units
    BY UnitSets DEF TypeOK
  <2>4. p \in todo => p \in primes /\ p = FirstOf(todo \cap primes)
    BY <1>2, <1>3 DEF DispatchInv, Active
  <2>5. p \in inFlight \/ (phase = "priming" /\ p \in todo \cap primes)
    BY <1>2, <1>3 DEF DispatchInv
  <2>6. QED
    BY <1>1, <1>2, <1>3, <2>1, <2>2, <2>3, <2>4, <2>5 DEF DispatchInv
<1>9. QED
  BY <1>6, <1>7, <1>8

LEMMA StutterInv1 == Inv1 /\ UNCHANGED vars => Inv1'
BY ZenonT(30) DEF Inv1, vars, request, worker, TypeOK, WorkerInv, DispatchInv, Units

LEMMA Inv1Step == Inv1 /\ [Next]_vars => Inv1'
BY CallRunInv1, LeaveInv1, StartPrimingInv1, EndPrimingInv1, ReleaseWaveInv1, SubmitInv1,
   SkipInv1, EndFillInv1, WaitInv1, CollectInv1, RefillInv1, CloseInv1, ExecInv1, StutterInv1
   DEF Next, Dispatcher

-----------------------------------------------------------------------------
(* Outcomes                                                                *)

\* With unique ids, recording an outcome under a unit's id touches no other unit.
LEMMA RecordOne ==
  ASSUME TypeOK, UniqueIds, NEW p \in Units, NEW o,
         outcomes' = [outcomes EXCEPT ![ids[p]] = o]
  PROVE  /\ outcomes'[ids[p]] = o
         /\ \A q \in Units : q # p => outcomes'[ids[q]] = outcomes[ids[q]]
<1>1. \A q \in Units : ids[q] \in Ids
  BY UnitSets
<1>2. QED
  BY <1>1 DEF TypeOK, UniqueIds

LEMMA OutcomeInvInit == Init => OutcomeInv
BY DEF Init, OutcomeInv, RecordOK, UniqueIds, Units

LEMMA OutcomeInvStep == Inv1 /\ OutcomeInv /\ Inv1' /\ [Next]_vars => OutcomeInv'
<1> SUFFICES ASSUME Inv1, OutcomeInv, Inv1', [Next]_vars PROVE OutcomeInv'
  OBVIOUS
<1> USE DEF Inv1
<1>a. ASSUME UNCHANGED <<ids, primes>>
      PROVE  Units' = Units /\ UniqueIds' = UniqueIds
  BY <1>a DEF Units, UniqueIds
<1>b. /\ Units \subseteq Positions
      /\ \A q \in Units : ids[q] \in Ids
  BY UnitSets
<1>1. CASE CallRun
  <2>1. outcomes' = [i \in Ids |-> NoOutcome] /\ todo' = Units'
        /\ phase' = IF UniqueIds' THEN "priming" ELSE "raised"
    BY <1>1 DEF CallRun, OutcomeInv, RecordOK, Units
  <2>2. \A p \in Units' : ids'[p] \in Ids
    BY <1>1 DEF TypeOK, Units
  <2>3. QED
    BY <2>1, <2>2 DEF OutcomeInv, RecordOK
<1>2. CASE Leave
  <2>1. Units' = {} /\ UniqueIds'
    BY <1>2 DEF Leave, Units, UniqueIds
  <2>2. QED
    BY <1>2, <2>1 DEF Leave, OutcomeInv, RecordOK
<1>3. CASE StartPriming
  <2>1. /\ UNCHANGED <<ids, primes, todo, inFlight, outcomes, burned>>
        /\ \E p \in todo : \A q \in Positions : q # p => pc'[q] = pc[q]
        /\ phase = "priming" /\ phase' \in {"priming", "raised"}
    BY <1>3 DEF StartPriming, request, TypeOK
  <2>2. QED
    BY <1>a, <1>b, <2>1 DEF OutcomeInv, RecordOK
<1>4. CASE EndPriming
  <2>1. /\ UNCHANGED <<ids, primes, inFlight, pc, burned>>
        /\ phase = "priming" /\ inFlight = {}
        /\ UniqueIds
    BY <1>4 DEF EndPriming, request, worker, OutcomeInv, RecordOK, DispatchInv
  <2>2. PICK p \in todo \cap primes :
          \/ /\ pc[p] \in {"ok", "failed"}
             /\ outcomes' = [outcomes EXCEPT ![ids[p]] = Outcome(p, pc[p], burned[p])]
             /\ todo' = todo \ {p}
             /\ UNCHANGED phase
          \/ phase' = "raised" /\ UNCHANGED <<outcomes, todo>>
    BY <1>4 DEF EndPriming
  <2>3. CASE phase' = "raised" /\ UNCHANGED <<outcomes, todo>>
    BY <1>a, <2>1, <2>3 DEF OutcomeInv, RecordOK
  <2>4. CASE /\ pc[p] \in {"ok", "failed"}
             /\ outcomes' = [outcomes EXCEPT ![ids[p]] = Outcome(p, pc[p], burned[p])]
             /\ todo' = todo \ {p}
             /\ UNCHANGED phase
    <3>1. p \in Units
      BY DEF TypeOK
    <3>2. /\ outcomes'[ids[p]] = Outcome(p, pc[p], burned[p])
          /\ \A q \in Units : q # p => outcomes'[ids[q]] = outcomes[ids[q]]
      BY <2>1, <2>4, <3>1, RecordOne
    <3>3. ASSUME NEW q \in Units
          PROVE  RecordOK(q)'
      BY <2>1, <2>4, <3>1, <3>2 DEF OutcomeInv, RecordOK, Outcome
    <3>4. Outcome(p, pc[p], burned[p]) # NoOutcome
      <4>1. Outcome(p, pc[p], burned[p]) \in Outcomes
        BY <1>b, <2>4, <3>1 DEF Outcome, Outcomes, TypeOK
      <4>2. QED
        BY <4>1, OrchestratorAssumption
    <3>5. \A q \in Units \ (todo' \cup inFlight') : outcomes'[ids[q]] # NoOutcome
      BY <2>1, <2>4, <3>1, <3>2, <3>4 DEF OutcomeInv
    <3>6. QED
      BY <1>a, <2>1, <2>4, <3>3, <3>5 DEF OutcomeInv
  <2>5. QED
    BY <2>2, <2>3, <2>4
<1>5. CASE Submit
  <2> DEFINE p == FirstOf(todo)
  <2>1. /\ UNCHANGED <<ids, primes, phase, outcomes, burned>>
        /\ todo' = todo \ {p} /\ inFlight' = inFlight \cup {p}
        /\ pc' = [pc EXCEPT ![p] = "starting"]
        /\ phase = "filling" /\ p \in todo
    BY <1>5, NextUnit DEF Submit, Room, request
  <2>2. p \in Positions /\ \A q \in Positions : q # p => pc'[q] = pc[q]
    BY <1>b, <2>1 DEF TypeOK
  <2> HIDE DEF p
  <2>3. QED
    BY <1>a, <1>b, <2>1, <2>2 DEF OutcomeInv, RecordOK
<1>6. CASE Skip
  <2> DEFINE p == FirstOf(todo)
  <2>1. /\ UNCHANGED <<ids, primes, inFlight, pc, burned>>
        /\ todo' = todo \ {p}
        /\ outcomes' = [outcomes EXCEPT ![ids[p]] = Outcome(p, "skipped", 0)]
        /\ phase = "filling" /\ phase' \in {"filling", "closing"}
        /\ p \in todo
    BY <1>6, NextUnit DEF Skip, Room, request, worker
  <2> HIDE DEF p
  <2>2. UniqueIds /\ p \in Units /\ p \notin primes /\ pc[p] = "idle" /\ p \notin inFlight
    BY <2>1 DEF OutcomeInv, RecordOK, DispatchInv, TypeOK
  <2>3. /\ outcomes'[ids[p]] = Outcome(p, "skipped", 0)
        /\ \A q \in Units : q # p => outcomes'[ids[q]] = outcomes[ids[q]]
    BY <2>1, <2>2, RecordOne
  <2>4. ASSUME NEW q \in Units
        PROVE  RecordOK(q)'
    BY <2>1, <2>2, <2>3 DEF OutcomeInv, RecordOK, Outcome
  <2>5. Outcome(p, "skipped", 0) # NoOutcome
    <3>1. Outcome(p, "skipped", 0) \in Outcomes
      BY <1>b, <2>2, MaxUnitCostNat DEF Outcome, Outcomes
    <3>2. QED
      BY <3>1, OrchestratorAssumption
  <2>6. \A q \in Units \ (todo' \cup inFlight') : outcomes'[ids[q]] # NoOutcome
    BY <2>1, <2>2, <2>3, <2>5 DEF OutcomeInv
  <2>7. QED
    BY <1>a, <2>1, <2>2, <2>4, <2>6 DEF OutcomeInv
<1>7. CASE ReleaseWave \/ EndFill \/ Wait \/ Refill \/ Close
  <2>1. /\ UNCHANGED <<ids, primes, todo, inFlight, outcomes, pc, burned>>
        /\ phase' # "idle" /\ phase \notin {"idle", "returned", "raised"}
        /\ phase' \notin {"closing", "raised"} => phase \notin {"closing", "raised"}
    BY <1>7 DEF ReleaseWave, EndFill, Wait, Refill, Close, request, worker
  <2>2. QED
    BY <1>a, <2>1 DEF OutcomeInv, RecordOK
<1>8. CASE Collect
  <2>1. /\ UNCHANGED <<ids, primes, todo, pc, burned>>
        /\ phase = "collecting"
        /\ UniqueIds
    BY <1>8 DEF Collect, request, worker, OutcomeInv, RecordOK
  <2>2. PICK p \in batch :
          /\ inFlight' = inFlight \ {p}
          /\ \/ /\ pc[p] # "raised"
                /\ outcomes' = [outcomes EXCEPT ![ids[p]] = Outcome(p, pc[p], burned[p])]
                /\ UNCHANGED phase
             \/ phase' = "closing" /\ UNCHANGED outcomes
    BY <1>8 DEF Collect
  <2>3. p \in inFlight /\ p \in Units /\ p \notin todo /\ pc[p] \in Finished
    BY DEF TypeOK, DispatchInv
  <2>4. CASE phase' = "closing" /\ UNCHANGED outcomes
    BY <1>a, <2>1, <2>2, <2>4 DEF OutcomeInv, RecordOK
  <2>5. CASE /\ pc[p] # "raised"
             /\ outcomes' = [outcomes EXCEPT ![ids[p]] = Outcome(p, pc[p], burned[p])]
             /\ UNCHANGED phase
    <3>1. /\ outcomes'[ids[p]] = Outcome(p, pc[p], burned[p])
          /\ \A q \in Units : q # p => outcomes'[ids[q]] = outcomes[ids[q]]
      BY <2>1, <2>3, <2>5, RecordOne
    <3>2. pc[p] # "skipped"
      BY <2>3 DEF Finished
    <3>3. ASSUME NEW q \in Units
          PROVE  RecordOK(q)'
      BY <2>1, <2>2, <2>3, <2>5, <3>1, <3>2 DEF OutcomeInv, RecordOK, Outcome
    <3>4. Outcome(p, pc[p], burned[p]) # NoOutcome
      <4>1. Outcome(p, pc[p], burned[p]) \in Outcomes
        BY <1>b, <2>3, <2>5 DEF Outcome, Outcomes, TypeOK, Finished
      <4>2. QED
        BY <4>1, OrchestratorAssumption
    <3>5. \A q \in Units \ (todo' \cup inFlight') : outcomes'[ids[q]] # NoOutcome
      BY <2>1, <2>2, <2>5, <3>1, <3>4 DEF OutcomeInv
    <3>6. QED
      BY <1>a, <2>1, <2>5, <3>3, <3>5 DEF OutcomeInv
  <2>6. QED
    BY <2>2, <2>4, <2>5
<1>9. CASE \E p \in Positions : Exec(p)
  <2>1. PICK p \in Positions : Exec(p)
    BY <1>9
  <2>2. /\ UNCHANGED <<phase, ids, primes, todo, inFlight, outcomes>>
        /\ pc[p] \in Active
        /\ \A q \in Positions : q # p => pc'[q] = pc[q] /\ burned'[q] = burned[q]
    BY <2>1 DEF Exec, Started, Produced, RateLimited, Errored, Succeeded, BackOff, Failed,
                Emit, unchangedByWorker, request, TypeOK, Active
  <2>3. p \in Units => outcomes[ids[p]] = NoOutcome \/ ~UniqueIds
    <3>1. SUFFICES ASSUME p \in Units, outcomes[ids[p]] # NoOutcome, UniqueIds PROVE FALSE
      OBVIOUS
    <3>2. outcomes[ids[p]] \in Outcomes
      BY <1>b, <3>1 DEF TypeOK
    <3>3. pc[p] \in {"idle", "ok", "failed"}
      BY <3>1, <3>2 DEF OutcomeInv, RecordOK, Outcomes
    <3>4. QED
      BY <2>2, <3>3 DEF Active
  <2>4. QED
    BY <1>a, <1>b, <2>2, <2>3 DEF OutcomeInv, RecordOK
<1>10. CASE UNCHANGED vars
  BY <1>a, <1>10 DEF vars, request, worker, OutcomeInv, RecordOK
<1>11. QED
  BY <1>1, <1>2, <1>3, <1>4, <1>5, <1>6, <1>7, <1>8, <1>9, <1>10 DEF Next, Dispatcher

-----------------------------------------------------------------------------
(* The order of the wave and the budget gate                               *)

LEMMA OrderInvInit == Init => OrderInv
BY DEF Init, OrderInv, Units

LEMMA OrderInvStep ==
  Inv1 /\ OutcomeInv /\ OrderInv /\ Inv1' /\ OutcomeInv' /\ [Next]_vars => OrderInv'
<1> SUFFICES ASSUME Inv1, OutcomeInv, OrderInv, Inv1', OutcomeInv', [Next]_vars, UniqueIds'
             PROVE  OrderInv'
  BY DEF OrderInv
<1> USE DEF Inv1
<1>a. ASSUME UNCHANGED <<ids, primes>>
      PROVE  Units' = Units /\ UniqueIds' = UniqueIds
  BY <1>a DEF Units, UniqueIds
<1>b. /\ Units \subseteq Positions /\ Units \subseteq Nat
      /\ todo \subseteq Units /\ primes \subseteq Units
      /\ \A q \in Units : ids[q] \in Ids
  BY UnitSets DEF TypeOK
<1>1. CASE CallRun
  <2>1. outcomes' = [i \in Ids |-> NoOutcome] /\ todo' = Units'
    BY <1>1 DEF CallRun, OutcomeInv, Units
  <2>2. \A p \in Units' : ids'[p] \in Ids
    BY <1>1 DEF TypeOK, Units
  <2>3. QED
    BY <2>1, <2>2 DEF OrderInv
<1>2. CASE Leave
  <2>1. Units' = {} /\ todo' = {}
    BY <1>2 DEF Leave, Units
  <2>2. QED
    BY <2>1 DEF OrderInv
<1>3. CASE StartPriming
  <2>1. /\ UNCHANGED <<ids, primes, limit, priced, spent, todo, outcomes>>
        /\ \E p \in primes : \A q \in Positions : q # p => pc'[q] = pc[q]
    BY <1>3 DEF StartPriming, request, TypeOK
  <2>2. QED
    BY <1>a, <1>b, <2>1 DEF OrderInv, OverBudget
<1>4. CASE EndPriming
  <2>1. /\ UNCHANGED <<ids, primes, limit, priced, pc>>
        /\ UniqueIds
    BY <1>4, <1>a DEF EndPriming, request, worker
  <2>2. PICK p \in todo \cap primes :
          \/ /\ pc[p] \in {"ok", "failed"}
             /\ outcomes' = [outcomes EXCEPT ![ids[p]] = Outcome(p, pc[p], burned[p])]
             /\ spent' = spent + Charge(p)
             /\ todo' = todo \ {p}
          \/ UNCHANGED <<outcomes, todo, spent>>
    BY <1>4 DEF EndPriming
  <2>3. CASE UNCHANGED <<outcomes, todo, spent>>
    BY <1>a, <2>1, <2>3 DEF OrderInv, OverBudget
  <2>4. CASE /\ pc[p] \in {"ok", "failed"}
             /\ outcomes' = [outcomes EXCEPT ![ids[p]] = Outcome(p, pc[p], burned[p])]
             /\ spent' = spent + Charge(p)
             /\ todo' = todo \ {p}
    <3>1. p \in Units
      BY <1>b
    <3>2. /\ outcomes'[ids[p]] = Outcome(p, pc[p], burned[p])
          /\ \A q \in Units : q # p => outcomes'[ids[q]] = outcomes[ids[q]]
      BY <2>1, <2>4, <3>1, RecordOne
    <3>3. outcomes'[ids[p]].status # "skipped"
      BY <2>4, <3>2 DEF Outcome
    <3>4. OverBudget => OverBudget'
      BY <2>1, <2>4, <3>1, <1>b, OrchestratorAssumption, MaxUnitCostNat
         DEF OverBudget, Charge, TypeOK
    <3>5. QED
      BY <1>a, <2>1, <2>4, <3>1, <3>2, <3>3, <3>4 DEF OrderInv
  <2>5. QED
    BY <2>2, <2>3, <2>4
<1>5. CASE Submit \/ Skip
  <2> DEFINE p == FirstOf(todo)
  <2>1. /\ UNCHANGED <<ids, primes, limit, priced, spent>>
        /\ todo' = todo \ {p}
        /\ phase = "filling" /\ todo # {}
    BY <1>5 DEF Submit, Skip, Room, request
  <2>2. p \in todo /\ todo \cap primes = {} /\ \A q \in todo : p <= q
    BY <1>b, <2>1, FirstOfLeast DEF DispatchInv
  <2> HIDE DEF p
  <2>3. \A r \in todo' \ primes', q \in Units' \ (primes' \cup todo') : q < r
    <3>1. SUFFICES ASSUME NEW r \in todo, r # p, NEW q \in Units \ primes,
                          q \notin todo \/ q = p
                   PROVE  q < r
      BY <1>a, <2>1, <2>2
    <3>2. p < r
      BY <1>b, <2>2, <3>1
    <3>3. q \notin todo => q < r
      BY <1>a, <2>1, <2>2, <3>1 DEF OrderInv
    <3>4. QED
      BY <3>1, <3>2, <3>3
  <2>4. CASE Submit
    <3>1. /\ ~OverBudget /\ OverBudget' = OverBudget
          /\ UNCHANGED outcomes
      BY <2>4, <2>1 DEF Submit, OverBudget
    <3>2. QED
      BY <1>a, <2>1, <2>3, <3>1 DEF OrderInv
  <2>5. CASE Skip
    <3>1. /\ OverBudget /\ OverBudget' = OverBudget
          /\ outcomes' = [outcomes EXCEPT ![ids[p]] = Outcome(p, "skipped", 0)]
          /\ UNCHANGED pc
      BY <2>5, <2>1 DEF Skip, OverBudget, worker, p
    <3>2. p \in Units /\ UniqueIds
      BY <1>a, <1>b, <2>1, <2>2
    <3>3. \A q \in Units : q # p => outcomes'[ids[q]] = outcomes[ids[q]]
      BY <3>1, <3>2, RecordOne
    <3>4. \A q \in Units \ primes : pc[q] # "idle" => q < p
      BY <2>2, <3>2 DEF OrderInv, DispatchInv
    <3>5. QED
      BY <1>a, <2>1, <2>3, <3>1, <3>2, <3>3, <3>4 DEF OrderInv
  <2>6. QED
    BY <1>5, <2>4, <2>5
<1>7. CASE ReleaseWave \/ EndFill \/ Wait \/ Refill \/ Close
  <2>1. UNCHANGED <<ids, primes, limit, priced, spent, todo, outcomes, pc>>
    BY <1>7 DEF ReleaseWave, EndFill, Wait, Refill, Close, request, worker
  <2>2. QED
    BY <1>a, <2>1 DEF OrderInv, OverBudget
<1>8. CASE Collect
  <2>1. /\ UNCHANGED <<ids, primes, limit, priced, todo, pc>>
        /\ UniqueIds
    BY <1>8, <1>a DEF Collect, request, worker
  <2>2. PICK p \in batch :
          \/ /\ pc[p] # "raised"
             /\ outcomes' = [outcomes EXCEPT ![ids[p]] = Outcome(p, pc[p], burned[p])]
             /\ spent' = spent + Charge(p)
          \/ UNCHANGED <<outcomes, spent>>
    BY <1>8 DEF Collect
  <2>3. p \in Units /\ pc[p] \in Finished
    BY DEF TypeOK, DispatchInv
  <2>4. CASE UNCHANGED <<outcomes, spent>>
    BY <1>a, <2>1, <2>4 DEF OrderInv, OverBudget
  <2>5. CASE /\ outcomes' = [outcomes EXCEPT ![ids[p]] = Outcome(p, pc[p], burned[p])]
             /\ spent' = spent + Charge(p)
    <3>2. /\ outcomes'[ids[p]] = Outcome(p, pc[p], burned[p])
          /\ \A q \in Units : q # p => outcomes'[ids[q]] = outcomes[ids[q]]
      BY <2>1, <2>3, <2>5, RecordOne
    <3>3. outcomes'[ids[p]].status # "skipped"
      BY <2>3, <3>2 DEF Outcome, Finished
    <3>4. OverBudget => OverBudget'
      BY <2>1, <2>3, <2>5, <1>b, OrchestratorAssumption, MaxUnitCostNat
         DEF OverBudget, Charge, TypeOK
    <3>5. QED
      BY <1>a, <2>1, <2>3, <3>2, <3>3, <3>4 DEF OrderInv
  <2>6. QED
    BY <2>2, <2>4, <2>5
<1>9. CASE \E p \in Positions : Exec(p)
  <2>1. /\ UNCHANGED <<ids, primes, limit, priced, spent, todo, outcomes>>
        /\ \A q \in Positions : pc'[q] # "idle" => pc[q] # "idle"
    BY <1>9 DEF Exec, Started, Produced, RateLimited, Errored, Succeeded, BackOff, Failed,
                Emit, unchangedByWorker, request, TypeOK
  <2>2. QED
    BY <1>a, <1>b, <2>1 DEF OrderInv, OverBudget
<1>10. CASE UNCHANGED vars
  BY <1>a, <1>10 DEF vars, request, worker, OrderInv, OverBudget
<1>11. QED
  BY <1>1, <1>2, <1>3, <1>4, <1>5, <1>7, <1>8, <1>9, <1>10 DEF Next, Dispatcher

-----------------------------------------------------------------------------
(* The money                                                               *)

\* The room a cap leaves: what is spent plus what k more units may bring.
Within(k) ==
  \/ spent + k * MaxUnitCost <= Cardinality(primes) * MaxUnitCost
  \/ spent + k * MaxUnitCost <= limit - 1 + Concurrency * MaxUnitCost

LEMMA ChargeBound ==
  ASSUME TypeOK, NEW p \in Positions
  PROVE  Charge(p) \in 0..MaxUnitCost
BY MaxUnitCostNat DEF Charge, TypeOK

LEMMA BudgetInvInit == Init => BudgetInv
BY DEF Init, BudgetInv, Capped

LEMMA BudgetInvStep ==
  Inv1 /\ OutcomeInv /\ BudgetInv /\ Inv1' /\ OutcomeInv' /\ [Next]_vars => BudgetInv'
<1> SUFFICES ASSUME Inv1, OutcomeInv, BudgetInv, Inv1', OutcomeInv', [Next]_vars, UniqueIds'
             PROVE  BudgetInv'
  BY DEF BudgetInv
<1> USE DEF Inv1
<1>a. ASSUME UNCHANGED <<ids, primes>>
      PROVE  Units' = Units /\ UniqueIds' = UniqueIds
  BY <1>a DEF Units, UniqueIds
<1>b. /\ \A S \in SUBSET Units : IsFiniteSet(S) /\ Cardinality(S) \in Nat
      /\ Units \subseteq Positions
      /\ todo \subseteq Units /\ primes \subseteq Units /\ inFlight \subseteq Units
      /\ spent \in Nat /\ MaxUnitCost \in Nat
      /\ Concurrency \in Nat \ {0}
      /\ limit # NoBudget => limit \in Nat
  BY UnitSets, MaxUnitCostNat, OrchestratorAssumption DEF TypeOK
<1>c. \A n \in Nat : n * MaxUnitCost \in Nat /\ (n + 1) * MaxUnitCost = n * MaxUnitCost + MaxUnitCost
  BY <1>b, ProductStep
<1>d. Cardinality({}) = 0 /\ 0 * MaxUnitCost = 0
  BY <1>b, FS_EmptySet
<1>1. CASE CallRun
  <2>1. spent' = 0 /\ phase' = "priming" /\ todo' \cap primes' = primes'
    BY <1>1 DEF CallRun
  <2>2. Cardinality(primes') * MaxUnitCost \in Nat
    <3>1. Cardinality(primes') \in Nat
      <4>1. TypeOK' => Cardinality(primes') \in Nat
        <5>1. ASSUME TypeOK' PROVE IsFiniteSet(primes')
          <6>1. PICK n \in 0..MaxUnits : ids' \in [1..n -> Ids]
            BY <5>1 DEF TypeOK
          <6>2. n \in Nat /\ Units' = 1..n /\ primes' \in SUBSET (1..n)
            BY <5>1, <6>1, OrchestratorAssumption DEF TypeOK, Units
          <6>3. IsFiniteSet(1..n)
            BY <6>2, FS_Interval
          <6>4. QED
            BY <6>2, <6>3, FS_Subset
        <5>2. QED
          BY <5>1, FS_CardinalityType
      <4>2. QED
        BY <4>1
    <3>2. QED
      BY <1>c, <3>1
  <2>3. QED
    BY <1>b, <2>1, <2>2 DEF BudgetInv, MaxUnitCost
<1>2. CASE Leave
  BY <1>2 DEF Leave, BudgetInv, Capped
<1>3. CASE StartPriming \/ EndPriming
  <2>1. /\ UNCHANGED <<ids, primes, limit, priced, inFlight>>
        /\ phase = "priming" /\ inFlight = {}
        /\ phase' \in {"priming", "raised"}
    BY <1>3 DEF StartPriming, EndPriming, request, DispatchInv
  <2> DEFINE k == Cardinality(todo \cap primes)
  <2>2. k \in Nat /\ Cardinality(primes) \in Nat
        /\ spent + k * MaxUnitCost <= Cardinality(primes) * MaxUnitCost
    BY <1>a, <1>b, <2>1 DEF BudgetInv
  <2>3. CASE UNCHANGED <<spent, todo>>
    <3>1. spent <= Cardinality(primes) * MaxUnitCost
      BY <1>b, <1>c, <2>2
    <3>2. QED
      BY <1>a, <1>b, <1>c, <1>d, <2>1, <2>2, <2>3, <3>1 DEF BudgetInv, MaxUnitCost
  <2>4. CASE /\ UNCHANGED phase
             /\ \E p \in todo \cap primes : spent' = spent + Charge(p) /\ todo' = todo \ {p}
    <3>1. PICK p \in todo \cap primes : spent' = spent + Charge(p) /\ todo' = todo \ {p}
      BY <2>4
    <3>2. todo' \cap primes' = (todo \cap primes) \ {p}
      BY <2>1, <3>1
    <3>3. Cardinality(todo' \cap primes') = k - 1 /\ k - 1 \in Nat
      <4>1. IsFiniteSet(todo \cap primes)
        BY <1>b
      <4>2. Cardinality((todo \cap primes) \ {p}) = k - 1
        BY <4>1, FS_RemoveElement
      <4>3. (todo \cap primes) \ {p} \in SUBSET Units
        BY <1>b
      <4>4. QED
        BY <1>b, <3>2, <4>2, <4>3
    <3>4. k * MaxUnitCost = (k - 1) * MaxUnitCost + MaxUnitCost
      BY <1>c, <2>2, <3>3
    <3>5. Charge(p) \in 0..MaxUnitCost
      BY <1>b, ChargeBound
    <3>6. (k - 1) * MaxUnitCost \in Nat /\ Cardinality(primes) * MaxUnitCost \in Nat
      BY <1>c, <2>2, <3>3
    <3>7. spent' + (k - 1) * MaxUnitCost <= Cardinality(primes) * MaxUnitCost
      BY <1>b, <2>2, <3>1, <3>4, <3>5, <3>6
    <3>8. QED
      BY <2>1, <2>4, <3>3, <3>7 DEF BudgetInv, MaxUnitCost
  <2>5. QED
    BY <1>3, <2>1, <2>3, <2>4 DEF StartPriming, EndPriming
<1>4. CASE ReleaseWave
  <2>1. /\ UNCHANGED <<ids, primes, limit, priced, inFlight, spent, todo>>
        /\ phase = "priming" /\ phase' = "filling" /\ inFlight = {}
        /\ todo \cap primes = {}
    BY <1>4 DEF ReleaseWave, PrimingDone, request, DispatchInv
  <2>2. spent + 0 * MaxUnitCost <= Cardinality(primes) * MaxUnitCost
    BY <1>a, <1>d, <2>1 DEF BudgetInv
  <2>3. QED
    BY <1>d, <2>1, <2>2 DEF BudgetInv, MaxUnitCost
<1>5. CASE Submit
  <2> DEFINE k == Cardinality(inFlight)
  <2>1. /\ UNCHANGED <<ids, primes, limit, priced, spent, phase>>
        /\ inFlight' = inFlight \cup {FirstOf(todo)}
        /\ phase = "filling" /\ k < Concurrency /\ k \in Nat
        /\ IsFiniteSet(inFlight)
        /\ ~OverBudget
    BY <1>5, <1>b DEF Submit, Room, request
  <2>2. Cardinality(inFlight') \in Nat /\ Cardinality(inFlight') <= Concurrency
    <3>1. /\ IsFiniteSet(inFlight \cup {FirstOf(todo)})
          /\ Cardinality(inFlight \cup {FirstOf(todo)}) <= k + 1
      BY <2>1, FS_AddElement
    <3>2. Cardinality(inFlight \cup {FirstOf(todo)}) \in Nat
      BY <3>1, FS_CardinalityType
    <3>3. QED
      BY <1>b, <2>1, <3>1, <3>2
  <2>3. Cardinality(inFlight') * MaxUnitCost <= Concurrency * MaxUnitCost
    BY <1>b, <2>2, ProductMonotone
  <2>4. Cardinality(inFlight') * MaxUnitCost \in Nat /\ Concurrency * MaxUnitCost \in Nat
    BY <1>b, <1>c, <2>2
  <2>5. ASSUME priced, limit # NoBudget
        PROVE  spent + Cardinality(inFlight') * MaxUnitCost <= limit - 1 + Concurrency * MaxUnitCost
    <3>1. spent <= limit - 1
      BY <1>b, <2>1, <2>5 DEF OverBudget
    <3>2. QED
      BY <1>b, <2>3, <2>4, <2>5, <3>1
  <2>6. QED
    BY <2>1, <2>5 DEF BudgetInv, Capped, MaxUnitCost
<1>6. CASE Collect
  <2>1. /\ UNCHANGED <<ids, primes, limit, priced>>
        /\ phase = "collecting" /\ phase' \in {"collecting", "closing"}
        /\ \E p \in batch : /\ inFlight' = inFlight \ {p}
                            /\ spent' = spent + Charge(p) \/ spent' = spent
    BY <1>6 DEF Collect, request
  <2>2. PICK p \in batch : /\ inFlight' = inFlight \ {p}
                           /\ spent' = spent + Charge(p) \/ spent' = spent
    BY <2>1
  <2>3. p \in inFlight /\ p \in Positions
    BY <1>b DEF TypeOK
  <2> DEFINE k == Cardinality(inFlight)
  <2>4. Cardinality(inFlight') = k - 1 /\ k \in Nat /\ k - 1 \in Nat
    <3>1. IsFiniteSet(inFlight) /\ k \in Nat
      BY <1>b
    <3>2. Cardinality(inFlight \ {p}) = k - 1
      BY <2>3, <3>1, FS_RemoveElement
    <3>3. inFlight \ {p} \in SUBSET Units
      BY <1>b
    <3>4. QED
      BY <1>b, <2>2, <3>1, <3>2, <3>3
  <2>5. k * MaxUnitCost = (k - 1) * MaxUnitCost + MaxUnitCost /\ (k - 1) * MaxUnitCost \in Nat
    BY <1>c, <2>4
  <2>6. Charge(p) \in 0..MaxUnitCost
    BY <2>3, ChargeBound
  <2>7. spent' + (k - 1) * MaxUnitCost <= spent + k * MaxUnitCost /\ spent' \in Nat
    BY <1>b, <2>2, <2>5, <2>6
  <2>8. /\ Cardinality(primes) * MaxUnitCost \in Nat
        /\ Concurrency * MaxUnitCost \in Nat
        /\ k * MaxUnitCost \in Nat
    BY <1>b, <1>c, <2>4
  <2>9. ASSUME Capped PROVE Within(k) /\ limit \in Nat
    BY <1>b, <2>1, <2>9 DEF BudgetInv, Within, Capped
  <2>10. Capped' = Capped
    BY <1>a, <2>1 DEF Capped
  <2>11. ASSUME Capped
         PROVE  \/ spent' + (k - 1) * MaxUnitCost <= Cardinality(primes) * MaxUnitCost
                \/ spent' + (k - 1) * MaxUnitCost <= limit - 1 + Concurrency * MaxUnitCost
    BY <1>b, <2>5, <2>7, <2>8, <2>9, <2>11 DEF Within
  <2>12. QED
    BY <2>1, <2>4, <2>10, <2>11 DEF BudgetInv, MaxUnitCost
<1>7. CASE Skip \/ EndFill \/ Wait \/ Refill \/ Close
  <2>1. /\ UNCHANGED <<ids, primes, limit, priced, inFlight, spent>>
        /\ phase # "priming" /\ phase' # "priming"
    BY <1>7 DEF Skip, EndFill, Wait, Refill, Close, Room, request, worker
  <2>2. QED
    BY <1>a, <2>1 DEF BudgetInv, Capped, MaxUnitCost
<1>8. CASE \E p \in Positions : Exec(p)
  <2>1. UNCHANGED <<ids, primes, limit, priced, inFlight, spent, phase, todo>>
    BY <1>8 DEF Exec, Started, Produced, RateLimited, Errored, Succeeded, BackOff, Failed,
                unchangedByWorker, request
  <2>2. QED
    BY <1>a, <2>1 DEF BudgetInv, Capped, MaxUnitCost
<1>9. CASE UNCHANGED vars
  BY <1>a, <1>9 DEF vars, request, worker, BudgetInv, Capped, MaxUnitCost
<1>10. QED
  BY <1>1, <1>2, <1>3, <1>4, <1>5, <1>6, <1>7, <1>8, <1>9 DEF Next, Dispatcher

LEMMA InvHolds == Spec => []Inv
<1>1. Init => Inv
  BY InitInv1, OutcomeInvInit, OrderInvInit, BudgetInvInit DEF Inv
<1>2. Inv /\ [Next]_vars => Inv'
  BY Inv1Step, OutcomeInvStep, OrderInvStep, BudgetInvStep DEF Inv
<1>3. QED
  BY <1>1, <1>2, PTL DEF Spec

-----------------------------------------------------------------------------
(* The total                                                               *)

\* What is on record for every unit, in money.
Bill == [p \in Units |->
  IF priced /\ outcomes[ids[p]] # NoOutcome THEN outcomes[ids[p]].usage ELSE 0]

\* The metered total is the sum of what is on record.
SumInv == UniqueIds /\ phase # "idle" => spent = Total(Bill, Units)

LEMMA BillType == TypeOK => \A p \in Units : Bill[p] \in Nat
<1> SUFFICES ASSUME TypeOK PROVE \A p \in Units : Bill[p] \in Nat
  OBVIOUS
<1>1. \A p \in Units : outcomes[ids[p]] \in Outcomes \cup {NoOutcome}
  BY UnitSets DEF TypeOK
<1>2. \A o \in Outcomes : o.usage \in Nat
  BY MaxUnitCostNat DEF Outcomes
<1>3. QED
  BY <1>1, <1>2 DEF Bill

\* One more outcome on record is one more amount in the total.
LEMMA OneMoreBilled ==
  ASSUME Inv1, Inv1', SumInv, NEW p \in Units, NEW o \in Outcomes,
         outcomes[ids[p]] = NoOutcome, UNCHANGED <<ids, priced>>, phase # "idle",
         outcomes' = [outcomes EXCEPT ![ids[p]] = o],
         spent' = spent + (IF priced THEN o.usage ELSE 0)
  PROVE  SumInv'
<1> SUFFICES ASSUME UniqueIds
             PROVE  spent' = Total(Bill', Units')
  BY DEF SumInv, UniqueIds, Units
<1>1. Units' = Units /\ IsFiniteSet(Units) /\ TypeOK /\ TypeOK'
  BY UnitSets DEF Inv1, Units
<1>2. PICK f, g, U : f = Bill /\ g = Bill' /\ U = Units
  OBVIOUS
<1>3. \A q \in U : f[q] \in Nat
  BY <1>1, <1>2, BillType
<1>4. /\ outcomes'[ids[p]] = o
      /\ \A q \in Units : q # p => outcomes'[ids[q]] = outcomes[ids[q]]
  BY <1>1, RecordOne
<1>5. o # NoOutcome
  BY OrchestratorAssumption
<1>6. /\ f = [q \in Units |->
                IF priced /\ outcomes[ids[q]] # NoOutcome THEN outcomes[ids[q]].usage ELSE 0]
      /\ g = [q \in Units |->
                IF priced /\ outcomes'[ids[q]] # NoOutcome THEN outcomes'[ids[q]].usage ELSE 0]
  BY <1>1, <1>2 DEF Bill
<1>7. f[p] = 0 /\ g[p] = IF priced THEN o.usage ELSE 0
  BY <1>4, <1>5, <1>6
<1>8. \A q \in U \ {p} : g[q] = f[q]
  BY <1>2, <1>4, <1>6
<1>9. Total(f, U) \in Nat /\ Total(g, U) \in Nat /\ Total(g, U) + f[p] = Total(f, U) + g[p]
  <2>1. o.usage \in Nat
    BY MaxUnitCostNat DEF Outcomes
  <2>2. \A q \in U : g[q] \in Nat
    BY <1>3, <1>7, <1>8, <2>1
  <2>3. QED
    BY <1>1, <1>2, <1>3, <1>8, <2>2, TotalMoves
<1>10. spent = Total(f, U)
  BY <1>2 DEF SumInv
<1>11. Total(g, U) = spent + g[p]
  BY <1>3, <1>7, <1>9, <1>10
<1>12. QED
  BY <1>1, <1>2, <1>7, <1>11

LEMMA SumInvStep == Inv /\ SumInv /\ Inv' /\ [Next]_vars => SumInv'
<1> SUFFICES ASSUME Inv, SumInv, Inv', [Next]_vars PROVE SumInv'
  OBVIOUS
<1>1. Inv1 /\ Inv1' /\ OutcomeInv /\ TypeOK
  BY DEF Inv, Inv1
<1>2. CASE phase # "idle" /\ UNCHANGED <<ids, priced, outcomes, spent>>
  BY <1>2 DEF SumInv, Bill, UniqueIds, Units
<1>3. CASE CallRun
  <2>1. SUFFICES ASSUME UniqueIds' PROVE spent' = Total(Bill', Units')
    BY DEF SumInv
  <2>2. spent' = 0 /\ outcomes' = [i \in Ids |-> NoOutcome]
    BY <1>1, <1>3, <2>1 DEF CallRun, OutcomeInv
  <2>3. \A q \in Units' : ids'[q] \in Ids
    BY <1>1, <1>3 DEF Inv1, TypeOK, Units
  <2>4. PICK f, U : f = Bill' /\ U = Units'
    OBVIOUS
  <2>5. \A q \in U : f[q] = 0
    BY <2>2, <2>3, <2>4 DEF Bill
  <2>6. Cells(f, U) = {}
    <3>1. 1..0 = {}
      OBVIOUS
    <3>2. QED
      BY <2>5, <3>1 DEF Cells
  <2>7. QED
    BY <2>2, <2>4, <2>6, FS_EmptySet DEF Total
<1>4. CASE Leave
  BY <1>4 DEF Leave, SumInv
<1>5. CASE StartPriming \/ ReleaseWave \/ Submit \/ EndFill \/ Wait \/ Refill \/ Close
  BY <1>2, <1>5 DEF StartPriming, ReleaseWave, Submit, EndFill, Wait, Refill, Close, Room, request
<1>6. ASSUME NEW p \in Units, p \in todo \/ p \in inFlight, UniqueIds
      PROVE  outcomes[ids[p]] = NoOutcome
  BY <1>1, <1>6 DEF OutcomeInv, RecordOK
<1>7. CASE EndPriming
  <2>1. /\ UNCHANGED <<ids, priced>> /\ phase = "priming" /\ UniqueIds
    BY <1>1, <1>7 DEF EndPriming, request, OutcomeInv
  <2>2. PICK p \in todo \cap primes :
          \/ /\ pc[p] \in {"ok", "failed"}
             /\ outcomes' = [outcomes EXCEPT ![ids[p]] = Outcome(p, pc[p], burned[p])]
             /\ spent' = spent + Charge(p)
          \/ UNCHANGED <<outcomes, spent>>
    BY <1>7 DEF EndPriming
  <2>3. CASE UNCHANGED <<outcomes, spent>>
    BY <1>2, <2>1, <2>3
  <2>4. CASE /\ pc[p] \in {"ok", "failed"}
             /\ outcomes' = [outcomes EXCEPT ![ids[p]] = Outcome(p, pc[p], burned[p])]
             /\ spent' = spent + Charge(p)
    <3>1. p \in Units /\ p \in Positions /\ outcomes[ids[p]] = NoOutcome
      BY <1>1, <1>6, <2>1, UnitSets DEF TypeOK
    <3>2. PICK o : o = Outcome(p, pc[p], burned[p])
      OBVIOUS
    <3>3. o \in Outcomes /\ Charge(p) = IF priced THEN o.usage ELSE 0
      BY <1>1, <2>4, <3>1, <3>2 DEF Outcome, Outcomes, Charge, TypeOK
    <3>4. QED
      BY <1>1, <2>1, <2>4, <3>1, <3>2, <3>3, OneMoreBilled
  <2>5. QED
    BY <2>2, <2>3, <2>4
<1>8. CASE Skip
  <2>1. /\ UNCHANGED <<ids, priced, spent>> /\ phase = "filling" /\ UniqueIds
    BY <1>1, <1>8 DEF Skip, Room, request, OutcomeInv
  <2>2. PICK p : p = FirstOf(todo)
    OBVIOUS
  <2>3. p \in todo /\ p \in Units
    BY <1>1, <1>8, <2>2, NextUnit DEF Skip, Room, TypeOK
  <2>4. PICK o : o = Outcome(p, "skipped", 0)
    OBVIOUS
  <2>5. outcomes' = [outcomes EXCEPT ![ids[p]] = o]
    BY <1>8, <2>2, <2>4 DEF Skip
  <2>6. o \in Outcomes /\ o.usage = 0
    BY <1>1, <2>3, <2>4, UnitSets, MaxUnitCostNat DEF Outcome, Outcomes
  <2>7. spent' = spent + (IF priced THEN o.usage ELSE 0)
    BY <1>1, <2>1, <2>6 DEF TypeOK
  <2>8. QED
    BY <1>1, <1>6, <2>1, <2>3, <2>5, <2>6, <2>7, OneMoreBilled
<1>9. CASE Collect
  <2>1. /\ UNCHANGED <<ids, priced>> /\ phase = "collecting" /\ UniqueIds
    BY <1>1, <1>9 DEF Collect, request, OutcomeInv
  <2>2. PICK p \in batch :
          \/ /\ pc[p] # "raised"
             /\ outcomes' = [outcomes EXCEPT ![ids[p]] = Outcome(p, pc[p], burned[p])]
             /\ spent' = spent + Charge(p)
          \/ UNCHANGED <<outcomes, spent>>
    BY <1>9 DEF Collect
  <2>3. CASE UNCHANGED <<outcomes, spent>>
    BY <1>2, <2>1, <2>3
  <2>4. CASE /\ pc[p] # "raised"
             /\ outcomes' = [outcomes EXCEPT ![ids[p]] = Outcome(p, pc[p], burned[p])]
             /\ spent' = spent + Charge(p)
    <3>1. p \in Units /\ p \in Positions /\ p \in inFlight /\ outcomes[ids[p]] = NoOutcome
      BY <1>1, <1>6, <2>1, UnitSets DEF TypeOK
    <3>2. pc[p] \in {"ok", "failed"}
      BY <1>1, <2>4 DEF Inv1, DispatchInv, Finished
    <3>3. PICK o : o = Outcome(p, pc[p], burned[p])
      OBVIOUS
    <3>4. o \in Outcomes /\ Charge(p) = IF priced THEN o.usage ELSE 0
      BY <1>1, <3>1, <3>2, <3>3 DEF Outcome, Outcomes, Charge, TypeOK
    <3>5. QED
      BY <1>1, <2>1, <2>4, <3>1, <3>3, <3>4, OneMoreBilled
  <2>5. QED
    BY <2>2, <2>3, <2>4
<1>10. CASE \E p \in Positions : Exec(p)
  <2>1. UNCHANGED <<phase, ids, priced, outcomes, spent>>
    BY <1>10 DEF Exec, Started, Produced, RateLimited, Errored, Succeeded, BackOff, Failed,
       unchangedByWorker, request
  <2>2. QED
    BY <2>1 DEF SumInv, Bill, UniqueIds, Units
<1>11. CASE UNCHANGED vars
  BY <1>11 DEF vars, request, SumInv, Bill, UniqueIds, Units
<1>12. QED
  BY <1>3, <1>4, <1>5, <1>7, <1>8, <1>9, <1>10, <1>11 DEF Next, Dispatcher

\* The fold of the usage on record is the total.
LEMMA UsageAddsUp ==
  ASSUME TypeOK, priced, \A p \in Units : outcomes[ids[p]] # NoOutcome
  PROVE  MapThenSumSet(LAMBDA p : outcomes[ids[p]].usage, Units) = Total(Bill, Units)
<1> DEFINE sums(g) == g = [s \in SUBSET Units |->
                             IF s = {} THEN 0
                             ELSE outcomes[ids[CHOOSE x \in s : TRUE]].usage
                                    + g[s \ {CHOOSE x \in s : TRUE}]]
<1>1. MapThenSumSet(LAMBDA p : outcomes[ids[p]].usage, Units) = (CHOOSE g : sums(g))[Units]
  BY DEF MapThenSumSet, MapThenFoldSet
<1>2. PICK f, U : f = Bill /\ U = Units
  OBVIOUS
<1>3. /\ IsFiniteSet(U) /\ \A p \in U : f[p] \in Nat
      /\ \A p \in U : f[p] = outcomes[ids[p]].usage
  BY <1>2, UnitSets, BillType DEF Bill
<1>4. \E g : sums(g)
  <2> DEFINE total == [s \in SUBSET U |-> Total(f, s)]
  <2>1. ASSUME NEW s \in SUBSET U
        PROVE  total[s] = IF s = {} THEN 0
                          ELSE outcomes[ids[CHOOSE x \in s : TRUE]].usage
                                 + total[s \ {CHOOSE x \in s : TRUE}]
    <3>1. CASE s = {}
      BY <3>1, TotalOfNothing
    <3>2. CASE s # {}
      <4>1. PICK x : x = CHOOSE y \in s : TRUE
        OBVIOUS
      <4>2. x \in s /\ IsFiniteSet(s) /\ \A p \in s : f[p] \in Nat
        BY <1>3, <3>2, <4>1, FS_Subset
      <4>3. Total(f, s) = f[x] + Total(f, s \ {x})
        BY <4>2, TotalSplits
      <4>4. QED
        BY <1>3, <3>2, <4>1, <4>2, <4>3
    <3>3. QED
      BY <3>1, <3>2
  <2>2. sums(total)
    BY <1>2, <2>1
  <2>3. QED
    BY <2>2
<1>5. PICK sum : sum = CHOOSE g : sums(g)
  OBVIOUS
<1>6. sums(sum)
  BY <1>4, <1>5
<1>7. sum[{}] = 0
  BY <1>6
<1>8. ASSUME NEW s \in SUBSET U, s # {}
      PROVE  \E x \in s : sum[s] = f[x] + sum[s \ {x}]
  <2>1. PICK x : x = CHOOSE y \in s : TRUE
    OBVIOUS
  <2>2. x \in s /\ x \in U /\ s \in SUBSET Units
    BY <1>2, <1>8, <2>1
  <2>3. sum[s] = outcomes[ids[x]].usage + sum[s \ {x}]
    BY <1>6, <1>8, <2>1, <2>2
  <2>4. QED
    BY <1>3, <2>2, <2>3
<1>9. sum[U] = Total(f, U)
  BY <1>3, <1>7, <1>8, SumIsTotal
<1>10. QED
  BY <1>1, <1>2, <1>5, <1>9

-----------------------------------------------------------------------------
(* The theorems                                                            *)

\* Every variable of the fan-out keeps its type, in particular a worker makes at
\* most MaxRetries + 1 attempts and burns at most MaxUnitCost.
THEOREM TypeCorrect == Spec => []TypeOK
BY InvHolds, PTL DEF Inv, Inv1

\* At most Concurrency workers run at the same time, and only one primes.
THEOREM BoundedConcurrencyHolds == Spec => []BoundedConcurrency
<1>1. Inv => BoundedConcurrency
  <2> SUFFICES ASSUME Inv PROVE BoundedConcurrency
    OBVIOUS
  <2> USE DEF Inv, Inv1
  <2> DEFINE working == {p \in Units : pc[p] \in Active}
  <2>1. /\ \A S \in SUBSET Units : IsFiniteSet(S) /\ Cardinality(S) \in Nat
        /\ inFlight \in SUBSET Units /\ working \in SUBSET Units
        /\ Concurrency \in Nat
    BY UnitSets, OrchestratorAssumption DEF TypeOK
  <2>2. CASE phase # "priming"
    <3>1. working \subseteq inFlight
      BY <2>2 DEF DispatchInv
    <3>2. Cardinality(working) <= Cardinality(inFlight)
      BY <2>1, <3>1, FS_Subset
    <3>3. QED
      BY <2>1, <2>2, <3>2 DEF BoundedConcurrency, DispatchInv
  <2>3. CASE phase = "priming"
    <3>1. working \subseteq {FirstOf(todo \cap primes)}
      BY <2>3 DEF DispatchInv, Active
    <3>a. /\ IsFiniteSet({FirstOf(todo \cap primes)})
          /\ Cardinality({FirstOf(todo \cap primes)}) = 1
      BY FS_Singleton
    <3>2. Cardinality(working) <= 1
      BY <3>1, <3>a, FS_Subset
    <3>3. QED
      BY <2>3, <3>2 DEF BoundedConcurrency
  <2>4. QED
    BY <2>2, <2>3
<1>2. QED
  BY <1>1, InvHolds, PTL

\* The wave starts only after every priming unit has run to completion.
THEOREM PrimedBeforeWaveHolds == Spec => []PrimedBeforeWave
<1>1. Inv => PrimedBeforeWave
  BY DEF Inv, Inv1, TypeOK, DispatchInv, PrimedBeforeWave
<1>2. QED
  BY <1>1, InvHolds, PTL

\* Under a cap the total exceeds it by less than one wave of full-priced units.
THEOREM OvershootBounded == Spec => []OvershootWithinOneWave
<1>1. Inv => OvershootWithinOneWave
  <2> SUFFICES ASSUME Inv, Capped PROVE OvershootWithinOneWave
    BY DEF OvershootWithinOneWave
  <2>1. /\ spent \in Nat /\ limit \in Nat
        /\ Cardinality(inFlight) \in Nat /\ Cardinality(primes) \in Nat
        /\ Cardinality(todo \cap primes) \in Nat
    BY UnitSets, OrchestratorAssumption DEF Inv, Inv1, TypeOK, Capped
  <2>2. \A n \in Nat : n * MaxUnitCost \in Nat
    BY MaxUnitCostNat, ProductStep
  <2>3. /\ Cardinality(inFlight) * MaxUnitCost \in Nat
        /\ Cardinality(primes) * MaxUnitCost \in Nat
        /\ Cardinality(todo \cap primes) * MaxUnitCost \in Nat
        /\ Concurrency * MaxUnitCost \in Nat
    BY <2>1, <2>2, OrchestratorAssumption
  <2>4. CASE phase = "priming"
    <3>1. spent + Cardinality(todo \cap primes) * MaxUnitCost <= Cardinality(primes) * MaxUnitCost
      BY <2>4 DEF Inv, BudgetInv, Capped
    <3>2. QED
      BY <2>1, <2>3, <3>1 DEF OvershootWithinOneWave
  <2>5. CASE phase # "priming"
    <3>1. Within(Cardinality(inFlight))
      BY <2>5 DEF Inv, BudgetInv, Capped, Within
    <3>2. QED
      BY <2>1, <2>3, <3>1 DEF OvershootWithinOneWave, Within
  <2>6. QED
    BY <2>4, <2>5
<1>2. QED
  BY <1>1, InvHolds, PTL

\* A skipped outcome is proof that the cap was, and still is, reached.
THEOREM SkippedOnlyOverBudgetHolds == Spec => []SkippedOnlyOverBudget
<1>1. Inv => SkippedOnlyOverBudget
  BY DEF Inv, OrderInv, OverBudget, SkippedOnlyOverBudget
<1>2. QED
  BY <1>1, InvHolds, PTL

\* What the budget skips is the tail of the wave.
THEOREM SkipsAreTheTailHolds == Spec => []SkipsAreTheTail
<1>1. Inv => SkipsAreTheTail
  <2> SUFFICES ASSUME Inv, UniqueIds, NEW p \in Units \ primes, NEW q \in Units \ primes,
                      p < q, outcomes[ids[p]] # NoOutcome,
                      outcomes[ids[p]].status = "skipped"
               PROVE  pc[q] = "idle"
    BY DEF SkipsAreTheTail
  <2>1. pc[q] # "idle" => q < p
    BY DEF Inv, OrderInv
  <2>2. p \in Nat /\ q \in Nat
    BY UnitSets DEF Inv, Inv1
  <2>3. QED
    BY <2>1, <2>2
<1>2. QED
  BY <1>1, InvHolds, PTL

\* run() never leaves a worker behind, however it ends.
THEOREM NoOrphanWorkersHolds == Spec => []NoOrphanWorkers
<1>1. Inv => NoOrphanWorkers
  <2> SUFFICES ASSUME Inv, phase \in {"idle", "returned", "raised"}, NEW p \in Units
               PROVE  pc[p] \notin Active
    BY DEF NoOrphanWorkers
  <2>1. p \in Positions
    BY UnitSets DEF Inv, Inv1
  <2>2. QED
    BY <2>1 DEF Inv, Inv1, DispatchInv, Active
<1>2. QED
  BY <1>1, InvHolds, PTL

\* When the callback behaves, run() raises for a repeated id and for nothing else.
CalmInv ==
  ~CallbackRaises =>
    /\ phase # "closing"
    /\ \A p \in Positions : pc[p] # "raised"
    /\ phase = "raised" => ~UniqueIds

LEMMA CalmHolds == Spec => []CalmInv
<1>1. Init => CalmInv
  BY DEF Init, CalmInv
<1>2. Inv /\ CalmInv /\ [Next]_vars => CalmInv'
  <2> SUFFICES ASSUME Inv, CalmInv, [Next]_vars, ~CallbackRaises
               PROVE  CalmInv'
    BY DEF CalmInv
  <2> USE DEF Inv, Inv1
  <2>a. ASSUME UNCHANGED ids PROVE UniqueIds' = UniqueIds
    BY <2>a DEF UniqueIds, Units
  <2>1. CASE CallRun
    BY <2>1 DEF CallRun, CalmInv, worker
  <2>2. CASE Leave
    BY <2>2 DEF Leave, CalmInv
  <2>3. CASE StartPriming
    BY <2>3, <2>a DEF StartPriming, CalmInv, request, TypeOK
  <2>4. CASE EndPriming
    <3>1. todo \subseteq Positions
      BY UnitSets DEF TypeOK
    <3>2. QED
      BY <2>4, <2>a, <3>1 DEF EndPriming, CalmInv, request, worker
  <2>5. CASE Submit
    BY <2>5, <2>a DEF Submit, Room, CalmInv, request, TypeOK
  <2>6. CASE Collect
    <3>1. batch \subseteq Positions
      BY UnitSets DEF TypeOK
    <3>2. QED
      BY <2>6, <2>a, <3>1 DEF Collect, CalmInv, request, worker
  <2>7. CASE ReleaseWave \/ Skip \/ EndFill \/ Wait \/ Refill \/ Close
    BY <2>7, <2>a DEF ReleaseWave, Skip, EndFill, Wait, Refill, Close, Room, CalmInv, request, worker
  <2>8. CASE \E p \in Positions : Exec(p)
    BY <2>8, <2>a DEF Exec, Started, Produced, RateLimited, Errored, Succeeded, BackOff, Failed,
                Emit, unchangedByWorker, request, CalmInv, TypeOK
  <2>9. CASE UNCHANGED vars
    BY <2>9, <2>a DEF vars, request, worker, CalmInv
  <2>10. QED
    BY <2>1, <2>2, <2>3, <2>4, <2>5, <2>6, <2>7, <2>8, <2>9 DEF Next, Dispatcher
<1>3. QED
  BY <1>1, <1>2, InvHolds, PTL DEF Spec

\* "Never a hard stop": unless its callback raises, run() raises for a repeated id alone.
THEOREM NeverAHardStopHolds == Spec => []NeverAHardStop
<1>1. CalmInv => NeverAHardStop
  BY DEF CalmInv, NeverAHardStop
<1>2. QED
  BY <1>1, CalmHolds, PTL

\* Whatever was primed, retried, billed on a 429, skipped or failed: when run() returns,
\* every unit has its own outcome and the total is the sum of what they used.
THEOREM TheRunReconciles == Spec => []ResultReconciles
<1>1. Init => SumInv
  BY DEF Init, SumInv
<1>2. Inv /\ SumInv /\ Inv' /\ [Next]_vars => SumInv'
  BY SumInvStep
<1>3. ASSUME Inv, SumInv
      PROVE  ResultReconciles
  <2>1. SUFFICES ASSUME phase = "returned"
                 PROVE  /\ \A p \in Units : /\ outcomes[ids[p]] # NoOutcome
                                            /\ outcomes[ids[p]].unit = p
                        /\ spent = IF priced
                                     THEN MapThenSumSet(LAMBDA p : outcomes[ids[p]].usage, Units)
                                     ELSE 0
    BY DEF ResultReconciles
  <2>2. /\ TypeOK /\ todo = {} /\ inFlight = {} /\ UniqueIds
        /\ \A p \in Units : outcomes[ids[p]] # NoOutcome /\ RecordOK(p)
    BY <1>3, <2>1 DEF Inv, Inv1, DispatchInv, OutcomeInv
  <2>3. \A p \in Units : outcomes[ids[p]].unit = p
    BY <2>2 DEF RecordOK
  <2>4. spent = Total(Bill, Units)
    BY <1>3, <2>1, <2>2 DEF SumInv
  <2>5. CASE priced
    BY <2>2, <2>3, <2>4, <2>5, UsageAddsUp
  <2>6. CASE ~priced
    <3>1. PICK f, U : f = Bill /\ U = Units
      OBVIOUS
    <3>2. \A p \in U : f[p] = 0
      BY <2>6, <3>1 DEF Bill
    <3>3. Cells(f, U) = {}
      <4>1. 1..0 = {}
        OBVIOUS
      <4>2. QED
        BY <3>2, <4>1 DEF Cells
    <3>4. QED
      BY <2>2, <2>3, <2>4, <2>6, <3>1, <3>3, FS_EmptySet DEF Total
  <2>7. QED
    BY <2>5, <2>6
<1>4. QED
  BY InvHolds, <1>1, <1>2, <1>3, PTL DEF Spec

\* An outcome on record is final and the total never shrinks during a run.
THEOREM OutcomesAreFinalHolds == Spec => OutcomesAreFinal
<1>1. Inv /\ [Next]_vars /\ phase \notin {"idle", "returned", "raised"} =>
        /\ \A i \in Ids : outcomes[i] # NoOutcome => outcomes'[i] = outcomes[i]
        /\ spent' >= spent
  <2> SUFFICES ASSUME Inv, [Next]_vars, phase \notin {"idle", "returned", "raised"}
               PROVE  /\ \A i \in Ids : outcomes[i] # NoOutcome => outcomes'[i] = outcomes[i]
                      /\ spent' >= spent
    OBVIOUS
  <2> USE DEF Inv, Inv1
  <2>a. /\ todo \subseteq Units /\ inFlight \subseteq Units /\ batch \subseteq inFlight
        /\ Units \subseteq Positions /\ spent \in Nat
        /\ \A p \in Units : Charge(p) \in Nat
        /\ \A q \in Units : ids[q] \in Ids
        /\ UniqueIds
    BY UnitSets, ChargeBound DEF TypeOK, OutcomeInv
  <2>1. CASE UNCHANGED <<outcomes, spent>>
    BY <2>1, <2>a
  <2>2. ASSUME NEW p \in Units, NEW o, p \in todo \cup inFlight,
               outcomes' = [outcomes EXCEPT ![ids[p]] = o]
        PROVE  \A i \in Ids : outcomes[i] # NoOutcome => outcomes'[i] = outcomes[i]
    <3>1. outcomes[ids[p]] = NoOutcome
      BY <2>2, <2>a DEF OutcomeInv, RecordOK
    <3>2. QED
      BY <2>2, <3>1 DEF TypeOK
  <2>3. CASE EndPriming
    <3>1. PICK p \in todo \cap primes :
            \/ /\ outcomes' = [outcomes EXCEPT ![ids[p]] = Outcome(p, pc[p], burned[p])]
               /\ spent' = spent + Charge(p)
            \/ UNCHANGED <<outcomes, spent>>
      BY <2>3 DEF EndPriming
    <3>2. QED
      BY <2>1, <2>2, <2>a, <3>1
  <2>4. CASE Skip
    <3> DEFINE p == FirstOf(todo)
    <3>1. /\ p \in todo
          /\ p \in Units
      BY <2>4, <2>a, NextUnit DEF Skip, Room
    <3>2. /\ outcomes' = [outcomes EXCEPT ![ids[p]] = Outcome(p, "skipped", 0)]
          /\ spent' = spent
      BY <2>4 DEF Skip
    <3> HIDE DEF p
    <3>3. \A i \in Ids : outcomes[i] # NoOutcome => outcomes'[i] = outcomes[i]
      BY <2>2, <3>1, <3>2
    <3>4. QED
      BY <2>a, <3>2, <3>3
  <2>5. CASE Collect
    <3>1. PICK p \in batch :
            \/ /\ outcomes' = [outcomes EXCEPT ![ids[p]] = Outcome(p, pc[p], burned[p])]
               /\ spent' = spent + Charge(p)
            \/ UNCHANGED <<outcomes, spent>>
      BY <2>5 DEF Collect
    <3>2. QED
      BY <2>1, <2>2, <2>a, <3>1
  <2>6. CASE \E p \in Positions : Exec(p)
    BY <2>1, <2>6 DEF Exec, Started, Produced, RateLimited, Errored, Succeeded, BackOff, Failed,
                      unchangedByWorker
  <2>7. CASE ReleaseWave \/ EndFill \/ Wait \/ Refill \/ Close \/ StartPriming \/ Submit
             \/ UNCHANGED vars
    BY <2>1, <2>7 DEF ReleaseWave, EndFill, Wait, Refill, Close, StartPriming, Submit, vars
  <2>8. QED
    BY <2>3, <2>4, <2>5, <2>6, <2>7 DEF Next, Dispatcher, CallRun, Leave
<1>2. QED
  BY <1>1, InvHolds, PTL DEF Spec, OutcomesAreFinal

-----------------------------------------------------------------------------
(* The contract                                                            *)

\* Between two runs there is no batch.
IdleInv ==
  phase = "idle" => ids = << >> /\ primes = {} /\ limit = NoBudget /\ priced = FALSE

LEMMA IdleHolds == Spec => []IdleInv
<1>1. Init => IdleInv
  BY DEF Init, IdleInv
<1>2. IdleInv /\ [Next]_vars => IdleInv'
  <2> SUFFICES ASSUME IdleInv, [Next]_vars
               PROVE  IdleInv'
    OBVIOUS
  <2>1. CASE CallRun
    BY <2>1 DEF CallRun, IdleInv
  <2>2. CASE Leave
    BY <2>2 DEF Leave, IdleInv
  <2>3. CASE Dispatcher
    BY <2>3 DEF Dispatcher, StartPriming, EndPriming, ReleaseWave, Submit, Skip, Room, EndFill,
      Wait, Collect, Refill, Close, IdleInv
  <2>4. CASE \E p \in Positions : Exec(p)
    BY <2>4 DEF Exec, Started, Produced, RateLimited, Errored, Succeeded, BackOff, Failed,
      unchangedByWorker, request, IdleInv
  <2>5. CASE UNCHANGED vars
    BY <2>5 DEF vars, request, IdleInv
  <2>6. QED
    BY <2>1, <2>2, <2>3, <2>4, <2>5 DEF Next
<1>3. QED
  BY <1>1, <1>2, PTL DEF Spec

\* The contract's state in a run with unique ids.
LEMMA StageOf ==
  ASSUME Inv, UniqueIds, NEW p \in Positions
  PROVE  /\ stageBar[p] \in Fanout!Stages
         /\ p \notin Units => stageBar[p] = "absent"
         /\ p \in Units /\ outcomes[ids[p]] # NoOutcome =>
              stageBar[p] = outcomes[ids[p]].status /\ stageBar[p] \in {"ok", "failed", "skipped"}
         /\ p \in Units /\ outcomes[ids[p]] = NoOutcome =>
              stageBar[p] = IF pc[p] = "idle" THEN "pending"
                            ELSE IF phase = "raised" THEN "lost" ELSE "running"
<1>1. p \in Units => ids[p] \in Ids
  BY UnitSets DEF Inv, Inv1
<1>2. p \in Units /\ outcomes[ids[p]] # NoOutcome =>
        outcomes[ids[p]].status \in {"ok", "failed", "skipped"}
  BY <1>1 DEF Inv, Inv1, TypeOK, Outcomes
<1>3. QED
  BY <1>2 DEF stageBar, Fanout!Stages

\* While the cache is primed one unit at most is running, a priming one.
LEMMA WhilePriming ==
  ASSUME Inv, phase = "priming"
  PROVE  /\ UniqueIds
         /\ Fanout!In("pending") \cap primes = {p \in todo \cap primes : pc[p] = "idle"}
         /\ Fanout!In("running") = {p \in todo \cap primes : pc[p] # "idle"}
<1>1. UniqueIds
  BY DEF Inv, OutcomeInv
<1>2. /\ todo \subseteq Units /\ primes \subseteq Units /\ Units \subseteq Positions
      /\ inFlight = {}
  BY UnitSets DEF Inv, Inv1, TypeOK, DispatchInv
<1>3. \A p \in Units : outcomes[ids[p]] = NoOutcome <=> p \in todo
  BY <1>1, <1>2 DEF Inv, OutcomeInv, RecordOK
<1>4. \A p \in todo : pc[p] # "idle" => p \in primes
  BY DEF Inv, Inv1, DispatchInv
<1>5. \A p \in Positions : stageBar[p] = "pending" <=> p \in todo /\ pc[p] = "idle"
  BY <1>1, <1>2, <1>3, StageOf
<1>6. \A p \in Positions : stageBar[p] = "running" <=> p \in todo /\ pc[p] # "idle"
  BY <1>1, <1>2, <1>3, StageOf
<1>7. QED
  BY <1>1, <1>2, <1>4, <1>5, <1>6 DEF Fanout!In, Fanout!Positions, Positions

\* In the wave the queue is what is pending and the pool is what is running.
LEMMA WhileFilling ==
  ASSUME Inv, phase \in {"filling", "waiting", "collecting"}
  PROVE  /\ UniqueIds
         /\ Fanout!In("pending") = todo /\ todo \cap primes = {}
         /\ Fanout!In("running") = inFlight /\ inFlight \cap primes = {}
<1>1. UniqueIds
  BY DEF Inv, OutcomeInv
<1>2. /\ todo \subseteq Units /\ inFlight \subseteq Units \ primes /\ Units \subseteq Positions
      /\ todo \cap primes = {}
  BY UnitSets DEF Inv, Inv1, TypeOK, DispatchInv
<1>3. \A p \in Units : outcomes[ids[p]] = NoOutcome <=> p \in todo \cup inFlight
  BY <1>1, <1>2 DEF Inv, OutcomeInv, RecordOK
<1>4. /\ \A p \in todo : pc[p] = "idle"
      /\ \A p \in inFlight : pc[p] # "idle"
  BY <1>2 DEF Inv, Inv1, DispatchInv
<1>5. \A p \in Positions : stageBar[p] = "pending" <=> p \in todo
  BY <1>1, <1>2, <1>3, <1>4, StageOf
<1>6. \A p \in Positions : stageBar[p] = "running" <=> p \in inFlight
  BY <1>1, <1>2, <1>3, <1>4, StageOf
<1>7. QED
  BY <1>1, <1>2, <1>5, <1>6 DEF Fanout!In, Fanout!Positions, Positions

\* A step that leaves the units, the outcomes and which workers have begun leaves the stages,
\* as long as run() does not raise.
LEMMA StagesStay ==
  ASSUME UNCHANGED <<ids, outcomes>>, phase # "raised", phase' # "raised",
         \A p \in Positions : pc'[p] = "idle" <=> pc[p] = "idle"
  PROVE  stageBar' = stageBar
<1>1. Units' = Units /\ UniqueIds' = UniqueIds
  BY DEF Units, UniqueIds
<1>2. QED
  BY <1>1 DEF stageBar

\* A step of the wave, of priming or of a worker keeps what the caller passed.
LEMMA SameRequest ==
  ASSUME UNCHANGED request
  PROVE  /\ Units' = Units /\ UniqueIds' = UniqueIds
         /\ UNCHANGED <<IF UniqueIds THEN primes ELSE {},
                        IF UniqueIds /\ priced THEN limit ELSE NoBudget>>
<1>1. Units' = Units /\ UniqueIds' = UniqueIds
  BY DEF request, Units, UniqueIds
<1>2. QED
  BY <1>1 DEF request

LEMMA BeginStep ==
  ASSUME Inv, IdleInv, Inv', CallRun
  PROVE  Fanout!Begin \/ UNCHANGED Fanout!fanoutVars
<1>1. /\ phase = "idle" /\ ids = << >> /\ primes = {} /\ limit = NoBudget /\ priced = FALSE
      /\ outcomes = [i \in Ids |-> NoOutcome] /\ outcomes' = outcomes
      /\ \A p \in Positions : pc[p] = "idle" /\ pc'[p] = "idle"
  BY DEF CallRun, IdleInv, Inv, Inv1, OutcomeInv, DispatchInv, worker
<1>2. Units = {} /\ UniqueIds
  BY <1>1 DEF Units, UniqueIds
<1>3. stageBar = [p \in Positions |-> "absent"]
  BY <1>2 DEF stageBar
<1>4. CASE ~UniqueIds'
  <2>1. phase' = "raised" /\ spent' = spent
    BY <1>4 DEF CallRun
  <2>2. stageBar' = [p \in Positions |-> "absent"]
    BY <1>4 DEF stageBar
  <2>3. QED
    BY <1>1, <1>2, <1>3, <1>4, <2>1, <2>2 DEF Fanout!fanoutVars
<1>5. CASE UniqueIds'
  <2>1. phase' = "priming" /\ spent' = 0
    BY <1>5 DEF CallRun
  <2>2. PICK n \in 0..MaxUnits : ids' \in [1..n -> Ids]
    BY DEF CallRun
  <2>3. Units' = 1..n /\ n \in Nat
    BY <2>2, OrchestratorAssumption DEF Units
  <2>4. \A p \in Units' : outcomes'[ids'[p]] = NoOutcome
    BY <1>1, <2>2, <2>3
  <2>5. \A p \in Positions : p \in Units' <=> p <= n
    BY <2>3, OrchestratorAssumption DEF Positions
  <2>6. stageBar' = [p \in Positions |-> IF p <= n THEN "pending" ELSE "absent"]
    BY <1>1, <1>5, <2>4, <2>5 DEF stageBar
  <2>7. primes' \in SUBSET (1..n) /\ limit' \in Budgets \cup {NoBudget}
    BY <2>3 DEF CallRun, Units
  <2>8. QED
    BY <1>1, <1>2, <1>3, <1>5, <2>1, <2>2, <2>6, <2>7
    DEF Fanout!Begin, Fanout!Positions, Positions
<1>6. QED
  BY <1>4, <1>5

LEMMA ClearStep ==
  ASSUME Leave
  PROVE  Fanout!Clear
<1>1. /\ ids' = << >> /\ primes' = {} /\ limit' = NoBudget /\ spent' = spent
      /\ phase \in {"returned", "raised"} /\ phase' = "idle"
  BY DEF Leave
<1>2. Units' = {} /\ UniqueIds'
  BY <1>1 DEF Units, UniqueIds
<1>3. stageBar' = [p \in Positions |-> "absent"]
  BY <1>2 DEF stageBar
<1>4. QED
  BY <1>1, <1>2, <1>3 DEF Fanout!Clear, Fanout!Positions, Positions

\* run() raises after it took its units: what was running is lost.
LEMMA AbortStep ==
  ASSUME Inv, CallbackRaises, phase \notin {"idle", "returned", "raised"}, phase' = "raised",
         UNCHANGED <<request, outcomes, pc, spent>>
  PROVE  Fanout!Abort
<1>1. UniqueIds
  BY DEF Inv, OutcomeInv
<1>2. \A p \in Positions :
        stageBar'[p] = IF stageBar[p] = "running" THEN "lost" ELSE stageBar[p]
  <2>1. SUFFICES ASSUME NEW p \in Positions
                 PROVE  stageBar'[p] = IF stageBar[p] = "running" THEN "lost" ELSE stageBar[p]
    OBVIOUS
  <2>2. /\ p \notin Units => stageBar[p] = "absent" /\ stageBar'[p] = "absent"
        /\ p \in Units /\ outcomes[ids[p]] # NoOutcome =>
             stageBar[p] # "running" /\ stageBar'[p] = stageBar[p]
        /\ p \in Units /\ outcomes[ids[p]] = NoOutcome =>
             /\ stageBar[p] = IF pc[p] = "idle" THEN "pending" ELSE "running"
             /\ stageBar'[p] = IF pc[p] = "idle" THEN "pending" ELSE "lost"
    BY <1>1, StageOf, SameRequest DEF stageBar, request
  <2>3. QED
    BY <2>2
<1>3. stageBar' = [p \in Positions |-> IF stageBar[p] = "running" THEN "lost" ELSE stageBar[p]]
  BY <1>2 DEF stageBar
<1>4. QED
  BY <1>3, SameRequest DEF Fanout!Abort, Fanout!Positions, Positions

\* The step records o for the unit p, or moves p to the stage s, and touches no other unit.
Recorded(p, o) == outcomes' = [outcomes EXCEPT ![ids[p]] = o]
Staged(p, s) == stageBar' = [stageBar EXCEPT ![p] = s]

LEMMA StagedOne ==
  ASSUME NEW p \in Positions, NEW s,
         \A q \in Positions : stageBar'[q] = IF q = p THEN s ELSE stageBar[q]
  PROVE  Staged(p, s)
<1>1. /\ stageBar = [q \in Positions |-> stageBar[q]]
      /\ stageBar' = [q \in Positions |-> stageBar'[q]]
  BY DEF stageBar
<1>2. QED
  BY <1>1 DEF Staged

\* An outcome on record settles or skips its unit and no other.
LEMMA StageRecorded ==
  ASSUME Inv, UniqueIds, NEW p \in Units, outcomes[ids[p]] = NoOutcome, NEW o, o # NoOutcome,
         Recorded(p, o), ids' = ids, pc' = pc, phase # "raised", phase' # "raised"
  PROVE  Staged(p, o.status)
<1>1. Units' = Units /\ UniqueIds' /\ p \in Positions
  BY UnitSets DEF Units, UniqueIds, Inv, Inv1
<1>2. /\ outcomes'[ids[p]] = o
      /\ \A q \in Units : q # p => outcomes'[ids[q]] = outcomes[ids[q]]
  BY RecordOne DEF Inv, Inv1, Recorded
<1>3. \A q \in Positions : stageBar'[q] = IF q = p THEN o.status ELSE stageBar[q]
  BY <1>1, <1>2 DEF stageBar
<1>4. QED
  BY <1>1, <1>3, StagedOne


LEMMA StartPrimingStep ==
  ASSUME Inv, StartPriming
  PROVE  \/ \E p \in Positions : Fanout!AdmitPrimer(p)
         \/ Fanout!Abort
<1>1. PICK p \in todo \cap primes :
        /\ p = FirstOf(todo \cap primes) /\ pc[p] = "idle"
        /\ \/ pc' = [pc EXCEPT ![p] = "starting"] /\ UNCHANGED phase
           \/ CallbackRaises /\ phase' = "raised" /\ UNCHANGED pc
  BY DEF StartPriming
<1>2. phase = "priming" /\ UNCHANGED <<request, todo, inFlight, batch, outcomes, spent, burned>>
  BY DEF StartPriming
<1>3. CASE CallbackRaises /\ phase' = "raised" /\ UNCHANGED pc
  BY <1>2, <1>3, AbortStep
<1>4. CASE pc' = [pc EXCEPT ![p] = "starting"] /\ UNCHANGED phase
  <2>1. /\ UniqueIds
        /\ Fanout!In("pending") \cap primes = {q \in todo \cap primes : pc[q] = "idle"}
        /\ Fanout!In("running") = {q \in todo \cap primes : pc[q] # "idle"}
    BY <1>2, WhilePriming
  <2>2. \A q \in todo \cap primes : pc[q] = "idle"
    BY <1>1 DEF Inv, Inv1, DispatchInv
  <2>3. Fanout!In("pending") \cap primes = todo \cap primes /\ Fanout!In("running") = {}
    BY <2>1, <2>2
  <2>4. \A q \in todo \cap primes : p <= q
    BY <1>1, UnitSets, FirstOfLeast DEF Inv, Inv1, TypeOK
  <2>5. p \in Units /\ p \in Positions /\ outcomes[ids[p]] = NoOutcome
    BY <1>1, <2>1, UnitSets DEF Inv, Inv1, TypeOK, OutcomeInv, RecordOK
  <2>6. Staged(p, "running")
    <3>1. /\ pc'[p] = "starting" /\ \A q \in Positions : q # p => pc'[q] = pc[q]
          /\ Units' = Units /\ UniqueIds' /\ outcomes' = outcomes /\ ids' = ids /\ phase' = phase
      BY <1>2, <1>4, <2>1, <2>5, SameRequest DEF Inv, Inv1, TypeOK, request
    <3>2. \A q \in Positions : stageBar'[q] = IF q = p THEN "running" ELSE stageBar[q]
      BY <1>2, <2>1, <2>5, <3>1 DEF stageBar
    <3>3. QED
      BY <2>5, <3>2, StagedOne
  <2>7. Fanout!IsNext(p) /\ p \in IF UniqueIds THEN primes ELSE {}
    BY <1>1, <2>1, <2>3, <2>4 DEF Fanout!IsNext
  <2>8. Fanout!AdmitPrimer(p)
    BY <1>2, <1>4, <2>3, <2>6, <2>7, SameRequest DEF Fanout!AdmitPrimer, Staged
  <2>9. QED
    BY <2>5, <2>8
<1>5. QED
  BY <1>1, <1>3, <1>4

\* The price of a unit is within bounds.
LEMMA ChargeInBounds ==
  ASSUME Inv, NEW p \in Units
  PROVE  Charge(p) \in 0..MaxUnitCost
BY UnitSets, MaxUnitCostNat DEF Inv, Inv1, TypeOK, Charge


\* A finished unit is settled at its own price.
LEMMA SettleStep ==
  ASSUME Inv, phase \in {"priming", "collecting"}, phase' = phase, NEW p \in Units,
         outcomes[ids[p]] = NoOutcome, pc[p] \in {"ok", "failed"},
         outcomes' = [outcomes EXCEPT ![ids[p]] = Outcome(p, pc[p], burned[p])],
         spent' = spent + Charge(p), UNCHANGED <<request, pc>>
  PROVE  p \in Positions /\ Fanout!Settle(p)
<1>1. UniqueIds /\ p \in Positions
  BY UnitSets DEF Inv, Inv1, OutcomeInv
<1>2. Outcome(p, pc[p], burned[p]) \in Outcomes /\ Outcome(p, pc[p], burned[p]).status = pc[p]
  BY <1>1 DEF Inv, Inv1, TypeOK, Outcome, Outcomes
<1>3. Outcome(p, pc[p], burned[p]) # NoOutcome
  BY <1>2, OrchestratorAssumption
<1> DEFINE o == Outcome(p, pc[p], burned[p])
<1>4. o # NoOutcome /\ Recorded(p, o) /\ o.status = pc[p]
  BY <1>2, <1>3 DEF Recorded
<1> HIDE DEF o
<1>5. Staged(p, pc[p])
  <2>1. ids' = ids /\ pc' = pc /\ phase # "raised" /\ phase' # "raised"
    BY DEF request
  <2>2. Staged(p, o.status)
    BY <1>1, <1>4, <2>1, StageRecorded
  <2>3. QED
    BY <1>4, <2>2
<1>6. stageBar[p] = "running"
  BY <1>1, StageOf
<1>7. Charge(p) \in 0..MaxUnitCost
  BY ChargeInBounds
<1>8. QED
  BY <1>1, <1>5, <1>6, <1>7, SameRequest DEF Fanout!Settle, Staged

LEMMA EndPrimingStep ==
  ASSUME Inv, CalmInv, EndPriming
  PROVE  \/ \E p \in Positions : Fanout!Settle(p)
         \/ Fanout!Abort
<1>1. PICK p \in todo \cap primes :
        \/ /\ pc[p] \in {"ok", "failed"}
           /\ outcomes' = [outcomes EXCEPT ![ids[p]] = Outcome(p, pc[p], burned[p])]
           /\ spent' = spent + Charge(p)
           /\ UNCHANGED phase
        \/ /\ pc[p] = "raised"
           /\ phase' = "raised"
           /\ UNCHANGED <<outcomes, spent>>
  BY DEF EndPriming
<1>2. phase = "priming" /\ UNCHANGED <<request, pc>>
  BY DEF EndPriming, worker
<1>3. p \in Units /\ p \in Positions /\ outcomes[ids[p]] = NoOutcome
  BY <1>2, UnitSets DEF Inv, Inv1, TypeOK, OutcomeInv, RecordOK
<1>4. CASE pc[p] = "raised" /\ phase' = "raised" /\ UNCHANGED <<outcomes, spent>>
  BY <1>2, <1>3, <1>4, AbortStep DEF CalmInv
<1>5. CASE /\ pc[p] \in {"ok", "failed"}
           /\ outcomes' = [outcomes EXCEPT ![ids[p]] = Outcome(p, pc[p], burned[p])]
           /\ spent' = spent + Charge(p)
           /\ UNCHANGED phase
  BY <1>2, <1>3, <1>5, SettleStep
<1>6. QED
  BY <1>1, <1>4, <1>5

\* The head of the queue is next in the contract's order.
LEMMA HeadIsNext ==
  ASSUME Inv, Room
  PROVE  /\ FirstOf(todo) \in todo /\ FirstOf(todo) \in Units /\ FirstOf(todo) \in Positions
         /\ FirstOf(todo) \notin primes /\ outcomes[ids[FirstOf(todo)]] = NoOutcome
         /\ Fanout!IsNext(FirstOf(todo))
         /\ UniqueIds /\ Fanout!In("running") = inFlight /\ inFlight \cap primes = {}
         /\ Cardinality(inFlight) < Concurrency
<1>1. /\ phase = "filling" /\ todo # {} /\ todo \subseteq Units /\ Units \subseteq Positions
      /\ Positions \subseteq Nat /\ Cardinality(inFlight) < Concurrency
  BY UnitSets DEF Room, Inv, Inv1, TypeOK
<1>2. /\ UniqueIds
      /\ Fanout!In("pending") = todo /\ todo \cap primes = {}
      /\ Fanout!In("running") = inFlight /\ inFlight \cap primes = {}
  BY <1>1, WhileFilling
<1>3. FirstOf(todo) \in todo /\ \A q \in todo : FirstOf(todo) <= q
  BY <1>1, FirstOfLeast
<1>4. Fanout!IsNext(FirstOf(todo))
  BY <1>2, <1>3 DEF Fanout!IsNext
<1>5. outcomes[ids[FirstOf(todo)]] = NoOutcome
  BY <1>1, <1>2, <1>3 DEF Inv, OutcomeInv, RecordOK
<1>6. QED
  BY <1>1, <1>2, <1>3, <1>4, <1>5

\* _over_budget is the contract's cap.
LEMMA CapIs ==
  ASSUME UniqueIds
  PROVE  Fanout!CapReached <=> OverBudget
BY DEF Fanout!CapReached, OverBudget

LEMMA SubmitStep ==
  ASSUME Inv, Submit
  PROVE  \E p \in Positions : Fanout!Admit(p)
<1>1. PICK p : p = FirstOf(todo)
  OBVIOUS
<1>2. /\ p \in todo /\ p \in Units /\ p \in Positions /\ p \notin primes
      /\ outcomes[ids[p]] = NoOutcome /\ Fanout!IsNext(p)
      /\ UniqueIds /\ Fanout!In("running") = inFlight /\ inFlight \cap primes = {}
      /\ Cardinality(inFlight) < Concurrency
  BY <1>1, HeadIsNext DEF Submit
<1>3. /\ phase = "filling" /\ ~OverBudget /\ UNCHANGED <<phase, request, outcomes, spent>>
      /\ pc' = [pc EXCEPT ![p] = "starting"]
  BY <1>1 DEF Submit, Room
<1>4. Staged(p, "running")
  <2>1. /\ pc'[p] = "starting" /\ \A q \in Positions : q # p => pc'[q] = pc[q]
        /\ Units' = Units /\ UniqueIds' /\ ids' = ids
    BY <1>2, <1>3, SameRequest DEF Inv, Inv1, TypeOK, request
  <2>2. \A q \in Positions : stageBar'[q] = IF q = p THEN "running" ELSE stageBar[q]
    BY <1>2, <1>3, <2>1 DEF stageBar
  <2>3. QED
    BY <1>2, <2>2, StagedOne
<1>5. ~Fanout!CapReached
  BY <1>2, <1>3, CapIs
<1>6. Fanout!Cardinality(inFlight) = Cardinality(inFlight)
  BY DEF Fanout!Cardinality, Cardinality
<1>7. Fanout!Admit(p)
  BY <1>2, <1>3, <1>4, <1>5, <1>6, SameRequest DEF Fanout!Admit, Staged
<1>8. QED
  BY <1>2, <1>7

LEMMA SkipStep ==
  ASSUME Inv, Skip
  PROVE  \E p \in Positions : Fanout!Skip(p)
<1>1. PICK p : p = FirstOf(todo)
  OBVIOUS
<1>2. /\ p \in todo /\ p \in Units /\ p \in Positions /\ p \notin primes
      /\ outcomes[ids[p]] = NoOutcome /\ Fanout!IsNext(p)
      /\ UniqueIds /\ Fanout!In("running") = inFlight /\ inFlight \cap primes = {}
  BY <1>1, HeadIsNext DEF Skip
<1>3. /\ phase = "filling" /\ OverBudget /\ phase' \in {"filling", "closing"}
      /\ UNCHANGED <<request, pc, spent>>
      /\ outcomes' = [outcomes EXCEPT ![ids[p]] = Outcome(p, "skipped", 0)]
  BY <1>1 DEF Skip, Room, worker
<1> DEFINE o == Outcome(p, "skipped", 0)
<1>4. o \in Outcomes /\ o.status = "skipped"
  BY <1>2, MaxUnitCostNat DEF Outcome, Outcomes
<1>5. o # NoOutcome /\ Recorded(p, o)
  BY <1>3, <1>4, OrchestratorAssumption DEF Recorded
<1> HIDE DEF o
<1>6. Staged(p, "skipped")
  <2>1. ids' = ids /\ pc' = pc /\ phase # "raised" /\ phase' # "raised"
    BY <1>3 DEF request
  <2>2. Staged(p, o.status)
    BY <1>2, <1>5, <2>1, StageRecorded
  <2>3. QED
    BY <1>4, <2>2
<1>7. Fanout!CapReached
  BY <1>2, <1>3, CapIs
<1>8. Fanout!Skip(p)
  BY <1>2, <1>3, <1>6, <1>7, SameRequest DEF Fanout!Skip, Staged
<1>9. QED
  BY <1>2, <1>8

LEMMA CollectStep ==
  ASSUME Inv, Collect
  PROVE  \/ \E p \in Positions : Fanout!Settle(p)
         \/ UNCHANGED Fanout!fanoutVars
<1>1. PICK p \in batch :
        \/ /\ pc[p] # "raised"
           /\ outcomes' = [outcomes EXCEPT ![ids[p]] = Outcome(p, pc[p], burned[p])]
           /\ spent' = spent + Charge(p)
           /\ UNCHANGED phase
        \/ /\ pc[p] = "raised"
           /\ phase' = "closing"
           /\ UNCHANGED <<outcomes, spent>>
  BY DEF Collect
<1>2. phase = "collecting" /\ UNCHANGED <<request, pc>>
  BY DEF Collect, worker
<1>3. /\ p \in inFlight /\ p \in Units /\ UniqueIds /\ outcomes[ids[p]] = NoOutcome
      /\ pc[p] \in Finished
  BY <1>2 DEF Inv, Inv1, TypeOK, DispatchInv, OutcomeInv, RecordOK
<1>4. CASE /\ pc[p] # "raised"
           /\ outcomes' = [outcomes EXCEPT ![ids[p]] = Outcome(p, pc[p], burned[p])]
           /\ spent' = spent + Charge(p)
           /\ UNCHANGED phase
  BY <1>2, <1>3, <1>4, SettleStep DEF Finished
<1>5. CASE phase' = "closing" /\ UNCHANGED <<outcomes, spent>>
  BY <1>2, <1>5, StagesStay, SameRequest DEF request, Fanout!fanoutVars
<1>6. QED
  BY <1>1, <1>4, <1>5

LEMMA EndFillStep ==
  ASSUME Inv, EndFill
  PROVE  Fanout!End \/ UNCHANGED Fanout!fanoutVars
<1>1. /\ phase = "filling" /\ ~Room /\ UNCHANGED <<request, outcomes, pc, spent>>
      /\ phase' = IF inFlight = {} THEN "returned" ELSE "waiting"
  BY DEF EndFill, worker
<1>2. stageBar' = stageBar
  BY <1>1, StagesStay DEF request
<1>3. CASE inFlight = {}
  <2>1. Cardinality(inFlight) < Concurrency
    BY <1>3, FS_EmptySet, OrchestratorAssumption
  <2>2. todo = {}
    BY <1>1, <2>1 DEF Room
  <2>3. Fanout!In("pending") \cup Fanout!In("running") = {}
    BY <1>1, <1>3, <2>2, WhileFilling
  <2>4. QED
    BY <1>1, <1>2, <1>3, <2>3, SameRequest DEF Fanout!End
<1>4. CASE inFlight # {}
  BY <1>1, <1>2, <1>4, SameRequest DEF Fanout!fanoutVars
<1>5. QED
  BY <1>3, <1>4

\* What a worker does is not seen by the caller.
LEMMA ExecStep ==
  ASSUME Inv, NEW p \in Positions, Exec(p)
  PROVE  UNCHANGED Fanout!fanoutVars
<1>1. UNCHANGED <<phase, request, outcomes, spent>>
  BY DEF Exec, Started, Produced, RateLimited, Errored, Succeeded, BackOff, Failed,
    unchangedByWorker
<1>2. \A q \in Positions : pc'[q] = "idle" <=> pc[q] = "idle"
  BY DEF Exec, Started, Produced, RateLimited, Errored, Succeeded, BackOff, Failed, Emit,
    Inv, Inv1, TypeOK
<1>3. stageBar' = stageBar
  BY <1>1, <1>2, SameRequest DEF stageBar, request
<1>4. QED
  BY <1>1, <1>3, SameRequest DEF Fanout!fanoutVars

\* The threaded dispatcher keeps the contract: a step of run() admits, skips or settles one unit,
\* begins, ends or breaks off the batch, or is not seen by the caller.
THEOREM FanoutImplemented == Spec => ImplementsFanout
<1>1. Init => Fanout!Init
  <2> SUFFICES ASSUME Init
               PROVE  Fanout!Init
    OBVIOUS
  <2>1. Units = {} /\ UniqueIds
    BY DEF Init, Units, UniqueIds
  <2>2. stageBar = [p \in Positions |-> "absent"]
    BY <2>1 DEF stageBar
  <2>3. QED
    BY <2>1, <2>2 DEF Init, Fanout!Init, Fanout!Positions, Positions
<1>2. Inv /\ CalmInv /\ IdleInv /\ Inv' /\ [Next]_vars => [Fanout!Next]_(Fanout!fanoutVars)
  <2> SUFFICES ASSUME Inv, CalmInv, IdleInv, Inv', [Next]_vars
               PROVE  Fanout!Next \/ UNCHANGED Fanout!fanoutVars
    OBVIOUS
  <2>0. Fanout!Positions = Positions
    BY DEF Fanout!Positions, Positions
  <2>1. CASE CallRun
    BY <2>1, BeginStep DEF Fanout!Next
  <2>2. CASE Leave
    BY <2>2, ClearStep DEF Fanout!Next
  <2>3. CASE StartPriming
    BY <2>0, <2>3, StartPrimingStep DEF Fanout!Next
  <2>4. CASE EndPriming
    BY <2>0, <2>4, EndPrimingStep DEF Fanout!Next
  <2>5. CASE ReleaseWave \/ Wait \/ Refill
    <3>1. /\ UNCHANGED <<request, outcomes, spent, pc>>
          /\ phase \in {"priming", "waiting", "collecting"}
          /\ phase' \in {"filling", "collecting"}
      BY <2>5 DEF ReleaseWave, Wait, Refill, worker
    <3>2. QED
      BY <3>1, StagesStay, SameRequest DEF request, Fanout!fanoutVars
  <2>6. CASE Submit
    BY <2>0, <2>6, SubmitStep DEF Fanout!Next
  <2>7. CASE Skip
    BY <2>0, <2>7, SkipStep DEF Fanout!Next
  <2>8. CASE EndFill
    BY <2>8, EndFillStep DEF Fanout!Next
  <2>9. CASE Collect
    BY <2>0, <2>9, CollectStep DEF Fanout!Next
  <2>10. CASE Close
    <3>1. phase = "closing" /\ phase' = "raised" /\ UNCHANGED <<request, outcomes, pc, spent>>
      BY <2>10 DEF Close, worker
    <3>2. QED
      BY <3>1, AbortStep DEF CalmInv, Fanout!Next
  <2>11. CASE \E p \in Positions : Exec(p)
    BY <2>11, ExecStep
  <2>12. CASE UNCHANGED vars
    BY <2>12, SameRequest DEF vars, worker, request, stageBar, Fanout!fanoutVars
  <2>13. QED
    BY <2>1, <2>2, <2>3, <2>4, <2>5, <2>6, <2>7, <2>8, <2>9, <2>10, <2>11, <2>12
    DEF Next, Dispatcher
<1>3. QED
  BY <1>1, <1>2, InvHolds, CalmHolds, IdleHolds, PTL DEF Spec, ImplementsFanout, Fanout!Spec
=============================================================================
