--------------------------- MODULE OptimizerProofs ---------------------------
(***************************************************************************)
(* Proofs about Optimizer, for any dev set, any proposals, any number of   *)
(* trials and rounds, and any prices.                                      *)
(***************************************************************************)
EXTENDS Optimizer, Integers, FiniteSetTheorems, TLAPS

-----------------------------------------------------------------------------
(* Finite orders: what the median of a list rests on                       *)

\* An order on S is given by the predecessors pred[t] of each element t.
StrictOrder(S, pred) ==
  /\ pred \in [S -> SUBSET S]
  /\ \A t \in S : t \notin pred[t]
  /\ \A t, u \in S : t # u => t \in pred[u] \/ u \in pred[t]
  /\ \A t, u, v \in S : t \in pred[u] /\ u \in pred[v] => t \in pred[v]

LEMMA IntervalSize ==
  ASSUME NEW n \in Nat
  PROVE  /\ IsFiniteSet(1..n) /\ Cardinality(1..n) = n
         /\ IsFiniteSet(0..(n - 1)) /\ Cardinality(0..(n - 1)) = n
<1>1. 0 \in Int /\ 1 \in Int /\ n \in Int /\ n - 1 \in Int
  OBVIOUS
<1>2. IsFiniteSet(1..n) /\ Cardinality(1..n) = IF 1 > n THEN 0 ELSE n - 1 + 1
  BY <1>1, FS_Interval
<1>3. /\ IsFiniteSet(0..(n - 1))
      /\ Cardinality(0..(n - 1)) = IF 0 > n - 1 THEN 0 ELSE (n - 1) - 0 + 1
  BY <1>1, FS_Interval
<1>4. Cardinality(1..n) = n
  BY <1>2
<1>5. Cardinality(0..(n - 1)) = n
  BY <1>3
<1>6. QED
  BY <1>2, <1>3, <1>4, <1>5

\* No two elements have the same number of predecessors.
LEMMA RanksDiffer ==
  ASSUME NEW S, IsFiniteSet(S), NEW pred, StrictOrder(S, pred)
  PROVE  /\ \A t \in S : IsFiniteSet(pred[t]) /\ Cardinality(pred[t]) \in Nat
         /\ \A t \in S : Cardinality(pred[t]) < Cardinality(S)
         /\ \A t, u \in S : Cardinality(pred[t]) = Cardinality(pred[u]) => t = u
<1>1. Cardinality(S) \in Nat
  BY FS_CardinalityType
<1>2. ASSUME NEW t \in S
      PROVE  IsFiniteSet(pred[t]) /\ Cardinality(pred[t]) \in Nat
  BY FS_Subset, FS_CardinalityType DEF StrictOrder
<1>3. ASSUME NEW t \in S
      PROVE  Cardinality(pred[t]) < Cardinality(S)
  <2>1. pred[t] \in SUBSET S /\ pred[t] # S
    BY DEF StrictOrder
  <2>2. Cardinality(pred[t]) <= Cardinality(S) /\ Cardinality(pred[t]) # Cardinality(S)
    BY <2>1, FS_Subset
  <2>3. QED
    BY <1>1, <1>2, <2>2
<1>4. ASSUME NEW t \in S, NEW u \in S, t \in pred[u]
      PROVE  Cardinality(pred[t]) < Cardinality(pred[u])
  <2>1. pred[t] \in SUBSET pred[u] /\ t \notin pred[t]
    BY <1>4 DEF StrictOrder
  <2>2. /\ Cardinality(pred[t]) <= Cardinality(pred[u])
        /\ Cardinality(pred[t]) = Cardinality(pred[u]) => pred[t] = pred[u]
    BY <1>2, <2>1, FS_Subset
  <2>3. pred[t] # pred[u]
    BY <1>4, <2>1
  <2>4. QED
    BY <1>2, <2>2, <2>3
<1>5. ASSUME NEW t \in S, NEW u \in S, t # u
      PROVE  Cardinality(pred[t]) # Cardinality(pred[u])
  <2>1. Cardinality(pred[t]) \in Nat /\ Cardinality(pred[u]) \in Nat
    BY <1>2
  <2>2. t \in pred[u] \/ u \in pred[t]
    BY <1>5 DEF StrictOrder
  <2>3. QED
    BY <1>4, <2>1, <2>2
<1>6. QED
  BY <1>2, <1>3, <1>5

\* There is an element with k predecessors for each k less than the size of the order: the
\* ranks are an injection between sets of one size, hence onto.
LEMMA EveryRank ==
  ASSUME NEW S, IsFiniteSet(S), NEW pred, StrictOrder(S, pred),
         NEW k \in Nat, k < Cardinality(S)
  PROVE  \E t \in S : Cardinality(pred[t]) = k
<1> DEFINE n    == Cardinality(S)
           rank == [t \in S |-> Cardinality(pred[t])]
<1>1. n \in Nat
  BY FS_CardinalityType
<1>2. rank \in [S -> 0..(n - 1)]
  <2>1. ASSUME NEW t \in S
        PROVE  Cardinality(pred[t]) \in 0..(n - 1)
    <3>1. Cardinality(pred[t]) \in Nat /\ Cardinality(pred[t]) < n
      BY RanksDiffer
    <3> HIDE DEF n
    <3>2. QED
      BY <1>1, <3>1
  <2>2. QED
    BY <2>1
<1>3. \A t, u \in S : rank[t] = rank[u] => t = u
  BY RanksDiffer
<1>4. IsFiniteSet(0..(n - 1)) /\ Cardinality(0..(n - 1)) = n
  <2> HIDE DEF n
  <2>1. QED
    BY <1>1, IntervalSize
<1>5. rank \in Injection(S, 0..(n - 1))
  <2> HIDE DEF rank, n
  <2>1. QED
    BY <1>2, <1>3 DEF Injection, IsInjective
<1>6. rank \in Surjection(S, 0..(n - 1))
  <2> HIDE DEF rank
  <2>1. QED
    BY <1>4, <1>5, FS_Injection
<1>7. PICK t \in S : rank[t] = k
  <2>1. k \in 0..(n - 1)
    <3>1. k < n
      OBVIOUS
    <3> HIDE DEF n
    <3>2. QED
      BY <1>1, <3>1
  <2> HIDE DEF rank, n
  <2>2. QED
    BY <1>6, <2>1 DEF Surjection
<1>8. QED
  BY <1>7

-----------------------------------------------------------------------------
(* The inductive invariant                                                 *)

\* The edit on trial can be put back: its snapshot is what the picked version says.
UndoInv ==
  snapshot # NoSnapshot =>
    /\ frontier # << >>
    /\ snapshot.prior = TextOf(frontier[Len(frontier)].tree[snapshot.file])

\* Inside a round there is a round left, one version was kept per round, the best one does
\* not meet the target, and the edit on trial is the head of the report.
RoundInv ==
  /\ phase = "baseline" => rounds = 0
  /\ phase \in {"deciding", "coaching", "proposing", "trying"} => Len(frontier) = rounds + 1
  /\ phase \in {"coaching", "proposing", "trying"} => rounds < MaxRounds /\ ~TargetMet
  /\ phase = "trying" => report # << >>

\* What the loop has let itself in for is covered: the Coach call, or what is left of the
\* batch of trials.
PriceInv ==
  /\ phase = "baseline" => spent = 0
  /\ options.budget # NoBudget /\ MaxEvalCost <= EvalEstimate =>
       /\ phase = "coaching" => spent + CoachEstimate <= options.budget
       /\ phase = "trying" =>
            spent + EvalEstimate * (options.trials - Len(trials)) <= options.budget

Inv == /\ TypeOK /\ UndoInv /\ RoundInv /\ PriceInv
       /\ WorkingTreeIsPicked /\ FrontierClimbs /\ LoopStaysInBudget /\ StopReasonIsTrue

LEMMA OptionsType ==
  ASSUME TypeOK
  PROVE  /\ options.target \in Nat /\ options.minGain \in Int
         /\ options.trials \in Nat \ {0} /\ options.budget \in Nat \cup {NoBudget}
         /\ options.scoreTest \in BOOLEAN
         /\ rounds \in Nat /\ rounds <= MaxRounds /\ MaxRounds \in Nat /\ spent \in Nat
         /\ {CoachEstimate, EvalEstimate, MaxCoachCost, MaxEvalCost, MaxProposals} \subseteq Nat
<1>1. options \in Options
  BY DEF TypeOK
<1>2. /\ options.target \in Nat /\ options.minGain \in Int
      /\ options.trials \in Nat \ {0} /\ options.budget \in Nat \cup {NoBudget}
      /\ options.scoreTest \in BOOLEAN
  BY <1>1 DEF Options
<1>3. QED
  BY <1>2, OptimizerAssumption DEF TypeOK

LEMMA InvInit == Init => Inv
<1> SUFFICES ASSUME Init PROVE Inv
  OBVIOUS
<1>1. TypeOK
  <2>1. options \in Options /\ options.trials \in Nat
    BY OptimizerAssumption DEF Init, Options
  <2>2. frontier \in Seq([run : Runs, tree : [Files -> Contents]])
        /\ report \in Seq(Proposals) /\ trials \in Seq(Runs)
    BY DEF Init
  <2>3. Len(report) <= MaxProposals /\ Len(trials) <= options.trials /\ rounds \in 0..MaxRounds
    BY <2>1, OptimizerAssumption DEF Init
  <2>4. QED
    BY <2>1, <2>2, <2>3 DEF Init, TypeOK, Phases, Reasons
<1>2. UndoInv /\ RoundInv /\ PriceInv
  BY DEF Init, UndoInv, RoundInv, PriceInv
<1>3. WorkingTreeIsPicked /\ LoopStaysInBudget /\ StopReasonIsTrue
  BY DEF Init, WorkingTreeIsPicked, LoopStaysInBudget, StopReasonIsTrue
<1>4. FrontierClimbs
  BY DEF Init, FrontierClimbs
<1>5. QED
  BY <1>1, <1>2, <1>3, <1>4 DEF Inv

-----------------------------------------------------------------------------
(* The median                                                              *)

LEMMA LastOf ==
  ASSUME NEW S, NEW s \in Seq(S), s # << >>
  PROVE  s[Len(s)] \in S
OBVIOUS

\* What a run gains is what it answers more.
LEMMA GainIsDifference ==
  ASSUME TypeOK, frontier # << >>, NEW run \in Runs
  PROVE  /\ Cardinality(run.correct) \in Nat /\ Cardinality(Best.correct) \in Nat
         /\ NetGain(run) = Cardinality(run.correct) - Cardinality(Best.correct)
<1> DEFINE A == run.correct
           B == Best.correct
<1>1. A \in SUBSET Questions /\ B \in SUBSET Questions
  <2>1. run.correct \in SUBSET Questions
    BY DEF Runs
  <2>2. frontier[Len(frontier)] \in [run : Runs, tree : [Files -> Contents]]
    BY LastOf DEF TypeOK
  <2>3. Best \in Runs
    BY <2>2 DEF Best
  <2>4. QED
    BY <2>1, <2>3 DEF Runs
<1>2. IsFiniteSet(A) /\ IsFiniteSet(B)
  BY <1>1, OptimizerAssumption, FS_Subset
<1> HIDE DEF A, B
<1>3. /\ Cardinality(A \ B) = Cardinality(A) - Cardinality(A \cap B)
      /\ Cardinality(B \ A) = Cardinality(B) - Cardinality(A \cap B)
  <2>1. /\ Cardinality(A \ B) = Cardinality(A) - Cardinality(A \cap B)
        /\ Cardinality(B \ A) = Cardinality(B) - Cardinality(B \cap A)
    BY <1>2, FS_Difference
  <2>2. B \cap A = A \cap B
    OBVIOUS
  <2>3. QED
    BY <2>1, <2>2
<1>4. /\ Cardinality(A) \in Nat /\ Cardinality(B) \in Nat /\ Cardinality(A \cap B) \in Nat
  BY <1>2, FS_CardinalityType, FS_Intersection
<1>5. NetGain(run) = Cardinality(A \ B) - Cardinality(B \ A)
  BY DEF A, B, NetGain, Fixed, Broke
<1>6. NetGain(run) = Cardinality(A) - Cardinality(B)
  BY <1>3, <1>4, <1>5
<1>7. QED
  BY <1>4, <1>6 DEF A, B

\* The sort is stable, so that there is one median.
LEMMA TrialOrder ==
  ASSUME TypeOK, frontier # << >>
  PROVE  /\ \A i \in DOMAIN trials : trials[i] \in Runs /\ NetGain(trials[i]) \in Int
         /\ \A i \in DOMAIN trials : ~Before(i, i)
         /\ \A i, j \in DOMAIN trials : i # j => Before(i, j) \/ Before(j, i)
         /\ \A i, j, k \in DOMAIN trials : Before(i, j) /\ Before(j, k) => Before(i, k)
<1>1. trials \in Seq(Runs) /\ DOMAIN trials \subseteq Nat
  BY DEF TypeOK
<1>2. ASSUME NEW i \in DOMAIN trials
      PROVE  trials[i] \in Runs /\ NetGain(trials[i]) \in Int
  <2>1. trials[i] \in Runs
    BY <1>1
  <2>2. QED
    BY <2>1, GainIsDifference
<1>3. QED
  BY <1>1, <1>2 DEF Before

\* The median of a batch has half of it before it.
LEMMA MedianIsMiddle ==
  ASSUME TypeOK, frontier # << >>, trials # << >>
  PROVE  /\ Median \in DOMAIN trials
         /\ Cardinality({j \in DOMAIN trials : Before(j, Median)}) = Len(trials) \div 2
<1> DEFINE S    == DOMAIN trials
           n    == Len(trials)
           k    == n \div 2
           pred == [i \in S |-> {j \in S : Before(j, i)}]
<1>1. n \in Nat /\ n # 0 /\ S = 1..n
  BY DEF TypeOK
<1>2. k \in Nat /\ k < n
  <2> HIDE DEF n
  <2>1. QED
    BY <1>1
<1>3. IsFiniteSet(S) /\ Cardinality(S) = n
  <2> HIDE DEF n, S
  <2>1. QED
    BY <1>1, IntervalSize
<1>4. /\ pred \in [S -> SUBSET S]
      /\ \A i, j \in S : j \in pred[i] <=> Before(j, i)
  OBVIOUS
<1>5. StrictOrder(S, pred)
  <2> HIDE DEF pred
  <2>1. QED
    BY <1>4, TrialOrder DEF StrictOrder
<1>6. PICK i \in S : Cardinality(pred[i]) = k
  <2> HIDE DEF pred, k, n, S
  <2>1. k < Cardinality(S)
    BY <1>2, <1>3
  <2>2. QED
    BY <1>2, <1>3, <1>4, <1>5, <2>1, EveryRank
<1>7. \E m \in DOMAIN trials :
        Cardinality({j \in DOMAIN trials : Before(j, m)}) = Len(trials) \div 2
  BY <1>6
<1>8. QED
  BY <1>7 DEF Median

\* The majority and the median agree: two sets of trials that are together more than all
\* of them meet in one that gains enough and no more than the median.
LEMMA KeptGains ==
  ASSUME TypeOK, frontier # << >>, trials # << >>, Keep
  PROVE  /\ trials[Median] \in Runs
         /\ NetGain(trials[Median]) >= options.minGain
<1> DEFINE S     == DOMAIN trials
           n     == Len(trials)
           votes == {i \in S : NetGain(trials[i]) >= options.minGain}
           P     == {j \in S : Before(j, Median)}
           T     == P \cup {Median}
<1>1. n \in Nat /\ S = 1..n
  BY DEF TypeOK
<1>2. IsFiniteSet(S) /\ Cardinality(S) = n
  <2> HIDE DEF n, S
  <2>1. QED
    BY <1>1, IntervalSize
<1>3. Median \in S /\ Cardinality(P) = n \div 2 /\ Median \notin P
  BY MedianIsMiddle, TrialOrder
<1>4. 2 * Cardinality(votes) > n
  BY DEF Keep
<1>5. votes \subseteq S /\ P \subseteq S /\ T \subseteq S
  BY <1>3
<1>6. T \cap votes # {}
  <2> HIDE DEF votes, P, n, S
  <2>1. IsFiniteSet(P) /\ IsFiniteSet(votes) /\ Cardinality(votes) \in Nat
    BY <1>2, <1>5, FS_Subset, FS_CardinalityType
  <2>2. Cardinality(T) = Cardinality(P) + 1
    BY <1>3, <2>1, FS_AddElement
  <2> HIDE DEF T
  <2>3. Cardinality(T) + Cardinality(votes) > n
    <3> DEFINE v == Cardinality(votes)
    <3>1. v \in Nat /\ 2 * v > n
      BY <1>4, <2>1
    <3> HIDE DEF v
    <3>2. (n \div 2 + 1) + v > n
      BY <1>1, <3>1
    <3>3. QED
      BY <1>3, <2>2, <3>2 DEF v
  <2>4. Cardinality(T) + Cardinality(votes) > Cardinality(S)
    BY <1>2, <2>3
  <2>5. QED
    BY <1>2, <1>5, <2>4, FS_MajoritiesIntersect
<1>7. PICK j \in S : NetGain(trials[j]) >= options.minGain /\ (Before(j, Median) \/ j = Median)
  BY <1>6
<1>8. /\ NetGain(trials[j]) \in Int /\ NetGain(trials[Median]) \in Int
      /\ trials[Median] \in Runs /\ options.minGain \in Int
  BY <1>3, TrialOrder, OptionsType
<1>9. NetGain(trials[j]) <= NetGain(trials[Median])
  BY <1>7, <1>8 DEF Before
<1>10. NetGain(trials[Median]) >= options.minGain
  BY <1>7, <1>8, <1>9
<1>11. QED
  BY <1>8, <1>10

-----------------------------------------------------------------------------
(* Types                                                                   *)

LEMMA RestoredType ==
  ASSUME TypeOK, snapshot # NoSnapshot
  PROVE  Restored \in [Files -> Contents]
<1>1. /\ snapshot \in [file : Files, prior : Texts \cup {Absent}]
      /\ tree \in [Files -> Contents]
  BY DEF TypeOK
<1>2. \A text \in Texts : Written(text) \in Contents
  BY DEF Written, Contents
<1>3. Absent \in Contents
  BY DEF Contents
<1>4. QED
  BY <1>1, <1>2, <1>3 DEF Restored

LEMMA TypeStep ==
  ASSUME Inv, [Next]_vars
  PROVE  TypeOK'
<1> USE DEF Phases
<1>1. TypeOK /\ RoundInv
  BY DEF Inv
<1>2. CASE Baseline
  <2>1. PICK run \in Runs : /\ frontier' = <<[run |-> run, tree |-> tree]>>
                            /\ spent' = spent + run.cost
    BY <1>2 DEF Baseline
  <2>2. spent' \in Nat
    BY SMTT(30), <1>1, <2>1, OptimizerAssumption DEF TypeOK, Runs
  <2>3. frontier' \in Seq([run : Runs, tree : [Files -> Contents]]) /\ frontier' # << >>
    <3> DEFINE V == [run : Runs, tree : [Files -> Contents]]
               x == [run |-> run, tree |-> tree]
    <3>1. frontier' = <<x>> /\ x \in V
      BY <1>1, <2>1 DEF TypeOK
    <3> HIDE DEF V, x
    <3>2. frontier' \in Seq(V) /\ frontier' # << >>
      BY <3>1
    <3>3. QED
      BY <3>2 DEF V
  <2>4. QED
    BY <1>1, <1>2, <2>2, <2>3 DEF Baseline, TypeOK
<1>3. CASE Decide
  <2>1. stopped' \in Reasons /\ phase' \in {"finishing", "coaching"}
    BY <1>1, <1>3 DEF Decide, Stop, TypeOK, Reasons
  <2>2. QED
    BY <1>1, <1>3, <2>1 DEF Decide, TypeOK
<1>4. CASE Coach
  <2>1. report' \in Seq(Proposals) /\ Len(report') <= MaxProposals
    <3>1. PICK n \in 0..MaxProposals : report' \in [1..n -> Proposals]
      BY <1>4 DEF Coach
    <3>2. n \in Nat /\ n <= MaxProposals
      BY <3>1, OptimizerAssumption
    <3>3. QED
      BY <3>1, <3>2
  <2>2. spent' \in Nat
    <3>1. PICK cost \in 0..MaxCoachCost : spent' = spent + cost
      BY <1>4 DEF Coach
    <3>2. QED
      BY <1>1, <3>1, OptimizerAssumption DEF TypeOK
  <2>3. stopped' \in Reasons /\ phase' \in {"finishing", "proposing"}
    BY <1>1, <1>4 DEF Coach, Stop, TypeOK, Reasons
  <2>4. QED
    BY <1>1, <1>4, <2>1, <2>2, <2>3 DEF Coach, TypeOK
<1>5. CASE SkipProposal
  <2>1. report' \in Seq(Proposals) /\ Len(report') <= MaxProposals
    BY <1>1, <1>5, OptimizerAssumption DEF SkipProposal, TypeOK
  <2>2. QED
    BY <1>1, <1>5, <2>1 DEF SkipProposal, TypeOK
<1>6. CASE Apply
  <2>1. /\ Head(report) \in Proposals
        /\ Head(report).file \in Files /\ Head(report).text \in Texts
    <3>1. Head(report) \in Proposals
      BY <1>1, <1>6 DEF Apply, TypeOK
    <3>2. QED
      BY <1>6, <3>1 DEF Apply, Proposals
  <2>2. tree' \in [Files -> Contents]
    BY <1>1, <1>6, <2>1 DEF Apply, TypeOK, Written, Contents
  <2>3. /\ snapshot' \in [file : Files, prior : Texts \cup {Absent}]
        /\ snapshot' # NoSnapshot
    <3>1. TextOf(tree[Head(report).file]) \in Texts \cup {Absent}
      BY <1>1, <2>1 DEF TypeOK, TextOf, Contents
    <3>2. snapshot' = [file |-> Head(report).file, prior |-> TextOf(tree[Head(report).file])]
      BY <1>6 DEF Apply
    <3>3. snapshot' \in [file : Files, prior : Texts \cup {Absent}]
      BY <2>1, <3>1, <3>2
    <3>4. QED
      BY <3>3, OptimizerAssumption
  <2>4. trials' \in Seq(Runs) /\ Len(trials') <= options'.trials
    BY <1>1, <1>6, OptionsType DEF Apply
  <2>5. QED
    BY <1>1, <1>6, <2>2, <2>3, <2>4 DEF Apply, TypeOK
<1>7. CASE BudgetHit \/ RoundConverged
  <2>1. rounds' \in 0..MaxRounds
    <3>1. rounds < MaxRounds /\ rounds' = rounds + 1
      BY <1>1, <1>7 DEF BudgetHit, RoundConverged, RoundInv
    <3>2. QED
      BY <1>1, <3>1, OptionsType
  <2>2. report' \in Seq(Proposals) /\ Len(report') <= MaxProposals
    <3>1. CASE report' = << >>
      BY <1>1, <3>1, OptionsType
    <3>2. CASE report' = report
      BY <1>1, <3>2 DEF TypeOK
    <3>3. QED
      BY <1>7, <3>1, <3>2 DEF BudgetHit, RoundConverged
  <2>3. stopped' \in Reasons /\ phase' = "finishing" /\ phase = "proposing"
    BY <1>7 DEF BudgetHit, RoundConverged, Stop, Reasons
  <2>4. UNCHANGED <<options, tree, frontier, snapshot, trials, spent>>
    BY <1>7 DEF BudgetHit, RoundConverged
  <2>5. QED
    BY <1>1, <2>1, <2>2, <2>3, <2>4 DEF TypeOK
<1>8. CASE Trial
  <2>1. PICK run \in Runs : trials' = Append(trials, run) /\ spent' = spent + run.cost
    BY <1>8 DEF Trial
  <2>2. spent' \in Nat
    BY SMTT(30), <1>1, <2>1, OptimizerAssumption DEF TypeOK, Runs
  <2>3. trials' \in Seq(Runs) /\ Len(trials') <= options'.trials
    <3>1. trials \in Seq(Runs) /\ Len(trials) < options.trials /\ options' = options
      BY <1>1, <1>8 DEF Trial, TypeOK
    <3>2. options.trials \in Nat
      BY <1>1, OptionsType
    <3> HIDE DEF Runs
    <3>3. QED
      BY <2>1, <3>1, <3>2
  <2>4. QED
    BY <1>1, <1>8, <2>2, <2>3 DEF Trial, TypeOK
<1>9. CASE KeepEdit
  <2>1. frontier # << >> /\ trials # << >> /\ Keep
    <3>1. frontier # << >> /\ Keep /\ Len(trials) = options.trials
      BY <1>1, <1>9 DEF KeepEdit, TypeOK
    <3>2. Len(trials) # 0
      BY <1>1, <3>1, OptionsType
    <3>3. QED
      BY <3>1, <3>2
  <2>2. frontier' \in Seq([run : Runs, tree : [Files -> Contents]]) /\ frontier' # << >>
    <3> DEFINE V == [run : Runs, tree : [Files -> Contents]]
               x == [run |-> trials[Median], tree |-> tree]
    <3>1. trials[Median] \in Runs
      BY <1>1, <2>1, KeptGains
    <3>2. frontier' = Append(frontier, x) /\ frontier \in Seq(V) /\ x \in V
      BY <1>1, <1>9, <3>1 DEF KeepEdit, TypeOK
    <3> HIDE DEF V, x
    <3>3. frontier' \in Seq(V) /\ frontier' # << >>
      BY <3>2
    <3>4. QED
      BY <3>3 DEF V
  <2>3. rounds' \in 0..MaxRounds
    <3>1. rounds < MaxRounds /\ rounds' = rounds + 1
      BY <1>1, <1>9 DEF KeepEdit, RoundInv
    <3>2. QED
      BY <1>1, <3>1, OptionsType
  <2>4. /\ report' \in Seq(Proposals) /\ Len(report') <= MaxProposals
        /\ trials' \in Seq(Runs) /\ Len(trials') <= options'.trials
    BY <1>1, <1>9, OptionsType DEF KeepEdit
  <2>5. QED
    BY <1>1, <1>9, <2>2, <2>3, <2>4 DEF KeepEdit, TypeOK
<1>10. CASE RevertEdit
  <2>1. tree' \in [Files -> Contents]
    BY <1>1, <1>10, RestoredType DEF RevertEdit, TypeOK
  <2>2. report' \in Seq(Proposals) /\ Len(report') <= MaxProposals
    <3>1. report # << >>
      BY <1>1, <1>10 DEF RevertEdit, RoundInv
    <3>2. QED
      BY <1>1, <1>10, <3>1, OptionsType DEF RevertEdit, TypeOK
  <2>3. trials' \in Seq(Runs) /\ Len(trials') <= options'.trials
    BY <1>1, <1>10, OptionsType DEF RevertEdit
  <2>4. QED
    BY <1>1, <1>10, <2>1, <2>2, <2>3 DEF RevertEdit, TypeOK
<1>11. CASE Fail
  <2>1. tree' \in [Files -> Contents]
    BY <1>1, <1>11, RestoredType DEF Fail, TypeOK
  <2>2. QED
    BY <1>1, <1>11, <2>1 DEF Fail, TypeOK
<1>12. CASE Finish
  <2>1. PICK cost \in 0..MaxEvalCost : spent' = spent + cost
    BY <1>12 DEF Finish
  <2>2. spent' \in Nat
    BY <1>1, <2>1, OptimizerAssumption DEF TypeOK
  <2>3. QED
    BY <1>1, <1>12, <2>2 DEF Finish, TypeOK
<1>13. CASE RejectTarget
  BY <1>1, <1>13 DEF RejectTarget, TypeOK
<1>14. CASE UNCHANGED vars
  BY <1>1, <1>14 DEF vars, TypeOK
<1>15. QED
  BY <1>2, <1>3, <1>4, <1>5, <1>6, <1>7, <1>8, <1>9, <1>10, <1>11, <1>12, <1>13, <1>14
     DEF Next

-----------------------------------------------------------------------------
(* The working tree                                                        *)

\* What _restore writes reads as what was there before.
LEMMA RestoredReads ==
  ASSUME TypeOK, snapshot # NoSnapshot
  PROVE  /\ TextOf(Restored[snapshot.file]) = snapshot.prior
         /\ \A f \in Files \ {snapshot.file} : Restored[f] = tree[f]
<1>1. /\ snapshot \in [file : Files, prior : Texts \cup {Absent}]
      /\ tree \in [Files -> Contents]
  BY DEF TypeOK
<1>2. snapshot.file \in Files /\ snapshot.prior \in Texts \cup {Absent}
  BY <1>1
<1>3. \A text \in Texts : Written(text) # Absent /\ TextOf(Written(text)) = text
  BY OptimizerAssumption DEF Written, TextOf
<1>4. Restored[snapshot.file]
        = IF snapshot.prior = Absent THEN Absent ELSE Written(snapshot.prior)
  BY <1>1, <1>2 DEF Restored
<1>5. TextOf(Restored[snapshot.file]) = snapshot.prior
  BY <1>2, <1>3, <1>4 DEF TextOf
<1>6. QED
  BY <1>1, <1>5 DEF Restored

LEMMA TreeStep ==
  ASSUME Inv, [Next]_vars
  PROVE  UndoInv' /\ WorkingTreeIsPicked'
<1>1. /\ TypeOK /\ UndoInv /\ WorkingTreeIsPicked
      /\ Len(frontier) \in Nat
  BY DEF Inv, TypeOK
<1>2. CASE Baseline
  <2>1. PICK run : frontier' = <<[run |-> run, tree |-> tree]>>
    BY <1>2 DEF Baseline
  <2>2. Len(frontier') = 1 /\ frontier'[1].tree = tree /\ snapshot = NoSnapshot
        /\ UNCHANGED <<tree, snapshot>>
    BY <1>1, <1>2, <2>1 DEF Baseline, TypeOK
  <2>3. QED
    BY <2>2 DEF UndoInv, WorkingTreeIsPicked
<1>3. CASE Apply
  <2>1. snapshot = NoSnapshot /\ UNCHANGED frontier /\ frontier # << >>
    BY <1>1, <1>3 DEF Apply, TypeOK
  <2>2. /\ snapshot'.file = Head(report).file
        /\ snapshot'.prior = TextOf(tree[Head(report).file])
        /\ \A f \in Files : f # Head(report).file => tree'[f] = tree[f]
    BY <1>1, <1>3 DEF Apply, TypeOK
  <2>3. Head(report).file \in Files
    <3>1. Head(report) \in Proposals
      BY <1>1, <1>3 DEF Apply, TypeOK
    <3>2. QED
      BY <1>3, <3>1 DEF Apply, Proposals
  <2>4. snapshot' # NoSnapshot
    <3>1. TypeOK' /\ phase' = "trying"
      BY <1>3, TypeStep DEF Apply
    <3>2. QED
      BY <3>1 DEF TypeOK
  <2>5. UndoInv'
    BY <1>1, <2>1, <2>2, <2>3 DEF UndoInv, WorkingTreeIsPicked
  <2>6. WorkingTreeIsPicked'
    BY <1>1, <2>1, <2>2, <2>4 DEF WorkingTreeIsPicked
  <2>7. QED
    BY <2>5, <2>6
<1>4. CASE KeepEdit
  <2> DEFINE V == [run : Runs, tree : [Files -> Contents]]
             x == [run |-> trials[Median], tree |-> tree]
  <2>1. frontier' = Append(frontier, x) /\ frontier \in Seq(V) /\ x.tree = tree
        /\ snapshot' = NoSnapshot /\ UNCHANGED tree
    BY <1>1, <1>4 DEF KeepEdit, TypeOK
  <2> HIDE DEF V, x
  <2>2. frontier'[Len(frontier')] = x
    BY <2>1
  <2>3. QED
    BY <2>1, <2>2 DEF UndoInv, WorkingTreeIsPicked
<1>5. CASE RevertEdit \/ Fail
  <2>1. UNCHANGED frontier /\ snapshot' = NoSnapshot
    BY <1>5 DEF RevertEdit, Fail
  <2>2. CASE phase = "trying"
    <3>1. snapshot # NoSnapshot /\ tree' = Restored
      BY <1>1, <1>5, <2>2 DEF RevertEdit, Fail, TypeOK
    <3>2. WorkingTreeIsPicked'
      BY <1>1, <2>1, <3>1, RestoredReads DEF UndoInv, WorkingTreeIsPicked
    <3>3. QED
      BY <2>1, <3>2 DEF UndoInv
  <2>3. CASE phase # "trying"
    <3>1. snapshot = NoSnapshot /\ tree' = tree
      BY <1>1, <1>5, <2>3 DEF RevertEdit, Fail, TypeOK
    <3>2. QED
      BY <1>1, <2>1, <3>1 DEF UndoInv, WorkingTreeIsPicked
  <2>4. QED
    BY <2>2, <2>3
<1>6. CASE UNCHANGED <<tree, frontier, snapshot>>
  BY <1>1, <1>6 DEF UndoInv, WorkingTreeIsPicked
<1>7. QED
  BY <1>2, <1>3, <1>4, <1>5, <1>6
     DEF Next, vars, Decide, Coach, SkipProposal, BudgetHit, RoundConverged, Trial, Finish,
         RejectTarget

-----------------------------------------------------------------------------
(* Rounds, reasons and versions                                            *)

\* A kept edit adds the median run, and changes no version before it.
LEMMA KeepAppends ==
  ASSUME Inv, KeepEdit
  PROVE  /\ frontier # << >> /\ trials # << >> /\ Keep
         /\ Len(frontier) \in Nat \ {0} /\ Len(frontier') = Len(frontier) + 1
         /\ frontier'[Len(frontier) + 1].run = trials[Median]
         /\ \A v \in 1..Len(frontier) : frontier'[v] = frontier[v]
<1>1. TypeOK /\ Len(trials) = options.trials /\ frontier # << >> /\ Keep
  BY DEF Inv, KeepEdit, TypeOK
<1>2. trials # << >>
  <2>1. Len(trials) # 0
    BY <1>1, OptionsType
  <2>2. QED
    BY <2>1
<1> DEFINE V == [run : Runs, tree : [Files -> Contents]]
           x == [run |-> trials[Median], tree |-> tree]
<1>3. frontier' = Append(frontier, x) /\ frontier \in Seq(V) /\ x.run = trials[Median]
  BY <1>1 DEF KeepEdit, TypeOK
<1> HIDE DEF V, x
<1>4. QED
  BY <1>1, <1>2, <1>3

LEMMA SameBest ==
  ASSUME UNCHANGED <<frontier, options>>
  PROVE  TargetMet' <=> TargetMet
BY DEF TargetMet, Best

LEMMA RoundStep ==
  ASSUME Inv, [Next]_vars
  PROVE  RoundInv'
<1>1. TypeOK /\ RoundInv /\ rounds \in Nat /\ rounds <= MaxRounds /\ MaxRounds \in Nat
  BY OptionsType DEF Inv
<1>2. CASE Baseline
  <2>1. PICK run : frontier' = <<[run |-> run, tree |-> tree]>>
    BY <1>2 DEF Baseline
  <2>2. Len(frontier') = 1
    BY <2>1
  <2>3. rounds' = 0 /\ phase' = "deciding"
    BY <1>1, <1>2 DEF Baseline, RoundInv
  <2>4. QED
    BY <2>2, <2>3 DEF RoundInv
<1>3. CASE Decide
  <2>1. UNCHANGED <<frontier, options, rounds>> /\ phase = "deciding"
    BY <1>3 DEF Decide
  <2>2. phase' = "coaching" => rounds < MaxRounds /\ ~TargetMet
    BY <1>1, <1>3 DEF Decide, Stop
  <2>3. phase' \in {"coaching", "finishing"}
    BY <1>3 DEF Decide, Stop
  <2>4. QED
    BY <1>1, <2>1, <2>2, <2>3, SameBest DEF RoundInv
<1>4. CASE Coach \/ SkipProposal \/ Apply \/ Trial
  <2>1. UNCHANGED <<frontier, options, rounds>>
        /\ phase \in {"coaching", "proposing", "trying"}
    BY <1>4 DEF Coach, SkipProposal, Apply, Trial
  <2>2. phase' # "baseline" /\ (phase' = "trying" => report' # << >>)
    BY <1>1, <1>4 DEF Coach, Stop, SkipProposal, Apply, Trial, RoundInv
  <2>3. QED
    BY <1>1, <2>1, <2>2, SameBest DEF RoundInv
<1>5. CASE KeepEdit
  <2>1. Len(frontier') = Len(frontier) + 1 /\ Len(frontier) = rounds + 1
        /\ rounds' = rounds + 1 /\ phase' = "deciding" /\ Len(frontier) \in Nat
    BY <1>1, <1>5, KeepAppends DEF KeepEdit, RoundInv
  <2>2. QED
    BY <1>1, <2>1 DEF RoundInv
<1>6. CASE RevertEdit
  <2>1. UNCHANGED <<frontier, options, rounds>> /\ phase = "trying" /\ phase' = "proposing"
    BY <1>6 DEF RevertEdit
  <2>2. QED
    BY <1>1, <2>1, SameBest DEF RoundInv
<1>7. CASE BudgetHit \/ RoundConverged \/ Fail \/ Finish \/ RejectTarget
  <2>1. phase' \in {"finishing", "failed", "done"}
    BY <1>7 DEF BudgetHit, RoundConverged, Stop, Fail, Finish, RejectTarget
  <2>2. QED
    BY <2>1 DEF RoundInv
<1>8. CASE UNCHANGED vars
  <2>1. UNCHANGED <<frontier, options, rounds, phase, report>>
    BY <1>8 DEF vars
  <2>2. QED
    BY <1>1, <2>1, SameBest DEF RoundInv
<1>9. QED
  BY <1>2, <1>3, <1>4, <1>5, <1>6, <1>7, <1>8 DEF Next

LEMMA ReasonStep ==
  ASSUME Inv, [Next]_vars
  PROVE  StopReasonIsTrue'
<1>1. /\ TypeOK /\ RoundInv /\ StopReasonIsTrue
      /\ rounds \in Nat /\ rounds <= MaxRounds /\ MaxRounds \in Nat
  BY OptionsType DEF Inv
<1>2. CASE Decide
  <2>1. UNCHANGED <<frontier, options, rounds, spent>> /\ Len(frontier) = rounds + 1
    BY <1>1, <1>2 DEF Decide, RoundInv
  <2>2. CASE phase' = "finishing"
    <3>1. /\ stopped' = "target_met" <=> TargetMet
          /\ stopped' = "max_rounds" => rounds >= MaxRounds
          /\ stopped' = "budget_exhausted" => WouldExceed(CoachEstimate)
      BY <1>2, <2>2 DEF Decide, Stop
    <3>2. WouldExceed(CoachEstimate) => WouldExceed(CoachEstimate)'
      BY <2>1 DEF WouldExceed
    <3>3. stopped' = "max_rounds" => rounds' = MaxRounds /\ Len(frontier') = MaxRounds + 1
      BY <1>1, <2>1, <3>1
    <3>4. QED
      BY <2>1, <3>1, <3>2, <3>3, SameBest DEF StopReasonIsTrue
  <2>3. CASE phase' # "finishing"
    BY <1>2, <2>3 DEF Decide, Stop, StopReasonIsTrue
  <2>4. QED
    BY <2>2, <2>3
<1>3. CASE Coach \/ BudgetHit \/ RoundConverged
  <2>1. UNCHANGED <<frontier, options>> /\ ~TargetMet
    BY <1>1, <1>3 DEF Coach, BudgetHit, RoundConverged, RoundInv
  <2>2. CASE phase' = "finishing"
    <3>1. /\ stopped' \in {"no_proposals", "budget_exhausted", "converged"}
          /\ stopped' = "budget_exhausted" => WouldExceed(BatchCost) /\ UNCHANGED spent
      BY <1>3, <2>2 DEF Coach, BudgetHit, RoundConverged, Stop
    <3>2. stopped' = "budget_exhausted" => WouldExceed(BatchCost)'
      BY <2>1, <3>1 DEF WouldExceed, BatchCost
    <3>3. QED
      BY <2>1, <3>1, <3>2, SameBest DEF StopReasonIsTrue
  <2>3. CASE phase' # "finishing"
    BY <1>3, <2>3 DEF Coach, BudgetHit, RoundConverged, Stop, StopReasonIsTrue
  <2>4. QED
    BY <2>2, <2>3
<1>4. CASE Finish
  <2>1. UNCHANGED <<frontier, options, rounds, stopped>> /\ phase = "finishing"
        /\ phase' = "done"
    BY <1>4 DEF Finish
  <2>2. QED
    BY <1>1, <2>1, SameBest DEF StopReasonIsTrue
<1>5. CASE Baseline \/ SkipProposal \/ Apply \/ Trial \/ KeepEdit \/ RevertEdit \/ Fail
           \/ RejectTarget
  <2>1. phase' \notin {"finishing", "done"}
    BY <1>5
       DEF Baseline, SkipProposal, Apply, Trial, KeepEdit, RevertEdit, Fail, RejectTarget
  <2>2. QED
    BY <2>1 DEF StopReasonIsTrue
<1>6. CASE UNCHANGED vars
  <2>1. UNCHANGED <<frontier, options, rounds, stopped, phase, spent>>
    BY <1>6 DEF vars
  <2>2. /\ WouldExceed(CoachEstimate) => WouldExceed(CoachEstimate)'
        /\ WouldExceed(BatchCost) => WouldExceed(BatchCost)'
    BY <2>1 DEF WouldExceed, BatchCost
  <2>3. QED
    BY <1>1, <2>1, <2>2, SameBest DEF StopReasonIsTrue
<1>7. QED
  BY <1>2, <1>3, <1>4, <1>5, <1>6 DEF Next

LEMMA ClimbStep ==
  ASSUME Inv, [Next]_vars
  PROVE  FrontierClimbs'
<1>1. TypeOK /\ FrontierClimbs /\ Len(frontier) \in Nat
  BY DEF Inv, TypeOK
<1>2. CASE Baseline
  <2>1. PICK run : frontier' = <<[run |-> run, tree |-> tree]>>
    BY <1>2 DEF Baseline
  <2>2. Len(frontier') = 1
    BY <2>1
  <2>3. QED
    BY <2>2 DEF FrontierClimbs
<1>3. CASE KeepEdit
  <2> DEFINE n == Len(frontier)
             C(run) == Cardinality(run.correct)
  <2>1. /\ n \in Nat \ {0} /\ Len(frontier') = n + 1
        /\ frontier'[n + 1].run = trials[Median]
        /\ \A v \in 1..n : frontier'[v] = frontier[v]
        /\ frontier # << >> /\ trials # << >> /\ Keep /\ UNCHANGED options
    BY <1>3, KeepAppends DEF KeepEdit
  <2>2. /\ C(trials[Median]) \in Nat /\ C(Best) \in Nat
        /\ C(trials[Median]) - C(Best) >= options.minGain
    BY <1>1, <2>1, KeptGains, GainIsDifference
  <2>3. options.minGain \in Int
    BY <1>1, OptionsType
  <2>4. C(trials[Median]) >= C(Best) + options.minGain
    <3> HIDE DEF C
    <3>1. QED
      BY <2>2, <2>3
  <2>5. ASSUME NEW v \in 2..Len(frontier')
        PROVE  C(frontier'[v].run) >= C(frontier'[v - 1].run) + options'.minGain
    <3>1. CASE v = n + 1
      <4>1. frontier'[v - 1] = frontier[n] /\ frontier'[v].run = trials[Median]
        BY <2>1, <3>1
      <4>2. QED
        BY <2>1, <2>4, <4>1 DEF Best
    <3>2. CASE v \in 2..n
      <4>1. v \in 1..n /\ v - 1 \in 1..n
        BY <2>1, <3>2
      <4>2. frontier'[v] = frontier[v] /\ frontier'[v - 1] = frontier[v - 1]
        BY <2>1, <4>1
      <4>3. QED
        BY <1>1, <2>1, <3>2, <4>2 DEF FrontierClimbs
    <3>3. v = n + 1 \/ v \in 2..n
      <4> HIDE DEF n
      <4>1. QED
        BY <2>1
    <3>4. QED
      BY <3>1, <3>2, <3>3
  <2>6. QED
    BY <2>5 DEF FrontierClimbs
<1>4. CASE UNCHANGED <<frontier, options>>
  BY <1>1, <1>4 DEF FrontierClimbs
<1>5. QED
  BY <1>2, <1>3, <1>4
     DEF Next, vars, Decide, Coach, SkipProposal, Apply, BudgetHit, RoundConverged, Trial,
         RevertEdit, Fail, Finish, RejectTarget

-----------------------------------------------------------------------------
(* Money                                                                   *)

LEMMA OneTrialLess ==
  ASSUME NEW e \in Nat, NEW n \in Nat, NEW k \in Nat, k < n
  PROVE  /\ e * (n - k) \in Nat
         /\ e * (n - (k + 1)) \in Nat
         /\ e * (n - k) = e * (n - (k + 1)) + e
<1>1. \A a, b \in Nat : a * b \in Nat /\ a * (b + 1) = a * b + a
  OBVIOUS
<1>2. n - k \in Nat /\ n - (k + 1) \in Nat /\ n - k = (n - (k + 1)) + 1
  OBVIOUS
<1>3. QED
  BY <1>1, <1>2

LEMMA PriceStep ==
  ASSUME Inv, [Next]_vars
  PROVE  PriceInv' /\ LoopStaysInBudget'
<1> DEFINE Budgeted == options.budget # NoBudget /\ MaxEvalCost <= EvalEstimate
<1>1. /\ TypeOK /\ PriceInv /\ LoopStaysInBudget
      /\ options.trials \in Nat \ {0} /\ options.budget \in Nat \cup {NoBudget}
      /\ spent \in Nat
      /\ {CoachEstimate, EvalEstimate, MaxCoachCost, MaxEvalCost} \subseteq Nat
  BY OptionsType DEF Inv
<1>2. CASE Baseline
  <2>1. PICK run \in Runs : /\ frontier' = <<[run |-> run, tree |-> tree]>>
                            /\ spent' = spent + run.cost
    BY <1>2 DEF Baseline
  <2>2. spent = 0 /\ run.cost \in Nat /\ phase' = "deciding"
    BY <1>1, <1>2, <2>1 DEF Baseline, PriceInv, Runs
  <2>3. spent' = frontier'[1].run.cost
    BY <2>1, <2>2
  <2>4. QED
    BY <2>2, <2>3 DEF PriceInv, LoopStaysInBudget
<1>3. CASE Decide
  <2>1. UNCHANGED <<options, frontier, spent>> /\ phase = "deciding"
        /\ phase' \in {"coaching", "finishing"}
    BY <1>3 DEF Decide, Stop
  <2>2. phase' = "coaching" => ~WouldExceed(CoachEstimate)
    BY <1>3 DEF Decide, Stop
  <2>3. phase' = "coaching" /\ options.budget # NoBudget
          => spent + CoachEstimate <= options.budget
    BY <1>1, <2>2 DEF WouldExceed
  <2>4. QED
    BY <1>1, <2>1, <2>3 DEF PriceInv, LoopStaysInBudget
<1>4. CASE Coach
  <2>1. PICK cost \in 0..MaxCoachCost : spent' = spent + cost
    BY <1>4 DEF Coach
  <2>2. UNCHANGED <<options, frontier>> /\ phase = "coaching"
        /\ phase' \in {"proposing", "finishing"}
    BY <1>4 DEF Coach, Stop
  <2>3. Budgeted /\ MaxCoachCost <= CoachEstimate => spent' <= options.budget
    BY <1>1, <2>1, <2>2 DEF PriceInv
  <2>4. QED
    BY <2>2, <2>3 DEF PriceInv, LoopStaysInBudget
<1>5. CASE Apply
  <2>1. UNCHANGED <<options, frontier, spent>> /\ phase = "proposing" /\ phase' = "trying"
        /\ trials' = << >> /\ ~WouldExceed(BatchCost)
    BY <1>5 DEF Apply
  <2>2. options.budget # NoBudget
          => spent + EvalEstimate * options.trials <= options.budget
    <3>1. EvalEstimate * options.trials \in Nat
      BY <1>1
    <3>2. QED
      BY <1>1, <2>1, <3>1 DEF WouldExceed, BatchCost
  <2>3. options'.trials - Len(trials') = options.trials
    BY <1>1, <2>1
  <2>4. QED
    BY <1>1, <2>1, <2>2, <2>3 DEF PriceInv, LoopStaysInBudget
<1>6. CASE Trial
  <2>1. PICK run \in Runs : trials' = Append(trials, run) /\ spent' = spent + run.cost
    BY <1>6 DEF Trial
  <2>2. UNCHANGED <<options, frontier, phase>> /\ phase = "trying"
    BY <1>6 DEF Trial
  <2> DEFINE k == Len(trials)
  <2>3. k \in Nat /\ k < options.trials /\ Len(trials') = k + 1
    BY <1>1, <1>6, <2>1 DEF Trial, TypeOK
  <2>4. run.cost \in Nat /\ run.cost <= MaxEvalCost
    BY <1>1, <2>1 DEF Runs
  <2> DEFINE before == EvalEstimate * (options.trials - k)
             after  == EvalEstimate * (options.trials - (k + 1))
  <2>5. before \in Nat /\ after \in Nat /\ before = after + EvalEstimate
    BY <1>1, <2>3, OneTrialLess
  <2>6. Budgeted => spent + before <= options.budget
    BY <1>1, <2>2 DEF PriceInv
  <2>7. EvalEstimate * (options'.trials - Len(trials')) = after
    BY <2>2, <2>3
  <2> HIDE DEF before, after
  <2>8. ASSUME Budgeted
        PROVE  spent' + after <= options.budget /\ spent' <= options.budget
    <3>1. /\ spent + before <= options.budget /\ options.budget \in Nat
          /\ EvalEstimate \in Nat /\ MaxEvalCost \in Nat /\ MaxEvalCost <= EvalEstimate
      BY <1>1, <2>6, <2>8
    <3>2. run.cost <= EvalEstimate /\ spent' = spent + run.cost /\ spent \in Nat
      BY <1>1, <2>1, <2>4, <3>1
    <3>3. QED
      BY <2>4, <2>5, <3>1, <3>2
  <2>9. QED
    BY <2>2, <2>7, <2>8 DEF PriceInv, LoopStaysInBudget
<1>7. CASE KeepEdit
  <2>1. UNCHANGED <<options, spent>> /\ phase = "trying" /\ phase' = "deciding"
    BY <1>7 DEF KeepEdit
  <2>2. frontier # << >> /\ frontier'[1] = frontier[1]
    <3>1. 1 \in 1..Len(frontier)
      BY <1>7, KeepAppends
    <3>2. QED
      BY <1>7, <3>1, KeepAppends
  <2>3. QED
    BY <1>1, <2>1, <2>2 DEF PriceInv, LoopStaysInBudget
<1>8. CASE Finish
  BY <1>8 DEF Finish, PriceInv, LoopStaysInBudget
<1>9. CASE SkipProposal \/ BudgetHit \/ RoundConverged \/ RevertEdit \/ Fail \/ RejectTarget
  <2>1. UNCHANGED <<options, spent, frontier>> /\ phase # "done"
        /\ phase' \in {"proposing", "finishing", "failed"}
    BY <1>9 DEF SkipProposal, BudgetHit, RoundConverged, Stop, RevertEdit, Fail, CanFail,
                RejectTarget
  <2>2. QED
    BY <1>1, <2>1 DEF PriceInv, LoopStaysInBudget
<1>10. CASE UNCHANGED vars
  <2>1. UNCHANGED <<options, spent, frontier, phase, trials>>
    BY <1>10 DEF vars
  <2>2. QED
    BY <1>1, <2>1 DEF PriceInv, LoopStaysInBudget
<1>11. QED
  BY <1>2, <1>3, <1>4, <1>5, <1>6, <1>7, <1>8, <1>9, <1>10 DEF Next

-----------------------------------------------------------------------------
(* Theorems                                                                *)

LEMMA InvHolds == Spec => []Inv
<1>1. ASSUME Inv, [Next]_vars
      PROVE  Inv'
  BY <1>1, TypeStep, TreeStep, RoundStep, ReasonStep, ClimbStep, PriceStep DEF Inv
<1>2. QED
  BY InvInit, <1>1, PTL DEF Spec

\* For any dev set, proposals and options the state of the loop is well formed: a version
\* exists after the baseline, and there is a snapshot exactly while an edit is on trial.
THEOREM TypeCorrect == Spec => []TypeOK
<1>1. Inv => TypeOK
  BY DEF Inv
<1>2. QED
  BY InvHolds, <1>1, PTL

\* However many edits were tried, refused, reverted or interrupted by an exception, the
\* working tree says what the picked version says, but for the one file on trial.
THEOREM TreeIsPicked == Spec => []WorkingTreeIsPicked
<1>1. Inv => WorkingTreeIsPicked
  BY DEF Inv
<1>2. QED
  BY InvHolds, <1>1, PTL

\* For any number of trials and any scores: an edit that wins the majority has a median run
\* that gains min_gain over the version before it.
THEOREM FrontierAlwaysClimbs == Spec => []FrontierClimbs
<1>1. Inv => FrontierClimbs
  BY DEF Inv
<1>2. QED
  BY InvHolds, <1>1, PTL

\* For any prices within the estimates and any budget the loop ends under it, or was above it
\* with the baseline.
THEOREM BudgetHolds == Spec => []LoopStaysInBudget
<1>1. Inv => LoopStaysInBudget
  BY DEF Inv
<1>2. QED
  BY InvHolds, <1>1, PTL

\* The reason a command reports is the true one, for any options.
THEOREM ReasonIsTrue == Spec => []StopReasonIsTrue
<1>1. Inv => StopReasonIsTrue
  BY DEF Inv
<1>2. QED
  BY InvHolds, <1>1, PTL
=============================================================================
