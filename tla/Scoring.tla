------------------------------- MODULE Scoring -------------------------------
(***************************************************************************)
(* How one benchmark question is scored, from the answer of the agent to   *)
(* the row of the scored run: the gold and the generated statement are     *)
(* executed, their results compared (score_result_correctness), the        *)
(* outcome folded into a verdict (score_question), and a row that layer 1  *)
(* could not resolve shown to a panel of paid judges (adjudicate).         *)
(*                                                                         *)
(* The comparison is modelled as the search it is: with `columns_superset' *)
(* every gold column is given a generated column of its own, depth first,  *)
(* with pruning, backtracking and a cap on complete assignments.  A result *)
(* is [width, rows]; cells are compared by what _canon_cell makes of them. *)
(* The scorers that only describe the statement (syntax, schema, routing)  *)
(* decide nothing and are left out.                                        *)
(*                                                                         *)
(* Variants named Faulty... are plausible slips in the definition that     *)
(* follows them; no specification uses them.                               *)
(***************************************************************************)
EXTENDS Integers, Sequences, FiniteSets

CONSTANTS
  Cells,          \* cells as the database returns them
  Canon,          \* what a cell is compared as
  Raises,         \* ... for a cell _canon_cell cannot convert: NaN, infinity
  GoldResults,    \* results gold SQL has
  GenResults,     \* results generated SQL has
  NoSql, Broken,  \* no statement, and one that does not run
  MaxAttempts,    \* complete assignments tried
  GoldPanel, FreePanel, \* judges of a row with gold, and of one without
  MaxUsage        \* bound: usage of a judge's call

IsResult(r) ==
  /\ r.width \in Nat
  /\ r.rows \in Seq([1..r.width -> Cells])

ASSUME ScoringAssumption ==
  /\ \A r \in GoldResults \cup GenResults : IsResult(r)
  /\ NoSql \notin GoldResults /\ Broken \notin GoldResults \cup GenResults
  /\ NoSql # Broken
  /\ DOMAIN Canon = Cells
  /\ {MaxAttempts, GoldPanel, FreePanel} \subseteq Nat \ {0} /\ MaxUsage \in Nat

Modes    == {"exact", "columns_superset"}
RowVerdicts == {"correct", "incorrect", "manual_review", "error"}
Vote     == [passed : BOOLEAN, sure : BOOLEAN]

VARIABLES
  gold, mode,  \* the question: what its gold SQL gives, and how to match it
  gen, ok,     \* the answer: what its SQL gives, and whether the agent calls it good
  at,
  path,        \* generated columns given to the first gold columns
  last,        \* the generated column last tried for the next gold column
  attempts,    \* complete assignments tried
  correctness, \* result_correctness: yes, no, not applicable
  verdict,
  votes,       \* verdicts of judges that could be parsed
  asked,       \* judges asked
  suggestion,
  usage        \* of the judges

question == <<gold, mode>>
answer   == <<gen, ok>>
search   == <<path, last, attempts>>
panel    == <<votes, asked, suggestion, usage>>
scoringVars == <<question, answer, at, search, correctness, verdict, panel>>

ScoringInit ==
  /\ gold \in GoldResults \cup {NoSql, Broken} /\ mode \in Modes
  /\ gen \in GenResults \cup {Broken} /\ ok \in BOOLEAN
  /\ at = "gold"
  /\ path = << >> /\ last = 0 /\ attempts = 0
  /\ correctness = "n/a" /\ verdict = "none"
  /\ votes = {} /\ asked = 0 /\ suggestion = "none" /\ usage = 0

-----------------------------------------------------------------------------
(* Results as multisets of canonical rows                                  *)

\* Equality of the Counters of two lists of rows: the same rows as often, in any order.
SameRows(a, b) ==
  /\ Len(a) = Len(b)
  /\ \E p \in [DOMAIN a -> DOMAIN a] :
       /\ \A k, l \in DOMAIN a : p[k] = p[l] => k = l
       /\ \A k \in DOMAIN a : a[k] = b[p[k]]

Canonical(r) == [k \in DOMAIN r.rows |-> [i \in 1..r.width |-> Canon[r.rows[k][i]]]]

\* A result with a cell that cannot be converted.
Unconvertible(r) == \E k \in DOMAIN r.rows, i \in 1..r.width : Canon[r.rows[k][i]] = Raises

Column(rows, i) == [k \in DOMAIN rows |-> rows[k][i]]

Project(rows, columns) == [k \in DOMAIN rows |-> [i \in DOMAIN columns |-> rows[k][columns[i]]]]

GoldRows == Canonical(gold)
GenRows  == Canonical(gen)

\* A generated column is a candidate if it has the values of the gold column.
Candidates(i) ==
  {j \in 1..gen.width : SameRows(Column(GoldRows, i), Column(GenRows, j))}

-----------------------------------------------------------------------------
(* score_result_correctness                                                *)

Conclude(outcome) ==
  /\ correctness' = outcome
  /\ at' = "folding"

\* Without gold, or with gold that does not run, correctness does not apply.
ExecuteGold ==
  /\ at = "gold"
  /\ IF gold \in {NoSql, Broken} THEN Conclude("n/a")
     ELSE at' = "generated" /\ UNCHANGED correctness
  /\ UNCHANGED <<question, answer, search, verdict, panel>>

\* Generated SQL that does not run is a miss.
ExecuteGenerated ==
  /\ at = "generated"
  /\ IF gen = Broken THEN Conclude("no")
     ELSE at' = "comparing" /\ UNCHANGED correctness
  /\ UNCHANGED <<question, answer, search, verdict, panel>>

CanonRaises == Unconvertible(gold) \/ Unconvertible(gen)

Outcome(equal) == IF equal THEN "yes" ELSE "no"

CompareExact ==
  /\ at = "comparing" /\ mode = "exact"
  /\ IF gold.width # gen.width THEN Conclude("no")
     ELSE IF CanonRaises THEN at' = "raised" /\ UNCHANGED correctness
     ELSE Conclude(Outcome(SameRows(GoldRows, GenRows)))
  /\ UNCHANGED <<question, answer, search, verdict, panel>>

\* Fewer columns, another number of rows, a gold column without a candidate: no search.
CompareSuperset ==
  /\ at = "comparing" /\ mode = "columns_superset"
  /\ IF gen.width < gold.width THEN Conclude("no")
     ELSE IF CanonRaises THEN at' = "raised" /\ UNCHANGED correctness
     ELSE IF \/ Len(GoldRows) # Len(GenRows)
             \/ \E i \in 1..gold.width : Candidates(i) = {}
          THEN Conclude("no")
     ELSE at' = "searching" /\ UNCHANGED correctness
  /\ UNCHANGED <<question, answer, search, verdict, panel>>

\* Every gold column has one.
Complete == Len(path) = gold.width

FaultyEligible ==
  {j \in Candidates(Len(path) + 1) : j > last /\ attempts < MaxAttempts}

\* What the loop of a frame still has to try: the candidates after the last one that no
\* gold column has yet; nothing at all beyond the cap.
Eligible ==
  {j \in Candidates(Len(path) + 1) :
     /\ j > last
     /\ \A i \in DOMAIN path : path[i] # j
     /\ attempts < MaxAttempts}

\* The next gold column gets a generated column.
Assign ==
  /\ at = "searching" /\ ~Complete
  /\ \E j \in Eligible :
       /\ \A k \in Eligible : j <= k
       /\ path' = Append(path, j)
  /\ last' = 0
  /\ UNCHANGED <<question, answer, at, attempts, correctness, verdict, panel>>

\* The frame returns: its caller goes on after the column it had tried.
Return ==
  /\ path # << >>
  /\ path' = SubSeq(path, 1, Len(path) - 1)
  /\ last' = path[Len(path)]

\* A complete assignment is projected; without a match the frame returns.
Try ==
  /\ at = "searching" /\ Complete
  /\ attempts' = attempts + 1
  /\ \/ /\ SameRows(GoldRows, Project(GenRows, path))
        /\ Conclude("yes")
        /\ UNCHANGED <<path, last>>
     \/ /\ ~SameRows(GoldRows, Project(GenRows, path))
        /\ path # << >> /\ Return
        /\ UNCHANGED <<at, correctness>>
     \/ /\ ~SameRows(GoldRows, Project(GenRows, path))
        /\ path = << >> /\ Conclude("no")
        /\ UNCHANGED <<path, last>>
  /\ UNCHANGED <<question, answer, verdict, panel>>

FaultyBacktrack ==
  /\ at = "searching" /\ ~Complete /\ Eligible = {}
  /\ path # << >>
  /\ path' = SubSeq(path, 1, Len(path) - 1) /\ last' = 0
  /\ UNCHANGED <<question, answer, at, attempts, correctness, verdict, panel>>

\* A frame that has tried everything returns.
Backtrack ==
  /\ at = "searching" /\ ~Complete /\ Eligible = {}
  /\ Return
  /\ UNCHANGED <<question, answer, at, attempts, correctness, verdict, panel>>

\* The outermost frame has: not equal, also when the cap cut the search short.
Exhausted ==
  /\ at = "searching" /\ ~Complete /\ Eligible = {}
  /\ path = << >>
  /\ Conclude("no")
  /\ UNCHANGED <<question, answer, search, verdict, panel>>

-----------------------------------------------------------------------------
(* score_question and adjudicate                                           *)

FaultyFold ==
  /\ at = "folding"
  /\ verdict' = IF ~ok THEN "error"
                ELSE IF correctness # "no" THEN "correct" ELSE "manual_review"
  /\ \/ verdict' = "manual_review" /\ at' = "judging"
     \/ at' = "scored"
  /\ UNCHANGED <<question, answer, search, correctness, panel>>

\* Layer 1 never says incorrect.  Only a row it cannot resolve goes to the judges, when
\* there are any.
Fold ==
  /\ at = "folding"
  /\ verdict' = IF ~ok THEN "error"
                ELSE IF correctness = "yes" THEN "correct" ELSE "manual_review"
  /\ \/ verdict' = "manual_review" /\ at' = "judging"
     \/ at' = "scored"
  /\ UNCHANGED <<question, answer, search, correctness, panel>>

\* Without gold nobody can judge equivalence with it.
PanelSize == IF gold = NoSql THEN FreePanel ELSE GoldPanel

\* An answer that cannot be parsed is no vote, and still usage.
Judge ==
  /\ at = "judging" /\ asked < PanelSize
  /\ asked' = asked + 1
  /\ \E used \in 1..MaxUsage : usage' = usage + used
  /\ votes' \in {votes} \cup {votes \cup {v} : v \in Vote}
  /\ UNCHANGED <<question, answer, at, search, correctness, verdict, suggestion>>

\* The call itself fails: the whole run is lost.
JudgeRaises ==
  /\ at = "judging" /\ asked < PanelSize
  /\ at' = "raised"
  /\ UNCHANGED <<question, answer, search, correctness, verdict, panel>>

\* fold_panel: unanimous and confident, or a human looks.
Suggest ==
  /\ at = "judging" /\ asked = PanelSize
  /\ suggestion' = IF votes = {} \/ \E v \in votes : ~v.sure THEN "manual_review"
                   ELSE IF \A v \in votes : v.passed THEN "correct"
                   ELSE IF \A v \in votes : ~v.passed THEN "incorrect"
                   ELSE "manual_review"
  /\ at' = "scored"
  /\ UNCHANGED <<question, answer, search, correctness, verdict, votes, asked, usage>>

Compare == \/ CompareExact \/ CompareSuperset
           \/ Assign \/ Try \/ Backtrack \/ Exhausted

ScoringNext == ExecuteGold \/ ExecuteGenerated \/ Compare \/ Fold \/ Judge \/ JudgeRaises \/ Suggest

ScoringSpec == ScoringInit /\ [][ScoringNext]_scoringVars

\* score_question and adjudicate are one call: it runs on until it returns or raises.
FairScoring == ScoringSpec /\ WF_scoringVars(ScoringNext)

-----------------------------------------------------------------------------
(* What it must do                                                         *)

\* Types, and the frames of the search: distinct candidates, one per gold column so far,
\* and never more complete assignments than the cap.
ScoringTypeOK ==
  /\ gold \in GoldResults \cup {NoSql, Broken} /\ mode \in Modes
  /\ gen \in GenResults \cup {Broken} /\ ok \in BOOLEAN
  /\ at \in {"gold", "generated", "comparing", "searching", "folding", "judging", "scored",
             "raised"}
  /\ path \in Seq(Nat) /\ last \in Nat /\ attempts \in 0..MaxAttempts
  /\ path # << >> =>
       /\ gold \in GoldResults /\ gen \in GenResults /\ Len(path) <= gold.width
       /\ \A i \in DOMAIN path : path[i] \in Candidates(i)
       /\ \A i, k \in DOMAIN path : path[i] = path[k] => i = k
  /\ correctness \in {"yes", "no", "n/a"} /\ verdict \in RowVerdicts \cup {"none"}
  /\ votes \subseteq Vote /\ asked \in 0..(GoldPanel + FreePanel)
  /\ suggestion \in RowVerdicts \cup {"none"} /\ usage \in Nat

\* The generated result holds the gold one: on columns of its own for each gold column
\* (`exact': on all its columns, in order) it has the same rows.
Holds(columns) == SameRows(GoldRows, Project(GenRows, columns))

Injections == {f \in [1..gold.width -> 1..gen.width] :
                 \A i, k \in 1..gold.width : f[i] = f[k] => i = k}

Reproduced ==
  IF mode = "exact" THEN gold.width = gen.width /\ SameRows(GoldRows, GenRows)
  ELSE \E f \in Injections : Holds(f)

\* The headline counts what the database showed: a question is scored correct only if its
\* answer runs and reproduces the gold result under its match mode, and a comparison that
\* was made says no only if it does not, or if the cap ended the search (compare_result_sets
\* with its pruning and backtracking against the definition of the two match modes).
ScoreIsReproduction ==
  /\ correctness = "yes" \/ verdict = "correct" =>
       gold \in GoldResults /\ gen \in GenResults /\ Reproduced
  /\ verdict = "correct" => ok
  /\ correctness = "no" /\ gen # Broken => ~Reproduced \/ attempts = MaxAttempts

\* score_question always comes to an end: the search gives up, the panel is finite.
ScoringEnds == <>(at \in {"scored", "raised"})

\* Layer 1 runs "always" (scorers.py): two statements that ran are compared and the question
\* gets a verdict.
ComparisonNeverRaises == at = "raised" => verdict # "none"
=============================================================================
