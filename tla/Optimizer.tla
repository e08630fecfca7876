------------------------------ MODULE Optimizer ------------------------------
(***************************************************************************)
(* `sqbyl optimize' (sqbyl/optimize.py): coach -> apply -> eval in a loop  *)
(* on the dev set.  An edit is written to the working tree, scored by one  *)
(* or more trial evals, and kept or rolled back.                           *)
(*                                                                         *)
(* A dev eval is the set of dev questions it scored correct and its cost;  *)
(* a hosted model may score the same tree differently every time.  A file  *)
(* is its text, as Python reads it, and its line endings.  `spent' is the  *)
(* loop's own total; usage.db receives the same figures, and trace files   *)
(* and persisted runs are left out.  One behaviour is one command.         *)
(***************************************************************************)
EXTENDS Integers, FiniteSets, Sequences

CONSTANTS
  Questions,      \* the dev set
  Files,          \* writable context files a proposal may name
  Texts,          \* what such a file may say
  Absent,         \* the file does not exist
  Unsafe,         \* a target outside the writable files
  NoSnapshot,     \* no edit is on trial
  Commands,       \* the options a command is started with
  NoBudget,       \* no --budget (direct callers)
  MaxRounds,      \* --max-rounds
  MaxProposals,   \* bound: proposals in one Coach report
  CoachEstimate, EvalEstimate,   \* what a Coach call and a dev eval are assumed to cost
  MaxCoachCost, MaxEvalCost      \* bounds: what they may cost

Contents  == [text : Texts, eol : {"lf", "crlf"}] \cup {Absent}
Proposals == [file : Files \cup {Unsafe}, fits : BOOLEAN, text : Texts]
Runs      == [correct : SUBSET Questions, cost : 0..MaxEvalCost]
\* A target is a number of correct questions.
Options   == [target : Nat, minGain : Int, trials : Nat \ {0},
              budget : Nat \cup {NoBudget}, significant : BOOLEAN, scoreTest : BOOLEAN]

ASSUME OptimizerAssumption ==
  /\ IsFiniteSet(Questions) /\ Questions # {}
  /\ Unsafe \notin Files
  /\ Absent \notin [text : Texts, eol : {"lf", "crlf"}]
  /\ NoSnapshot \notin [file : Files, prior : Texts \cup {Absent}]
  /\ Commands \subseteq Options
  /\ NoBudget \notin Nat
  /\ {MaxRounds, MaxProposals, CoachEstimate, EvalEstimate, MaxCoachCost, MaxEvalCost}
       \subseteq Nat

VARIABLES
  options,   \* the command's options
  phase,     \* where _run stands
  tree,      \* the working tree
  frontier,  \* the versions, each with its dev run and the tree it stands for
  rounds,    \* rounds begun and ended
  report,    \* proposals of the current Coach report not yet looked at
  snapshot,  \* the file on trial and what it said before
  trials,    \* trial runs of the edit on trial
  spent,     \* the loop's running total
  stopped    \* the StopReason

vars == <<options, phase, tree, frontier, rounds, report, snapshot, trials, spent, stopped>>

Phases == {"baseline", "deciding", "coaching", "proposing", "trying", "finishing",
           "done", "failed"}

Reasons == {"converged", "target_met", "max_rounds", "budget_exhausted", "no_proposals"}

TypeOK ==
  /\ options \in Options
  /\ phase \in Phases
  /\ tree \in [Files -> Contents]
  /\ frontier \in Seq([run : Runs, tree : [Files -> Contents]])
  /\ phase \notin {"baseline", "failed"} => frontier # << >>
  /\ rounds \in 0..MaxRounds
  /\ report \in Seq(Proposals) /\ Len(report) <= MaxProposals
  /\ snapshot \in [file : Files, prior : Texts \cup {Absent}] \cup {NoSnapshot}
  /\ phase = "trying" <=> snapshot # NoSnapshot
  /\ trials \in Seq(Runs) /\ Len(trials) <= options.trials
  /\ spent \in Nat
  /\ stopped \in Reasons

-----------------------------------------------------------------------------
(* Judging a candidate                                                     *)

Best == frontier[Len(frontier)].run

\* Variants named Faulty... are plausible slips in the definition that follows
\* them; no specification uses them.

\* _paired_delta
Fixed(before, after) == Cardinality(after.correct \ before.correct)
Broke(before, after) == Cardinality(before.correct \ after.correct)

FaultyNetGain(run) == Fixed(Best, run)

NetGain(run) == Fixed(Best, run) - Broke(Best, run)

\* paired_improvement_significant: of the 2^n ways n flips can fall, fewer than one
\* in twenty have at least as many improvements.
Significant(fixed, broke) ==
  LET flips == 1..(fixed + broke)
      tail  == {s \in SUBSET flips : Cardinality(s) >= fixed}
  IN fixed > broke /\ 20 * Cardinality(tail) < Cardinality(SUBSET flips)

\* sorted(range(len(trials)), key=net gain) is stable: equal gains keep their order.
Before(i, j) ==
  \/ NetGain(trials[i]) < NetGain(trials[j])
  \/ NetGain(trials[i]) = NetGain(trials[j]) /\ i < j

\* order[len(order) // 2]
Median ==
  CHOOSE i \in DOMAIN trials :
    Cardinality({j \in DOMAIN trials : Before(j, i)}) = Len(trials) \div 2

\* _judge_trials
Keep ==
  LET votes == {i \in DOMAIN trials : NetGain(trials[i]) >= options.minGain}
      rep   == trials[Median]
  IN /\ 2 * Cardinality(votes) > Len(trials)
     /\ options.significant => Significant(Fixed(Best, rep), Broke(Best, rep))

-----------------------------------------------------------------------------
(* Money and files                                                         *)

FaultyBatchCost == EvalEstimate

\* One candidate is scored `trials' times: the gate covers the whole batch.
BatchCost == EvalEstimate * options.trials

\* _would_exceed
WouldExceed(cost) == options.budget # NoBudget /\ spent + cost > options.budget

\* write_text ends every line with a line feed, whatever the file had.
Written(text) == [text |-> text, eol |-> "lf"]

\* What read_text returns; None when the file is not there.
TextOf(content) == IF content = Absent THEN Absent ELSE content.text

\* _restore
Restored ==
  [tree EXCEPT ![snapshot.file] =
     IF snapshot.prior = Absent THEN Absent ELSE Written(snapshot.prior)]

\* OptimizeResult wants 0 <= target <= 1: another target is found out only now.
ValidTarget == options.target <= Cardinality(Questions)

Stop(reason) == stopped' = reason /\ phase' = "finishing"

-----------------------------------------------------------------------------
(* _run                                                                    *)

Init ==
  /\ options \in Commands
  /\ phase = "baseline"
  /\ tree \in [Files -> Contents]
  /\ frontier = << >>
  /\ rounds = 0
  /\ report = << >>
  /\ snapshot = NoSnapshot
  /\ trials = << >>
  /\ spent = 0
  /\ stopped = "converged"

\* The baseline is scored without asking the budget.
Baseline ==
  /\ phase = "baseline"
  /\ \E run \in Runs :
       /\ frontier' = <<[run |-> run, tree |-> tree]>>
       /\ spent' = spent + run.cost
  /\ phase' = "deciding"
  /\ UNCHANGED <<options, tree, rounds, report, snapshot, trials, stopped>>

TargetMet == Cardinality(Best.correct) >= options.target

\* The top of the loop: the target, the rounds and the budget, in this order.
Decide ==
  /\ phase = "deciding"
  /\ IF TargetMet                     THEN Stop("target_met")
     ELSE IF rounds >= MaxRounds      THEN Stop("max_rounds")
     ELSE IF WouldExceed(CoachEstimate) THEN Stop("budget_exhausted")
     ELSE phase' = "coaching" /\ UNCHANGED stopped
  /\ UNCHANGED <<options, tree, frontier, rounds, report, snapshot, trials, spent>>

\* coach(): a perfect run is not sent to the model, and nothing is proposed for it.
Coach ==
  /\ phase = "coaching"
  /\ \E n \in 0..MaxProposals : report' \in [1..n -> Proposals]
  /\ \E cost \in 0..MaxCoachCost :
       /\ Best.correct = Questions => report' = << >> /\ cost = 0
       /\ spent' = spent + cost
  /\ IF report' = << >> THEN Stop("no_proposals")
     ELSE phase' = "proposing" /\ UNCHANGED stopped
  /\ UNCHANGED <<options, tree, frontier, rounds, snapshot, trials>>

\* A target that is not writable, or an edit apply_proposal refuses: on to the next.
SkipProposal ==
  /\ phase = "proposing" /\ report # << >>
  /\ ~WouldExceed(BatchCost)
  /\ Head(report).file = Unsafe \/ ~Head(report).fits
  /\ report' = Tail(report)
  /\ UNCHANGED <<options, phase, tree, frontier, rounds, snapshot, trials, spent, stopped>>

\* _snapshot, then apply_proposal writes the file.
Apply ==
  /\ phase = "proposing" /\ report # << >>
  /\ ~WouldExceed(BatchCost)
  /\ LET p == Head(report)
     IN /\ p.file # Unsafe /\ p.fits
        /\ snapshot' = [file |-> p.file, prior |-> TextOf(tree[p.file])]
        /\ tree' = [tree EXCEPT ![p.file] = Written(p.text)]
  /\ trials' = << >>
  /\ phase' = "trying"
  /\ UNCHANGED <<options, frontier, rounds, report, spent, stopped>>

\* The next trial batch does not fit: the round and the loop end.
BudgetHit ==
  /\ phase = "proposing" /\ report # << >>
  /\ WouldExceed(BatchCost)
  /\ rounds' = rounds + 1
  /\ report' = << >>
  /\ Stop("budget_exhausted")
  /\ UNCHANGED <<options, tree, frontier, snapshot, trials, spent>>

\* Every proposal of the round was skipped or reverted.
RoundConverged ==
  /\ phase = "proposing" /\ report = << >>
  /\ rounds' = rounds + 1
  /\ Stop("converged")
  /\ UNCHANGED <<options, tree, frontier, report, snapshot, trials, spent>>

FaultyTrial ==
  /\ phase = "trying"
  /\ Len(trials) <= options.trials
  /\ \E run \in Runs :
       /\ trials' = Append(trials, run)
       /\ spent' = spent + run.cost
  /\ UNCHANGED <<options, phase, tree, frontier, rounds, report, snapshot, stopped>>

\* The edit on trial is scored against the dev set once more.
Trial ==
  /\ phase = "trying"
  /\ Len(trials) < options.trials
  /\ \E run \in Runs :
       /\ trials' = Append(trials, run)
       /\ spent' = spent + run.cost
  /\ UNCHANGED <<options, phase, tree, frontier, rounds, report, snapshot, stopped>>

\* The edit helped: it is the new best, and the rest of this report is dropped.
KeepEdit ==
  /\ phase = "trying"
  /\ Len(trials) = options.trials
  /\ Keep
  /\ frontier' = Append(frontier, [run |-> trials[Median], tree |-> tree])
  /\ rounds' = rounds + 1
  /\ report' = << >>
  /\ snapshot' = NoSnapshot
  /\ trials' = << >>
  /\ phase' = "deciding"
  /\ UNCHANGED <<options, tree, spent, stopped>>

FaultyRevertEdit ==
  /\ phase = "trying"
  /\ Len(trials) = options.trials
  /\ ~Keep
  /\ tree' = Restored
  /\ snapshot' = NoSnapshot
  /\ trials' = << >>
  /\ phase' = "proposing"
  /\ UNCHANGED <<options, frontier, rounds, report, spent, stopped>>

\* The edit did not help: the file is put back and the next proposal is tried.
RevertEdit ==
  /\ phase = "trying"
  /\ Len(trials) = options.trials
  /\ ~Keep
  /\ tree' = Restored
  /\ report' = Tail(report)
  /\ snapshot' = NoSnapshot
  /\ trials' = << >>
  /\ phase' = "proposing"
  /\ UNCHANGED <<options, frontier, rounds, spent, stopped>>

\* A step that calls a model: a perfect run is not coached, and the held-out eval is
\* optional.
CanFail ==
  \/ phase \in {"baseline", "trying"}
  \/ phase = "coaching" /\ Best.correct # Questions
  \/ phase = "finishing" /\ options.scoreTest /\ ValidTarget

FaultyFail ==
  /\ CanFail
  /\ phase' = "failed"
  /\ snapshot' = NoSnapshot
  /\ UNCHANGED <<options, tree, frontier, rounds, report, trials, spent, stopped>>

\* A model call or an eval raises and the command ends without a result; a
\* `finally' puts the file on trial back first.
Fail ==
  /\ CanFail
  /\ phase' = "failed"
  /\ tree' = IF phase = "trying" THEN Restored ELSE tree
  /\ snapshot' = NoSnapshot
  /\ UNCHANGED <<options, frontier, rounds, report, trials, spent, stopped>>

\* _finish: the picked version is scored on the held-out test, once and ungated;
\* a test set that is missing or empty costs nothing.
Finish ==
  /\ phase = "finishing"
  /\ ValidTarget
  /\ \E cost \in 0..MaxEvalCost :
       /\ ~options.scoreTest => cost = 0
       /\ spent' = spent + cost
  /\ phase' = "done"
  /\ UNCHANGED <<options, tree, frontier, rounds, report, snapshot, trials, stopped>>

\* Building the result raises ValidationError.
RejectTarget ==
  /\ phase = "finishing"
  /\ ~ValidTarget
  /\ phase' = "failed"
  /\ UNCHANGED <<options, tree, frontier, rounds, report, snapshot, trials, spent, stopped>>

Next ==
  \/ Baseline \/ Decide \/ Coach \/ SkipProposal \/ Apply \/ BudgetHit \/ RoundConverged
  \/ Trial \/ KeepEdit \/ RevertEdit \/ Fail \/ Finish \/ RejectTarget

Spec == Init /\ [][Next]_vars

\* One thread runs the loop, and every model call returns or raises.
FairSpec == Spec /\ WF_vars(Next)

-----------------------------------------------------------------------------
(* Properties                                                              *)

\* Whatever has been tried, and however the command ends, the working tree says what
\* the last kept version says; only the one file on trial may differ, and only
\* while it is on trial (so a kill at any moment leaves at most that file changed).
WorkingTreeIsPicked ==
  frontier # << >> =>
    \A f \in Files :
      TextOf(tree[f]) # TextOf(frontier[Len(frontier)].tree[f]) =>
        snapshot # NoSnapshot /\ snapshot.file = f

\* Every kept version answers at least min_gain more dev questions than the one
\* before it: the majority that accepts an edit and the run recorded for it agree.
FrontierClimbs ==
  \A v \in 2..Len(frontier) :
    Cardinality(frontier[v].run.correct)
      >= Cardinality(frontier[v - 1].run.correct) + options.minGain

\* When no call costs more than its estimate, everything but the held-out eval fits
\* under the budget, or the baseline alone was already above it.
LoopStaysInBudget ==
  /\ options.budget # NoBudget
  /\ MaxCoachCost <= CoachEstimate /\ MaxEvalCost <= EvalEstimate
  /\ frontier # << >> /\ phase # "done"
  => spent <= options.budget \/ spent = frontier[1].run.cost

\* What the loop reports as its reason is true of the version it picked: the target is
\* reported exactly when it is met, max_rounds only after that many kept edits, and the
\* budget only when the next step really does not fit.
StopReasonIsTrue ==
  phase \in {"finishing", "done"} =>
    /\ stopped = "target_met" <=> TargetMet
    /\ stopped = "max_rounds" => rounds = MaxRounds /\ Len(frontier) = MaxRounds + 1
    /\ stopped = "budget_exhausted" /\ phase = "finishing" =>
         WouldExceed(CoachEstimate) \/ WouldExceed(BatchCost)

\* The command ends, even when edits that gain nothing are kept.
CommandEnds == <>(phase \in {"done", "failed"})
=============================================================================
