---------------------------- MODULE MCOptimizer ----------------------------
(* Optimizer for TLC: the options commands are started with. *)
EXTENDS Optimizer

CONSTANTS MetTargets, OtherTargets, Gains, TrialCounts, Budgets

\* Every combination for a target that can be met, and the defaults for one that cannot.
MCCommands ==
  [target : MetTargets, minGain : Gains, trials : TrialCounts,
   budget : Budgets \cup {NoBudget}, significant : BOOLEAN, scoreTest : BOOLEAN]
  \cup
  [target : OtherTargets, minGain : {1}, trials : {1},
   budget : Budgets \cup {NoBudget}, significant : {FALSE}, scoreTest : {FALSE}]
=============================================================================
