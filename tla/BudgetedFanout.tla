--------------------------- MODULE BudgetedFanout ---------------------------
(***************************************************************************)
(* What a budget-capped fan-out promises its caller, without threads,      *)
(* futures, retries or events (the contract in the docstrings of           *)
(* sqbyl/orchestrator.py as its code keeps it): the caller hands over a    *)
(* batch, and every unit ends exactly once as ok, failed or skipped.       *)
(* Cache-priming units are admitted one at a time and before the others,   *)
(* whatever they cost; another unit is admitted, in order, only when the   *)
(* pool has room and the total is below the cap; a unit is skipped only    *)
(* when the total has reached the cap.                                     *)
(***************************************************************************)
EXTENDS Integers, FiniteSets

CONSTANTS
  MaxUnits,      \* bound: units in a batch
  Concurrency,   \* units admitted at the same time
  MaxUnitCost,   \* bound: what one unit may cost
  Budgets,       \* caps a caller may set
  NoBudget,      \* no cap
  MayAbort       \* whether the batch may be broken off by its progress callback

VARIABLES
  open,    \* a batch is being worked on
  stage,   \* where every unit is
  primers, \* the units that prime the cache
  cap,     \* the cap in force
  total    \* what the settled units of the latest batch cost

fanoutVars == <<open, stage, primers, cap, total>>

Positions == 1..MaxUnits
Stages    == {"absent", "pending", "running", "ok", "failed", "skipped", "lost"}

In(s) == {p \in Positions : stage[p] = s}

CapReached == cap # NoBudget /\ total >= cap

\* Priming units go first, each kind in the order of the batch.
IsNext(p) ==
  LET candidates == IF In("pending") \cap primers # {} THEN In("pending") \cap primers
                                                       ELSE In("pending")
  IN p \in candidates /\ \A q \in candidates : p <= q

Init ==
  /\ open = FALSE
  /\ stage = [p \in Positions |-> "absent"]
  /\ primers = {}
  /\ cap = NoBudget
  /\ total = 0

Begin ==
  /\ ~open
  /\ stage = [p \in Positions |-> "absent"]
  /\ \E n \in 0..MaxUnits :
       /\ stage' = [p \in Positions |-> IF p <= n THEN "pending" ELSE "absent"]
       /\ primers' \in SUBSET (1..n)
  /\ cap' \in Budgets \cup {NoBudget}
  /\ total' = 0
  /\ open' = TRUE

AdmitPrimer(p) ==
  /\ open
  /\ IsNext(p) /\ p \in primers
  /\ In("running") = {}
  /\ stage' = [stage EXCEPT ![p] = "running"]
  /\ UNCHANGED <<open, primers, cap, total>>

Admit(p) ==
  /\ open
  /\ IsNext(p) /\ p \notin primers
  /\ primers \cap In("running") = {}
  /\ Cardinality(In("running")) < Concurrency
  /\ ~CapReached
  /\ stage' = [stage EXCEPT ![p] = "running"]
  /\ UNCHANGED <<open, primers, cap, total>>

Skip(p) ==
  /\ open
  /\ IsNext(p) /\ p \notin primers
  /\ primers \cap In("running") = {}
  /\ CapReached
  /\ stage' = [stage EXCEPT ![p] = "skipped"]
  /\ UNCHANGED <<open, primers, cap, total>>

Settle(p) ==
  /\ open
  /\ stage[p] = "running"
  /\ \E verdict \in {"ok", "failed"} : stage' = [stage EXCEPT ![p] = verdict]
  /\ \E cost \in 0..MaxUnitCost : total' = total + cost
  /\ UNCHANGED <<open, primers, cap>>

End ==
  /\ open
  /\ In("pending") \cup In("running") = {}
  /\ open' = FALSE
  /\ UNCHANGED <<stage, primers, cap, total>>

\* The batch is broken off: what was running has finished but is lost.
Abort ==
  /\ MayAbort
  /\ open
  /\ open' = FALSE
  /\ stage' = [p \in Positions |-> IF stage[p] = "running" THEN "lost" ELSE stage[p]]
  /\ UNCHANGED <<primers, cap, total>>

\* The caller takes the result away.
Clear ==
  /\ ~open
  /\ stage' = [p \in Positions |-> "absent"]
  /\ primers' = {}
  /\ cap' = NoBudget
  /\ UNCHANGED <<open, total>>

Next ==
  \/ Begin \/ End \/ Abort \/ Clear
  \/ \E p \in Positions : AdmitPrimer(p) \/ Admit(p) \/ Skip(p) \/ Settle(p)

Spec == Init /\ [][Next]_fanoutVars
=============================================================================
