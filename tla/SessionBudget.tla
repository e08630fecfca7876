---------------------------- MODULE SessionBudget ----------------------------
(***************************************************************************)
(* What a capped chat session promises, as one atomic counter: a question  *)
(* is answered only if its estimate still fits under the cap, and          *)
(* answering it is one indivisible step from that check to the new total.  *)
(* (The session cap of sqbyl/serve.py over sqbyl_runtime/cost.py.)         *)
(***************************************************************************)
EXTENDS Integers

CONSTANTS
  Estimate,    \* what a question is assumed to cost
  MaxAskCost,  \* bound: what it may really cost
  Budgets,     \* caps a session may be started with
  NoBudget     \* no cap

VARIABLES
  open,   \* a session is running
  cap,    \* its cap
  total   \* what its answered questions cost

sessionVars == <<open, cap, total>>

Init ==
  /\ open = FALSE
  /\ cap = NoBudget
  /\ total = 0

Start ==
  /\ ~open
  /\ open' = TRUE
  /\ cap' \in Budgets \cup {NoBudget}
  /\ total' = 0

\* A refused question changes nothing.
Answer ==
  /\ open
  /\ cap # NoBudget => total + Estimate <= cap
  /\ \E cost \in 0..MaxAskCost : total' = total + cost
  /\ UNCHANGED <<open, cap>>

Stop ==
  /\ open
  /\ open' = FALSE
  /\ UNCHANGED <<cap, total>>

Next == Start \/ Answer \/ Stop

Spec == Init /\ [][Next]_sessionVars
=============================================================================
