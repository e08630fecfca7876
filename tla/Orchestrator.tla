---------------------------- MODULE Orchestrator ----------------------------
(***************************************************************************)
(* The bounded fan-out of paid work units (sqbyl/orchestrator.py).         *)
(*                                                                         *)
(* One dispatcher thread, the caller of run(), executes the cache-priming  *)
(* units itself, one after the other, and then keeps at most Concurrency   *)
(* wave units in flight on a thread pool.  Every worker retries on a 429   *)
(* up to MaxRetries times.  Only the dispatcher adds to the metered total  *)
(* (`spent'), and only when it collects a finished future.                 *)
(*                                                                         *)
(* A unit is its position in the argument list; outcomes are keyed by the  *)
(* unit's id, as in the code.  Usage is represented by its price, in whole *)
(* currency steps (price() is linear in the tokens).  What a unit produces *)
(* and what an event displays are left out; WHEN an event is emitted is    *)
(* kept, because the callback may raise and because the event carries the  *)
(* total it reads.                                                         *)
(***************************************************************************)
EXTENDS Integers, FiniteSets, FiniteSetsExt

CONSTANTS
  Ids,             \* unit ids a caller may use
  MaxUnits,        \* bound: units handed to one run()
  Concurrency,     \* width of the pool
  MaxRetries,      \* 429s a unit survives
  MaxCallCost,     \* bound: price of what one call of a unit's closure bills
  Budgets,         \* caps a caller may pass
  NoBudget,        \* budget=None
  NoOutcome,       \* no entry for this id in the outcomes dict
  CallbackRaises   \* whether the caller's on_event may raise

Positions   == 1..MaxUnits
MaxUnitCost == (MaxRetries + 1) * MaxCallCost

Outcomes == [unit : Positions, status : {"ok", "failed", "skipped"},
             usage : 0..MaxUnitCost]

ASSUME OrchestratorAssumption ==
  /\ MaxUnits \in Nat
  /\ Concurrency \in Nat \ {0}
  /\ MaxRetries \in Nat
  /\ MaxCallCost \in Nat
  /\ Budgets \subseteq Nat
  /\ NoBudget \notin Nat
  /\ NoOutcome \notin Outcomes
  /\ CallbackRaises \in BOOLEAN

VARIABLES
  phase,     \* where the dispatcher is in run()
  ids,       \* the units of this run: the id at every position
  primes,    \* the positions with primes_cache
  limit,     \* the budget argument
  priced,    \* whether a price function was passed
  todo,      \* positions not yet taken: the rest of `priming' and of `queue'
  inFlight,  \* the in_flight dict
  batch,     \* the finished futures wait() returned, not yet collected
  outcomes,  \* the outcomes dict
  spent,     \* self._spent
  pc,        \* where _exec is for every position
  attempt,   \* its attempt counter
  burned     \* its `burned' usage

request == <<ids, primes, limit, priced>>
worker  == <<pc, attempt, burned>>
vars    == <<phase, request, todo, inFlight, batch, outcomes, spent, worker>>

Units      == DOMAIN ids
Finished   == {"ok", "failed", "raised"}
Active     == {"starting", "calling", "announcing", "retrying", "failing"}
Phases     == {"idle", "priming", "filling", "waiting", "collecting", "closing",
               "returned", "raised"}

\* UnitOutcome(unit, status, usage)
Outcome(p, status, usage) == [unit |-> p, status |-> status, usage |-> usage]

TypeOK ==
  /\ phase \in Phases
  /\ \E n \in 0..MaxUnits : ids \in [1..n -> Ids]
  /\ primes \in SUBSET Units
  /\ limit \in Budgets \cup {NoBudget}
  /\ priced \in BOOLEAN
  /\ todo \in SUBSET Units
  /\ inFlight \in SUBSET Units
  /\ batch \in SUBSET inFlight
  /\ outcomes \in [Ids -> Outcomes \cup {NoOutcome}]
  /\ spent \in Nat
  /\ pc \in [Positions -> {"idle"} \cup Active \cup Finished]
  /\ attempt \in [Positions -> 0..(MaxRetries + 1)]
  /\ burned \in [Positions -> 0..MaxUnitCost]

-----------------------------------------------------------------------------
(* Helpers                                                                 *)

\* Variants named Faulty... are plausible slips in the definition that follows
\* them; no specification uses them.

FaultyUniqueIds == TRUE

\* len({u.id for u in units}) == len(units)
UniqueIds == \A p, q \in Units : ids[p] = ids[q] => p = q

\* Units are taken in argument order, the priming ones and then the others.
FirstOf(S) == CHOOSE p \in S : \A q \in S : p <= q

FaultyOverBudgetStrict == priced /\ limit # NoBudget /\ spent > limit

\* _over_budget
OverBudget == priced /\ limit # NoBudget /\ spent >= limit

\* _account: what collecting the outcome of p adds to the total.
Charge(p) == IF priced THEN burned[p] ELSE 0

FaultyRetriesExhausted(p) == attempt[p] > MaxRetries + 1

\* `attempt > self.max_retries' after a 429
RetriesExhausted(p) == attempt[p] > MaxRetries

\* _emit, called by the worker of p: it goes on to `delivered', or to `raised'
\* when the callback raises.
Emit(p, delivered, raised) ==
  \/ pc' = [pc EXCEPT ![p] = delivered]
  \/ CallbackRaises /\ pc' = [pc EXCEPT ![p] = raised]

-----------------------------------------------------------------------------
(* run(), up to the wave                                                   *)

\* No run is in progress: the locals of run() and _run_wave do not exist.
Init ==
  /\ phase = "idle"
  /\ ids = << >>
  /\ primes = {}
  /\ limit = NoBudget
  /\ priced = FALSE
  /\ todo = {}
  /\ inFlight = {}
  /\ batch = {}
  /\ outcomes = [i \in Ids |-> NoOutcome]
  /\ spent = 0
  /\ pc = [p \in Positions |-> "idle"]
  /\ attempt = [p \in Positions |-> 0]
  /\ burned = [p \in Positions |-> 0]

\* run(units, budget, price): a batch with a repeated id is refused at once.
CallRun ==
  /\ phase = "idle"
  /\ \E n \in 0..MaxUnits : ids' \in [1..n -> Ids]
  /\ primes' \in SUBSET DOMAIN ids'
  /\ limit' \in Budgets \cup {NoBudget}
  /\ priced' \in BOOLEAN
  /\ todo' = DOMAIN ids'
  /\ spent' = IF UniqueIds' THEN 0 ELSE spent
  /\ phase' = IF UniqueIds' THEN "priming" ELSE "raised"
  /\ UNCHANGED <<inFlight, batch, outcomes, worker>>

\* The caller has its result or its exception; the orchestrator keeps only
\* self._spent for the next run().
Leave ==
  /\ phase \in {"returned", "raised"}
  /\ phase' = "idle"
  /\ ids' = << >>
  /\ primes' = {}
  /\ limit' = NoBudget
  /\ priced' = FALSE
  /\ todo' = {}
  /\ inFlight' = {}
  /\ batch' = {}
  /\ outcomes' = [i \in Ids |-> NoOutcome]
  /\ pc' = [p \in Positions |-> "idle"]
  /\ attempt' = [p \in Positions |-> 0]
  /\ burned' = [p \in Positions |-> 0]
  /\ UNCHANGED spent

\* The priming event, then _exec in the dispatcher's own thread.
StartPriming ==
  /\ phase = "priming"
  /\ \E p \in todo \cap primes :
       /\ p = FirstOf(todo \cap primes)
       /\ pc[p] = "idle"
       /\ \/ /\ pc' = [pc EXCEPT ![p] = "starting"]
             /\ attempt' = [attempt EXCEPT ![p] = 1]
             /\ UNCHANGED phase
          \/ /\ CallbackRaises
             /\ phase' = "raised"
             /\ UNCHANGED <<pc, attempt>>
  /\ UNCHANGED <<request, todo, inFlight, batch, outcomes, spent, burned>>

\* outcomes[unit.id] = self._exec(unit); self._account(...)
EndPriming ==
  /\ phase = "priming"
  /\ \E p \in todo \cap primes :
       \/ /\ pc[p] \in {"ok", "failed"}
          /\ outcomes' = [outcomes EXCEPT ![ids[p]] = Outcome(p, pc[p], burned[p])]
          /\ spent' = spent + Charge(p)
          /\ todo' = todo \ {p}
          /\ UNCHANGED phase
       \/ /\ pc[p] = "raised"
          /\ phase' = "raised"
          /\ UNCHANGED <<outcomes, spent, todo>>
  /\ UNCHANGED <<request, inFlight, batch, worker>>

PrimingDone == todo \cap primes = {}

\* Every priming unit has its outcome: _run_wave begins with fill().
ReleaseWave ==
  /\ phase = "priming"
  /\ PrimingDone
  /\ phase' = "filling"
  /\ UNCHANGED <<request, todo, inFlight, batch, outcomes, spent, worker>>

-----------------------------------------------------------------------------
(* _run_wave: fill(), wait(), collect                                      *)

\* fill() goes on while the pool has room and the queue has units.
Room == phase = "filling" /\ Cardinality(inFlight) < Concurrency /\ todo # {}

Submit ==
  /\ Room
  /\ ~OverBudget
  /\ LET p == FirstOf(todo)
     IN /\ todo' = todo \ {p}
        /\ inFlight' = inFlight \cup {p}
        /\ pc' = [pc EXCEPT ![p] = "starting"]
        /\ attempt' = [attempt EXCEPT ![p] = 1]
  /\ UNCHANGED <<phase, request, batch, outcomes, spent, burned>>

\* The outcome is recorded before the event: a raising callback unwinds the pool.
Skip ==
  /\ Room
  /\ OverBudget
  /\ LET p == FirstOf(todo)
     IN /\ todo' = todo \ {p}
        /\ outcomes' = [outcomes EXCEPT ![ids[p]] = Outcome(p, "skipped", 0)]
  /\ \/ UNCHANGED phase
     \/ CallbackRaises /\ phase' = "closing"
  /\ UNCHANGED <<request, inFlight, batch, spent, worker>>

\* fill() returns; `while in_flight' blocks, or the wave is over and run()
\* puts the outcomes in input order.
EndFill ==
  /\ phase = "filling"
  /\ ~Room
  /\ phase' = IF inFlight = {} THEN "returned" ELSE "waiting"
  /\ UNCHANGED <<request, todo, inFlight, batch, outcomes, spent, worker>>

\* wait(..., FIRST_COMPLETED): every future that is done by then.
Wait ==
  /\ phase = "waiting"
  /\ LET done == {p \in inFlight : pc[p] \in Finished}
     IN done # {} /\ batch' = done
  /\ phase' = "collecting"
  /\ UNCHANGED <<request, todo, inFlight, outcomes, spent, worker>>

\* One pass of `for fut in done'.  A future that raised ends the run.
Collect ==
  /\ phase = "collecting"
  /\ \E p \in batch :
       /\ inFlight' = inFlight \ {p}
       /\ \/ /\ pc[p] # "raised"
             /\ outcomes' = [outcomes EXCEPT ![ids[p]] = Outcome(p, pc[p], burned[p])]
             /\ spent' = spent + Charge(p)
             /\ batch' = batch \ {p}
             /\ UNCHANGED phase
          \/ /\ pc[p] = "raised"
             /\ batch' = {}
             /\ phase' = "closing"
             /\ UNCHANGED <<outcomes, spent>>
  /\ UNCHANGED <<request, todo, worker>>

\* The loop over `done' is over: fill() again.
Refill ==
  /\ phase = "collecting"
  /\ batch = {}
  /\ phase' = "filling"
  /\ UNCHANGED <<request, todo, inFlight, batch, outcomes, spent, worker>>

FaultyClose ==
  /\ phase = "closing"
  /\ phase' = "raised"
  /\ UNCHANGED <<request, todo, inFlight, batch, outcomes, spent, worker>>

\* Leaving `with ThreadPoolExecutor' on an exception joins the workers first.
Close ==
  /\ phase = "closing"
  /\ \A p \in inFlight : pc[p] \in Finished
  /\ phase' = "raised"
  /\ UNCHANGED <<request, todo, inFlight, batch, outcomes, spent, worker>>

Dispatcher ==
  \/ StartPriming \/ EndPriming \/ ReleaseWave
  \/ Submit \/ Skip \/ EndFill \/ Wait \/ Collect \/ Refill \/ Close

-----------------------------------------------------------------------------
(* _exec: one unit, in a pool thread or inline when it primes the cache    *)

unchangedByWorker == <<phase, request, todo, inFlight, batch, outcomes, spent>>

\* The started event, inside the try: a raising callback fails the unit.
Started(p) ==
  /\ pc[p] = "starting"
  /\ Emit(p, "calling", "failing")
  /\ UNCHANGED <<unchangedByWorker, attempt, burned>>

\* unit.run() returned a product.
Produced(p) ==
  /\ pc[p] = "calling"
  /\ \E c \in 0..MaxCallCost : burned' = [burned EXCEPT ![p] = @ + c]
  /\ pc' = [pc EXCEPT ![p] = "announcing"]
  /\ UNCHANGED <<unchangedByWorker, attempt>>

\* unit.run() raised RateLimitError; a 429 that carries usage is billed.
RateLimited(p) ==
  /\ pc[p] = "calling"
  /\ \E c \in 0..MaxCallCost : burned' = [burned EXCEPT ![p] = @ + c]
  /\ pc' = [pc EXCEPT ![p] = IF RetriesExhausted(p) THEN "failing" ELSE "retrying"]
  /\ UNCHANGED <<unchangedByWorker, attempt>>

\* unit.run() raised anything else: what it billed in this call is not seen.
Errored(p) ==
  /\ pc[p] = "calling"
  /\ pc' = [pc EXCEPT ![p] = "failing"]
  /\ UNCHANGED <<unchangedByWorker, attempt, burned>>

\* The succeeded event is still inside the try.
Succeeded(p) ==
  /\ pc[p] = "announcing"
  /\ Emit(p, "ok", "failing")
  /\ UNCHANGED <<unchangedByWorker, attempt, burned>>

FaultyBackOff(p) ==
  /\ pc[p] = "retrying"
  /\ pc' = [pc EXCEPT ![p] = "starting"]
  /\ UNCHANGED <<unchangedByWorker, attempt, burned>>

\* The retrying event, the backoff sleep, the next attempt.
BackOff(p) ==
  /\ pc[p] = "retrying"
  /\ \/ /\ pc' = [pc EXCEPT ![p] = "starting"]
        /\ attempt' = [attempt EXCEPT ![p] = @ + 1]
     \/ /\ CallbackRaises
        /\ pc' = [pc EXCEPT ![p] = "raised"]
        /\ UNCHANGED attempt
  /\ UNCHANGED <<unchangedByWorker, burned>>

\* The failed event is emitted in an except clause: nothing catches its callback.
Failed(p) ==
  /\ pc[p] = "failing"
  /\ Emit(p, "failed", "raised")
  /\ UNCHANGED <<unchangedByWorker, attempt, burned>>

Exec(p) ==
  \/ Started(p) \/ Produced(p) \/ RateLimited(p) \/ Errored(p)
  \/ Succeeded(p) \/ BackOff(p) \/ Failed(p)

-----------------------------------------------------------------------------

Next == CallRun \/ Leave \/ Dispatcher \/ \E p \in Positions : Exec(p)

Spec == Init /\ [][Next]_vars

\* The interpreter schedules the dispatcher and every worker thread; a closure
\* returns or raises (the clients behind it have request timeouts).
Fairness == WF_vars(Dispatcher) /\ \A p \in Positions : WF_vars(Exec(p))

FairSpec == Spec /\ Fairness

-----------------------------------------------------------------------------
(* Properties                                                              *)

\* The pool bound counts working threads, priming included: never more than
\* Concurrency closures run at once, and while the cache is primed only one does
\* (_run_wave's fill() and the serial loop of run()).
BoundedConcurrency ==
  Cardinality({p \in Units : pc[p] \in Active})
    <= IF phase = "priming" THEN 1 ELSE Concurrency

\* No wave unit starts before every cache-priming unit has run to completion,
\* wherever in the argument list the priming units stand.
PrimedBeforeWave ==
  \A p \in Units \ primes, q \in primes :
    pc[p] # "idle" => pc[q] \in {"ok", "failed"}

Capped == UniqueIds /\ priced /\ limit # NoBudget

\* "Best-effort to within one wave": under a cap the metered total stays below
\* the cap plus Concurrency full-priced units (retries and billed 429s included),
\* unless the ungated priming units alone cost more.
OvershootWithinOneWave ==
  Capped =>
    \/ spent <= Cardinality(primes) * MaxUnitCost
    \/ spent <= limit - 1 + Concurrency * MaxUnitCost

\* A unit is left out of the run only when the money is really gone, and it
\* stays gone: the cap is reached whenever a skipped outcome is on record.
SkippedOnlyOverBudget ==
  UniqueIds =>
    \A p \in Units :
      outcomes[ids[p]] # NoOutcome /\ outcomes[ids[p]].status = "skipped"
        => priced /\ limit # NoBudget /\ spent >= limit

\* The skipped units are the tail of the wave: the budget gate never passes over
\* a unit and then runs a later one, so a resumed run starts where this one stopped.
SkipsAreTheTail ==
  UniqueIds =>
    \A p, q \in Units \ primes :
      (/\ p < q
       /\ outcomes[ids[p]] # NoOutcome
       /\ outcomes[ids[p]].status = "skipped") => pc[q] = "idle"

\* The list run() returns holds, at each position, the outcome of the unit passed
\* at that position, and total_cost_usd is the sum of the outcomes' usage: nothing
\* is charged twice, charged to another unit, or left out because it failed.
ResultReconciles ==
  phase = "returned" =>
    /\ \A p \in Units : /\ outcomes[ids[p]] # NoOutcome
                        /\ outcomes[ids[p]].unit = p
    /\ spent = IF priced THEN MapThenSumSet(LAMBDA p : outcomes[ids[p]].usage, Units)
                         ELSE 0

\* run() never comes back, normally or with an exception, while a worker thread is
\* still running: a closure that writes a file cannot outlive its run.
NoOrphanWorkers ==
  phase \in {"idle", "returned", "raised"} => \A p \in Units : pc[p] \notin Active

\* "Never a hard stop": as long as the progress callback behaves, the only thing
\* that makes run() raise is a repeated id; a failing unit never does.
NeverAHardStop == ~CallbackRaises /\ phase = "raised" => ~UniqueIds

\* Within one run an outcome, once recorded, is final, and the total only grows.
OutcomesAreFinal ==
  [][phase \notin {"idle", "returned", "raised"} =>
       /\ \A i \in Ids : outcomes[i] # NoOutcome => outcomes'[i] = outcomes[i]
       /\ spent' >= spent]_vars

\* Every run that was accepted ends, whatever the closures do.
RunEnds == (phase = "priming") ~> (phase \in {"returned", "raised"})

-----------------------------------------------------------------------------
(* The contract: a unit's stage is read off the outcomes and its worker    *)

stageBar ==
  [p \in Positions |->
     IF p \notin Units \/ ~UniqueIds     THEN "absent"
     ELSE IF outcomes[ids[p]] # NoOutcome THEN outcomes[ids[p]].status
     ELSE IF pc[p] = "idle"               THEN "pending"
     ELSE IF phase = "raised"             THEN "lost"
     ELSE "running"]

Fanout == INSTANCE BudgetedFanout WITH
  MayAbort <- CallbackRaises,
  open     <- phase \notin {"idle", "returned", "raised"},
  stage    <- stageBar,
  primers  <- IF UniqueIds THEN primes ELSE {},
  cap      <- IF UniqueIds /\ priced THEN limit ELSE NoBudget,
  total    <- spent

\* The threaded dispatcher keeps the contract of BudgetedFanout step by step: each
\* of its steps, and each worker's, is one step of the contract or none.
ImplementsFanout == Fanout!Spec
=============================================================================
