----------------------------- MODULE ChatServer -----------------------------
(***************************************************************************)
(* `sqbyl serve' / `sqbyl run': the local chat server (sqbyl/serve.py), its *)
(* in-memory spend meter (sqbyl_runtime/cost.py) and the durable ledger    *)
(* usage.db (sqbyl_runtime/state/usage.py).                                *)
(*                                                                         *)
(* ThreadingHTTPServer gives every request a thread of its own; one lock   *)
(* serializes the questions and the feedback writes.  A question is the    *)
(* several model calls of ask(): the provider bills each one when it is    *)
(* made, the meter and the ledger hear of them only when ask() returns.    *)
(* Ctrl-C ends the process without waiting for the handler threads, which  *)
(* are daemons.  Money is counted in whole currency steps.                 *)
(***************************************************************************)
EXTENDS Integers, FiniteSets

CONSTANTS
  Threads,       \* handler threads alive at the same time
  Nobody,        \* the lock is free
  Estimate,      \* price_usage_estimate(model): the flat price of a question
  MaxCallCost,   \* bound: what one model call bills
  MaxCalls,      \* model calls of one question: selection and self-repair included
  Budgets,       \* --budget values
  NoBudget,      \* no --budget
  MaxRequests,   \* bound: requests over the whole behaviour
  MaxSessions    \* bound: launches of the server

MaxAskCost == MaxCalls * MaxCallCost

ASSUME ChatAssumption ==
  /\ Nobody \notin Threads
  /\ Estimate \in Nat
  /\ MaxCallCost \in Nat
  /\ MaxCalls \in Nat \ {0}
  /\ Budgets \subseteq Nat
  /\ NoBudget \notin Nat
  /\ MaxRequests \in Nat
  /\ MaxSessions \in Nat

VARIABLES
  server,    \* the process: "down", "serving", "stopping"
  cap,       \* self._meter's budget
  spent,     \* self._meter's running total
  lock,      \* who holds self._lock
  pc,        \* where every handler thread is
  calls,     \* model calls made for the question it is answering
  usage,     \* what they cost
  ledger,    \* SUM(cost_usd) of usage.db
  opening,   \* what it was when this session was launched
  unwritten, \* history: what this session metered and could not write to usage.db
  billed,    \* what the provider has billed so far
  log,       \* lines of the feedback log
  requests,  \* requests accepted so far
  sessions   \* launches so far

session == <<server, cap, opening, sessions>>
books   == <<ledger, unwritten>>
vars    == <<session, spent, lock, pc, calls, usage, books, billed, log, requests>>

Steps == {"idle", "ask", "gate", "asking", "metering", "recording", "answered",
          "feedback", "writing"}

\* Where a thread stands inside `with self._lock'.
Inside == {"gate", "asking", "metering", "recording", "writing"}

TypeOK ==
  /\ server \in {"down", "serving", "stopping"}
  /\ cap \in Budgets \cup {NoBudget}
  /\ {spent, ledger, opening, unwritten, billed, log} \subseteq Nat
  /\ lock \in Threads \cup {Nobody}
  /\ pc \in [Threads -> Steps]
  /\ calls \in [Threads -> 0..MaxCalls]
  /\ usage \in [Threads -> Nat]
  /\ \A t \in Threads : usage[t] <= calls[t] * MaxCallCost
  /\ requests \in 0..MaxRequests
  /\ sessions \in 0..MaxSessions

-----------------------------------------------------------------------------
(* The meter                                                               *)

\* Variants named Faulty... are plausible slips in the definition that follows
\* them; no specification uses them.

FaultyWouldExceed == cap # NoBudget /\ spent >= cap

\* SpendMeter.would_exceed(est)
WouldExceed == cap # NoBudget /\ spent + Estimate > cap

-----------------------------------------------------------------------------
(* The process                                                             *)

Init ==
  /\ server = "down"
  /\ cap = NoBudget
  /\ spent = 0
  /\ lock = Nobody
  /\ pc = [t \in Threads |-> "idle"]
  /\ calls = [t \in Threads |-> 0]
  /\ usage = [t \in Threads |-> 0]
  /\ ledger = 0
  /\ opening = 0
  /\ unwritten = 0
  /\ billed = 0
  /\ log = 0
  /\ requests = 0
  /\ sessions = 0

\* A new process: the meter starts from nothing, the ledger is found on disk.
Launch ==
  /\ server = "down"
  /\ sessions < MaxSessions
  /\ server' = "serving"
  /\ cap' \in Budgets \cup {NoBudget}
  /\ spent' = 0
  /\ opening' = ledger
  /\ unwritten' = 0
  /\ sessions' = sessions + 1
  /\ UNCHANGED <<lock, pc, calls, usage, ledger, billed, log, requests>>

\* Ctrl-C: no new request is accepted; the handler threads go on for a while.
Interrupt ==
  /\ server = "serving"
  /\ server' = "stopping"
  /\ UNCHANGED <<cap, opening, sessions, spent, lock, pc, calls, usage, books, billed, log, requests>>

\* The process ends, and its daemon threads with it, wherever they are: after
\* Ctrl-C, or killed while it serves.
Exit ==
  /\ server \in {"serving", "stopping"}
  /\ server' = "down"
  /\ lock' = Nobody
  /\ pc' = [t \in Threads |-> "idle"]
  /\ calls' = [t \in Threads |-> 0]
  /\ usage' = [t \in Threads |-> 0]
  /\ UNCHANGED <<cap, opening, sessions, spent, books, billed, log, requests>>

-----------------------------------------------------------------------------
(* A handler thread                                                        *)

\* do_POST: a valid /ask or /feedback body.
Arrive(t) ==
  /\ server = "serving"
  /\ pc[t] = "idle"
  /\ requests < MaxRequests
  /\ requests' = requests + 1
  /\ \E kind \in {"ask", "feedback"} : pc' = [pc EXCEPT ![t] = kind]
  /\ UNCHANGED <<session, spent, lock, calls, usage, books, billed, log>>

FaultyTakeLock(t) ==
  /\ pc[t] \in {"ask", "feedback"}
  /\ IF pc[t] = "feedback" THEN lock = Nobody /\ lock' = t ELSE UNCHANGED lock
  /\ pc' = [pc EXCEPT ![t] = IF pc[t] = "ask" THEN "gate" ELSE "writing"]
  /\ UNCHANGED <<session, spent, calls, usage, books, billed, log, requests>>

\* with self._lock:
TakeLock(t) ==
  /\ pc[t] \in {"ask", "feedback"}
  /\ lock = Nobody
  /\ lock' = t
  /\ pc' = [pc EXCEPT ![t] = IF pc[t] = "ask" THEN "gate" ELSE "writing"]
  /\ UNCHANGED <<session, spent, calls, usage, books, billed, log, requests>>

\* The session budget is checked before the question is put to the model.
Gate(t) ==
  /\ pc[t] = "gate"
  /\ \/ /\ WouldExceed
        /\ pc' = [pc EXCEPT ![t] = "idle"]
        /\ lock' = Nobody
     \/ /\ ~WouldExceed
        /\ pc' = [pc EXCEPT ![t] = "asking"]
        /\ UNCHANGED lock
  /\ UNCHANGED <<session, spent, calls, usage, books, billed, log, requests>>

\* One model call inside endpoint.ask_one: the provider bills it at once.
Call(t) ==
  /\ pc[t] = "asking"
  /\ calls[t] < MaxCalls
  /\ calls' = [calls EXCEPT ![t] = @ + 1]
  /\ \E c \in 0..MaxCallCost :
       /\ usage' = [usage EXCEPT ![t] = @ + c]
       /\ billed' = billed + c
  /\ UNCHANGED <<session, spent, lock, pc, books, log, requests>>

\* ask_one returns its result, which carries the usage of all its calls.
Answer(t) ==
  /\ pc[t] = "asking"
  /\ calls[t] > 0
  /\ pc' = [pc EXCEPT ![t] = "metering"]
  /\ UNCHANGED <<session, spent, lock, calls, usage, books, billed, log, requests>>

FaultyRaise(t) ==
  /\ pc[t] = "asking"
  /\ pc' = [pc EXCEPT ![t] = "idle"]
  /\ calls' = [calls EXCEPT ![t] = 0]
  /\ usage' = [usage EXCEPT ![t] = 0]
  /\ UNCHANGED <<session, spent, lock, books, billed, log, requests>>

FaultyRaiseKeepsUsage(t) ==
  /\ pc[t] = "asking"
  /\ pc' = [pc EXCEPT ![t] = "idle"]
  /\ calls' = [calls EXCEPT ![t] = 0]
  /\ lock' = Nobody
  /\ UNCHANGED <<session, spent, usage, books, billed, log, requests>>

\* A call raises: the usage collected so far is lost with the exception, the
\* lock is released and the thread ends without an answer.
Raise(t) ==
  /\ pc[t] = "asking"
  /\ pc' = [pc EXCEPT ![t] = "idle"]
  /\ calls' = [calls EXCEPT ![t] = 0]
  /\ usage' = [usage EXCEPT ![t] = 0]
  /\ lock' = Nobody
  /\ UNCHANGED <<session, spent, books, billed, log, requests>>

\* self._meter.record(...): the meter of a session has no store of its own.
Meter(t) ==
  /\ pc[t] = "metering"
  /\ spent' = spent + usage[t]
  /\ pc' = [pc EXCEPT ![t] = "recording"]
  /\ UNCHANGED <<session, lock, calls, usage, books, billed, log, requests>>

FaultyRecord(t) ==
  /\ pc[t] = "recording"
  /\ ledger' = ledger + Estimate
  /\ lock' = Nobody
  /\ pc' = [pc EXCEPT ![t] = "answered"]
  /\ UNCHANGED <<session, spent, unwritten, calls, usage, billed, log, requests>>

\* A fresh UsageStore in this thread; committing its row leaves the lock.
Record(t) ==
  /\ pc[t] = "recording"
  /\ ledger' = ledger + usage[t]
  /\ lock' = Nobody
  /\ pc' = [pc EXCEPT ![t] = "answered"]
  /\ UNCHANGED <<session, spent, unwritten, calls, usage, billed, log, requests>>

\* The row cannot be written (a locked database, a full disk): the lock is released, the
\* thread ends without an answer, and the meter has counted what no row shows.
RecordFails(t) ==
  /\ pc[t] = "recording"
  /\ unwritten' = unwritten + usage[t]
  /\ lock' = Nobody
  /\ pc' = [pc EXCEPT ![t] = "idle"]
  /\ calls' = [calls EXCEPT ![t] = 0]
  /\ usage' = [usage EXCEPT ![t] = 0]
  /\ UNCHANGED <<session, spent, ledger, billed, log, requests>>

\* The JSON answer leaves; it shows the total read now, after the lock was released.
Reply(t) ==
  /\ pc[t] = "answered"
  /\ pc' = [pc EXCEPT ![t] = "idle"]
  /\ calls' = [calls EXCEPT ![t] = 0]
  /\ usage' = [usage EXCEPT ![t] = 0]
  /\ UNCHANGED <<session, spent, lock, books, billed, log, requests>>

\* One line is appended to the feedback log, inside the lock, or the file cannot be written.
WriteFeedback(t) ==
  /\ pc[t] = "writing"
  /\ log' \in {log, log + 1}
  /\ lock' = Nobody
  /\ pc' = [pc EXCEPT ![t] = "idle"]
  /\ UNCHANGED <<session, spent, calls, usage, books, billed, requests>>

Handler(t) ==
  \/ TakeLock(t) \/ Gate(t) \/ Call(t) \/ Answer(t) \/ Raise(t)
  \/ Meter(t) \/ Record(t) \/ RecordFails(t) \/ Reply(t) \/ WriteFeedback(t)

-----------------------------------------------------------------------------

Next ==
  \/ Launch \/ Interrupt \/ Exit
  \/ \E t \in Threads : Arrive(t) \/ Handler(t)

Spec == Init /\ [][Next]_vars

\* The interpreter schedules every handler thread; a model call returns or
\* raises (the clients time out).  Nobody has to ask, to stop or to restart.
Fairness == \A t \in Threads : WF_vars(Handler(t))

FairSpec == Spec /\ Fairness

-----------------------------------------------------------------------------
(* Properties                                                              *)

\* One question at a time is being paid for, from the budget check to its ledger
\* row: the lock of ask() is what keeps "the shared spend meter's
\* check-then-record honest".
OneQuestionAtATime ==
  \A t, u \in Threads :
    pc[t] \in Inside \ {"writing"} /\ pc[u] \in Inside \ {"writing"} => t = u

\* However the threads interleave, a capped session overshoots by no more than
\* what its last question cost beyond the estimate it was admitted on.
OvershootIsOneQuestion ==
  cap # NoBudget /\ spent > 0 => spent <= cap - Estimate + MaxAskCost

\* The meter of the session and the rows the session added to usage.db agree, except for
\* the one question that stands between the two writes and those whose row could not be
\* written; and no row is in usage.db that was not billed.  (A question that raises after
\* its first model call was billed leaves no row.)
MeterReconciles ==
  /\ server # "down" =>
       LET between == {t \in Threads : pc[t] = "recording"}
       IN IF between = {} THEN spent = ledger - opening + unwritten
          ELSE \E t \in between :
                 between = {t} /\ spent = ledger - opening + unwritten + usage[t]
  /\ ledger <= billed

\* Once the session has reached its cap nothing adds to its total any more: no
\* question that passed the check earlier is still on its way.
HardStop ==
  [][server # "down" /\ server' # "down" /\ WouldExceed => spent' = spent]_vars

\* Every request that was accepted ends, with its answer or without one.
RequestsEnd == \A t \in Threads : (pc[t] # "idle") ~> (pc[t] = "idle")

-----------------------------------------------------------------------------
(* The contract                                                            *)

Session == INSTANCE SessionBudget WITH
  open  <- server # "down",
  total <- spent

\* Threads, lock and meter together are the atomic counter of SessionBudget.
ImplementsSession == Session!Spec
=============================================================================
