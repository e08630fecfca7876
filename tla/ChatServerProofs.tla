-------------------------- MODULE ChatServerProofs --------------------------
(***************************************************************************)
(* Proofs about ChatServer, for any number of handler threads, launches    *)
(* and requests, any cap, any estimate and any price of a question.        *)
(***************************************************************************)
EXTENDS ChatServer, TLAPS

-----------------------------------------------------------------------------
(* The inductive invariant                                                 *)

\* The lock is held by exactly the thread that stands inside it, and a process
\* that is down has no threads.
LockInv ==
  /\ \A t \in Threads : pc[t] \in Inside <=> lock = t
  /\ server = "down" => \A t \in Threads : pc[t] = "idle"

\* The budget check still holds for whoever passed it.
GateInv == \A t \in Threads : pc[t] \in {"asking", "metering"} => ~WouldExceed

\* The session's total is its ledger rows, what could not be written, and the row about
\* to be written.
LedgerInv ==
  server # "down" =>
    /\ \A t \in Threads : pc[t] = "recording" => spent = ledger - opening + unwritten + usage[t]
    /\ (\A t \in Threads : pc[t] # "recording") => spent = ledger - opening + unwritten

\* What is in the ledger and what the question under way has used was all billed.
BillInv ==
  /\ ledger <= billed
  /\ \A t \in Threads :
       /\ pc[t] \in {"asking", "metering", "recording"} => ledger + usage[t] <= billed
       /\ pc[t] \in {"idle", "ask", "gate", "feedback", "writing"} => usage[t] = 0

Inv == TypeOK /\ LockInv /\ GateInv /\ LedgerInv /\ BillInv /\ OvershootIsOneQuestion

-----------------------------------------------------------------------------
(* Lemmas                                                                  *)

\* What the calls of a question have cost never exceeds MaxAskCost.
LEMMA UsageBound ==
  ASSUME TypeOK
  PROVE  /\ MaxAskCost \in Nat
         /\ \A t \in Threads : usage[t] \in 0..MaxAskCost
<1>1. ASSUME NEW n \in 0..MaxCalls
      PROVE  n * MaxCallCost <= MaxCalls * MaxCallCost
  <2>1. ASSUME NEW a \in Nat, NEW b \in Nat, NEW m \in Nat, a <= b
        PROVE  a * m <= b * m
    BY <2>1
  <2>2. QED
    BY <2>1, ChatAssumption
<1>2. MaxAskCost \in Nat
  BY ChatAssumption DEF MaxAskCost
<1>3. ASSUME NEW t \in Threads
      PROVE  usage[t] \in 0..MaxAskCost
  <2>1. /\ calls[t] \in 0..MaxCalls
        /\ usage[t] \in Nat
        /\ usage[t] <= calls[t] * MaxCallCost
    BY DEF TypeOK
  <2>2. calls[t] * MaxCallCost \in Nat
    BY <2>1, ChatAssumption
  <2>3. QED
    BY <1>1, <1>2, <2>1, <2>2 DEF MaxAskCost
<1>4. QED
  BY <1>2, <1>3

\* One more call keeps what was used within the price of the calls made.
LEMMA CallBound ==
  ASSUME NEW k \in Nat, NEW u \in Nat, NEW m \in Nat, NEW c \in 0..m, u <= k * m
  PROVE  u + c <= (k + 1) * m
<1>1. (k + 1) * m = k * m + m /\ k * m \in Nat
  OBVIOUS
<1>2. QED
  BY <1>1

LEMMA InvInit == Init => Inv
BY ChatAssumption DEF Init, Inv, TypeOK, Steps, LockInv, Inside, GateInv, LedgerInv,
                      BillInv, OvershootIsOneQuestion

\* Every step keeps the types.
LEMMA TypeStep == TypeOK /\ [Next]_vars => TypeOK'
<1> SUFFICES ASSUME TypeOK, [Next]_vars PROVE TypeOK'
  OBVIOUS
<1> USE DEF TypeOK, Steps, books
<1>1. CASE Launch
  BY <1>1, ChatAssumption DEF Launch
<1>2. CASE Interrupt
  BY <1>2 DEF Interrupt
<1>3. CASE Exit
  BY <1>3, ChatAssumption DEF Exit, session
<1>4. ASSUME NEW t \in Threads, Arrive(t)
      PROVE  TypeOK'
  BY <1>4, ChatAssumption DEF Arrive, session
<1>5. ASSUME NEW t \in Threads, Call(t)
      PROVE  TypeOK'
  <2>1. PICK c \in 0..MaxCallCost :
          /\ usage' = [usage EXCEPT ![t] = @ + c]
          /\ billed' = billed + c
    BY <1>5 DEF Call
  <2>2. /\ calls[t] \in Nat /\ calls[t] < MaxCalls
        /\ calls' = [calls EXCEPT ![t] = @ + 1]
        /\ UNCHANGED <<session, spent, lock, pc, books, log, requests>>
    BY <1>5 DEF Call
  <2>3. c \in Nat /\ MaxCallCost \in Nat /\ MaxCalls \in Nat
    BY ChatAssumption
  <2>4. \A u \in Threads : usage'[u] <= calls'[u] * MaxCallCost
    <3>1. usage[t] + c <= (calls[t] + 1) * MaxCallCost
      BY <2>2, <2>3, CallBound
    <3>2. QED
      BY <2>1, <2>2, <3>1
  <2>5. /\ calls' \in [Threads -> 0..MaxCalls]
        /\ usage' \in [Threads -> Nat]
        /\ billed' \in Nat
    BY <2>1, <2>2, <2>3
  <2>6. QED
    BY <2>2, <2>4, <2>5 DEF session
<1>6. ASSUME NEW t \in Threads, TakeLock(t) \/ Gate(t) \/ Answer(t) \/ WriteFeedback(t)
      PROVE  TypeOK'
  BY <1>6 DEF TakeLock, Gate, Answer, WriteFeedback, session
<1>7. ASSUME NEW t \in Threads, Raise(t) \/ Reply(t)
      PROVE  TypeOK'
  BY <1>7, ChatAssumption DEF Raise, Reply, session
<1>8. ASSUME NEW t \in Threads, Meter(t) \/ Record(t)
      PROVE  TypeOK'
  BY <1>8 DEF Meter, Record, session
<1>9. ASSUME NEW t \in Threads, RecordFails(t)
      PROVE  TypeOK'
  BY <1>9, ChatAssumption DEF RecordFails, session
<1>10. CASE UNCHANGED vars
  BY <1>10 DEF vars, session
<1>11. QED
  BY <1>1, <1>2, <1>3, <1>4, <1>5, <1>6, <1>7, <1>8, <1>9, <1>10 DEF Next, Handler

\* Every step keeps the lock with the thread that stands inside it.
LEMMA LockStep == TypeOK /\ LockInv /\ [Next]_vars => LockInv'
<1> SUFFICES ASSUME TypeOK, LockInv, [Next]_vars PROVE LockInv'
  OBVIOUS
<1> USE ChatAssumption DEF TypeOK, LockInv, Inside
<1>1. CASE Launch \/ Interrupt \/ Exit
  BY <1>1 DEF Launch, Interrupt, Exit
<1>2. ASSUME NEW t \in Threads, Arrive(t)
      PROVE  LockInv'
  BY <1>2 DEF Arrive, session
<1>3. ASSUME NEW t \in Threads, TakeLock(t) \/ Gate(t)
      PROVE  LockInv'
  BY <1>3 DEF TakeLock, Gate, session
<1>4. ASSUME NEW t \in Threads, Call(t) \/ Answer(t) \/ Raise(t)
      PROVE  LockInv'
  BY <1>4 DEF Call, Answer, Raise, session
<1>5. ASSUME NEW t \in Threads,
             Meter(t) \/ Record(t) \/ RecordFails(t) \/ Reply(t) \/ WriteFeedback(t)
      PROVE  LockInv'
  BY <1>5 DEF Meter, Record, RecordFails, Reply, WriteFeedback, session
<1>6. CASE UNCHANGED vars
  BY <1>6 DEF vars, session
<1>7. QED
  BY <1>1, <1>2, <1>3, <1>4, <1>5, <1>6 DEF Next, Handler

\* Nobody moves the total while a question is between its check and its meter.
LEMMA MoneyStep == Inv /\ TypeOK' /\ LockInv' /\ [Next]_vars =>
                     GateInv' /\ LedgerInv' /\ OvershootIsOneQuestion'
<1> SUFFICES ASSUME Inv, TypeOK', LockInv', [Next]_vars
             PROVE  GateInv' /\ LedgerInv' /\ OvershootIsOneQuestion'
  OBVIOUS
<1> USE DEF Inv, TypeOK, LockInv, Inside, GateInv, LedgerInv, OvershootIsOneQuestion, WouldExceed,
            books
<1>a. /\ MaxAskCost \in Nat
      /\ \A t \in Threads : usage[t] \in 0..MaxAskCost
      /\ Estimate \in Nat /\ Nobody \notin Threads
      /\ NoBudget \notin Nat /\ Budgets \subseteq Nat
  BY UsageBound, ChatAssumption
<1> HIDE DEF MaxAskCost
<1>1. CASE Launch
  BY <1>1, <1>a DEF Launch
<1>2. CASE Interrupt
  BY <1>2, <1>a DEF Interrupt
<1>3. CASE Exit
  BY <1>3, <1>a DEF Exit
<1>4. ASSUME NEW t \in Threads, Arrive(t) \/ TakeLock(t) \/ WriteFeedback(t)
      PROVE  GateInv' /\ LedgerInv' /\ OvershootIsOneQuestion'
  BY <1>4, <1>a DEF Arrive, TakeLock, WriteFeedback, session
<1>5. ASSUME NEW t \in Threads, Gate(t)
      PROVE  GateInv' /\ LedgerInv' /\ OvershootIsOneQuestion'
  BY <1>5, <1>a DEF Gate, session
<1>6. ASSUME NEW t \in Threads, Call(t) \/ Answer(t)
      PROVE  GateInv' /\ LedgerInv' /\ OvershootIsOneQuestion'
  <2>1. \A u \in Threads : pc[u] # "recording" /\ pc'[u] # "recording"
    BY <1>6 DEF Call, Answer
  <2>2. UNCHANGED <<session, spent, books>>
    BY <1>6 DEF Call, Answer
  <2>3. GateInv'
    BY <1>6, <2>2 DEF Call, Answer, session
  <2>4. QED
    BY <2>1, <2>2, <2>3, <1>a DEF session
<1>7. ASSUME NEW t \in Threads, Raise(t) \/ Reply(t)
      PROVE  GateInv' /\ LedgerInv' /\ OvershootIsOneQuestion'
  BY <1>7, <1>a DEF Raise, Reply, session
<1>8. ASSUME NEW t \in Threads, Meter(t)
      PROVE  GateInv' /\ LedgerInv' /\ OvershootIsOneQuestion'
  <2>1. /\ pc[t] = "metering" /\ lock = t /\ ~WouldExceed /\ server # "down"
        /\ spent' = spent + usage[t]
        /\ pc' = [pc EXCEPT ![t] = "recording"]
        /\ UNCHANGED <<session, lock, calls, usage, books>>
    BY <1>8 DEF Meter
  <2>2. \A u \in Threads : u # t => pc[u] \notin Inside /\ pc'[u] = pc[u]
    BY <2>1, <1>a
  <2>3. LedgerInv'
    BY <2>1, <2>2, <1>a DEF session
  <2>4. GateInv'
    BY <2>1, <2>2
  <2>5. OvershootIsOneQuestion'
    BY <2>1, <1>a DEF session
  <2>6. QED
    BY <2>3, <2>4, <2>5
<1>9. ASSUME NEW t \in Threads, Record(t) \/ RecordFails(t)
      PROVE  GateInv' /\ LedgerInv' /\ OvershootIsOneQuestion'
  <2>1. /\ pc[t] = "recording" /\ lock = t /\ pc'[t] # "recording"
        /\ ledger' + unwritten' = ledger + unwritten + usage[t]
        /\ UNCHANGED <<session, spent>>
    BY <1>9 DEF Record, RecordFails
  <2>2. \A u \in Threads : u # t => pc[u] \notin Inside /\ pc'[u] = pc[u]
    BY <1>9, <2>1, <1>a DEF Record, RecordFails
  <2>3. \A u \in Threads : pc'[u] \notin {"asking", "metering", "recording"}
    BY <1>9, <2>2 DEF Record, RecordFails
  <2>4. LedgerInv'
    BY <2>1, <2>3, <1>a DEF session
  <2>5. QED
    BY <2>1, <2>3, <2>4 DEF session
<1>10. CASE UNCHANGED vars
  BY <1>10 DEF vars, session
<1>11. QED
  BY <1>1, <1>2, <1>3, <1>4, <1>5, <1>6, <1>7, <1>8, <1>9, <1>10 DEF Next, Handler

\* Nothing is put into the ledger that was not billed.
LEMMA BillStep == TypeOK /\ LockInv /\ BillInv /\ TypeOK' /\ [Next]_vars => BillInv'
<1> SUFFICES ASSUME TypeOK, LockInv, BillInv, TypeOK', [Next]_vars
             PROVE  BillInv'
  OBVIOUS
<1> USE ChatAssumption DEF TypeOK, LockInv, Inside, BillInv, books
<1>1. CASE Launch \/ Interrupt \/ Exit
  BY <1>1 DEF Launch, Interrupt, Exit
<1>2. ASSUME NEW t \in Threads, Arrive(t) \/ TakeLock(t) \/ Gate(t) \/ WriteFeedback(t)
      PROVE  BillInv'
  BY <1>2 DEF Arrive, TakeLock, Gate, WriteFeedback, session
<1>3. ASSUME NEW t \in Threads, Call(t)
      PROVE  BillInv'
  <2>1. PICK c \in 0..MaxCallCost : /\ usage' = [usage EXCEPT ![t] = @ + c]
                                   /\ billed' = billed + c
    BY <1>3 DEF Call
  <2>2. pc[t] = "asking" /\ UNCHANGED <<pc, books>>
    BY <1>3 DEF Call
  <2>3. c \in Nat
    BY <2>1
  <2>4. QED
    BY <2>1, <2>2, <2>3
<1>4. ASSUME NEW t \in Threads, Answer(t) \/ Raise(t) \/ Reply(t) \/ Meter(t)
      PROVE  BillInv'
  BY <1>4 DEF Answer, Raise, Reply, Meter, session
<1>5. ASSUME NEW t \in Threads, Record(t) \/ RecordFails(t)
      PROVE  BillInv'
  BY <1>5 DEF Record, RecordFails, session
<1>6. CASE UNCHANGED vars
  BY <1>6 DEF vars, session
<1>7. QED
  BY <1>1, <1>2, <1>3, <1>4, <1>5, <1>6 DEF Next, Handler

LEMMA InvHolds == Spec => []Inv
<1>1. Inv /\ [Next]_vars => Inv'
  BY TypeStep, LockStep, MoneyStep, BillStep DEF Inv
<1>2. QED
  BY InvInit, <1>1, PTL DEF Spec

-----------------------------------------------------------------------------
(* Theorems                                                                *)

\* Every variable keeps its type, and no question costs more than its calls.
THEOREM TypeCorrect == Spec => []TypeOK
BY InvHolds, PTL DEF Inv

\* From its budget check to its ledger row a question has the session to itself.
THEOREM OneQuestionAtATimeHolds == Spec => []OneQuestionAtATime
<1>1. Inv => OneQuestionAtATime
  BY DEF Inv, LockInv, Inside, OneQuestionAtATime
<1>2. QED
  BY <1>1, InvHolds, PTL

\* The cap is overshot by at most one question's cost beyond its estimate.
THEOREM OvershootBounded == Spec => []OvershootIsOneQuestion
BY InvHolds, PTL DEF Inv

\* The meter and the ledger differ by the row being written and by what could not be written.
THEOREM MeterReconcilesHolds == Spec => []MeterReconciles
<1>1. Inv => MeterReconciles
  BY DEF Inv, LockInv, LedgerInv, BillInv, Inside, MeterReconciles
<1>2. QED
  BY <1>1, InvHolds, PTL

\* Once the cap is reached the session's total stays what it is.
THEOREM HardStopHolds == Spec => HardStop
<1>1. Inv /\ [Next]_vars =>
        (server # "down" /\ server' # "down" /\ WouldExceed => spent' = spent)
  <2> SUFFICES ASSUME Inv, [Next]_vars, server # "down", server' # "down", WouldExceed
               PROVE  spent' = spent
    OBVIOUS
  <2>1. CASE \E t \in Threads : Meter(t)
    BY <2>1 DEF Meter, Inv, GateInv
  <2>2. CASE Launch \/ Interrupt \/ Exit
    BY <2>2 DEF Launch, Interrupt, Exit
  <2>3. CASE \E t \in Threads : \/ Arrive(t) \/ TakeLock(t) \/ Gate(t) \/ Call(t) \/ Answer(t)
                                \/ Raise(t) \/ Record(t) \/ RecordFails(t) \/ Reply(t)
                                \/ WriteFeedback(t)
    BY <2>3 DEF Arrive, TakeLock, Gate, Call, Answer, Raise, Record, RecordFails, Reply,
                WriteFeedback
  <2>4. CASE UNCHANGED vars
    BY <2>4 DEF vars
  <2>5. QED
    BY <2>1, <2>2, <2>3, <2>4 DEF Next, Handler
<1>2. QED
  BY <1>1, InvHolds, PTL DEF Spec, HardStop

\* The threaded session implements the atomic one: a question takes effect when
\* it is metered, and every other step of the server is invisible.
THEOREM SessionImplemented == Spec => ImplementsSession
<1>1. Init => Session!Init
  BY DEF Init, Session!Init
<1>2. Inv /\ [Next]_vars => [Session!Next]_(Session!sessionVars)
  <2> SUFFICES ASSUME Inv, [Next]_vars
               PROVE  [Session!Next]_(Session!sessionVars)
    OBVIOUS
  <2>1. CASE \E t \in Threads : Meter(t)
    <3>1. PICK t \in Threads : Meter(t)
      BY <2>1
    <3>2. /\ usage[t] \in 0..MaxAskCost
          /\ spent' = spent + usage[t]
          /\ server # "down"
          /\ cap # NoBudget => spent + Estimate <= cap
          /\ UNCHANGED <<server, cap>>
      BY <3>1, UsageBound, ChatAssumption
         DEF Meter, session, Inv, TypeOK, LockInv, GateInv, WouldExceed
    <3>3. Session!Answer
      BY <3>2 DEF Session!Answer
    <3>4. QED
      BY <3>3 DEF Session!Next
  <2>2. CASE Launch
    BY <2>2 DEF Launch, Session!Next, Session!Start
  <2>3. CASE Exit
    BY <2>3 DEF Exit, Session!Next, Session!Stop
  <2>4. CASE Interrupt
    BY <2>4 DEF Interrupt, Session!sessionVars
  <2>5. CASE \E t \in Threads : \/ Arrive(t) \/ TakeLock(t) \/ Gate(t) \/ Call(t) \/ Answer(t)
                                \/ Raise(t) \/ Record(t) \/ RecordFails(t) \/ Reply(t)
                                \/ WriteFeedback(t)
    BY <2>5 DEF Arrive, TakeLock, Gate, Call, Answer, Raise, Record, RecordFails, Reply,
                WriteFeedback, session, Session!sessionVars
  <2>6. CASE UNCHANGED vars
    BY <2>6 DEF vars, session, Session!sessionVars
  <2>7. QED
    BY <2>1, <2>2, <2>3, <2>4, <2>5, <2>6 DEF Next, Handler
<1>3. QED
  BY <1>1, <1>2, InvHolds, PTL DEF Spec, ImplementsSession, Session!Spec
=============================================================================
