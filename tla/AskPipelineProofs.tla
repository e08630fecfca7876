------------------------- MODULE AskPipelineProofs -------------------------
(***************************************************************************)
(* Proofs about AskPipeline, for any number of tables, any ranking, any    *)
(* cap and any number of repairs: what is sent to the model, what runs and *)
(* what is billed.                                                         *)
(***************************************************************************)
EXTENDS AskPipeline, Integers, FiniteSetTheorems, TLAPS

-----------------------------------------------------------------------------
(* Finite orders: what a cap on the best of a ranking rests on             *)

\* An order on S is given by the predecessors pred[t] of each element t.
StrictOrder(S, pred) ==
  /\ pred \in [S -> SUBSET S]
  /\ \A t \in S : t \notin pred[t]
  /\ \A t, u \in S : t # u => t \in pred[u] \/ u \in pred[t]
  /\ \A t, u, v \in S : t \in pred[u] /\ u \in pred[v] => t \in pred[v]

LEMMA IntervalSize ==
  ASSUME NEW n \in Nat
  PROVE  /\ IsFiniteSet(1..n) /\ Cardinality(1..n) = n
         /\ IsFiniteSet(0..(n - 1)) /\ Cardinality(0..(n - 1)) = n
<1>1. 0 \in Int /\ 1 \in Int /\ n \in Int /\ n - 1 \in Int
  OBVIOUS
<1>2. IsFiniteSet(1..n) /\ Cardinality(1..n) = IF 1 > n THEN 0 ELSE n - 1 + 1
  BY <1>1, FS_Interval
<1>3. /\ IsFiniteSet(0..(n - 1))
      /\ Cardinality(0..(n - 1)) = IF 0 > n - 1 THEN 0 ELSE (n - 1) - 0 + 1
  BY <1>1, FS_Interval
<1>4. Cardinality(1..n) = n
  BY <1>2
<1>5. Cardinality(0..(n - 1)) = n
  BY <1>3
<1>6. QED
  BY <1>2, <1>3, <1>4, <1>5

\* No two elements have the same number of predecessors.
LEMMA RanksDiffer ==
  ASSUME NEW S, IsFiniteSet(S), NEW pred, StrictOrder(S, pred)
  PROVE  /\ \A t \in S : IsFiniteSet(pred[t]) /\ Cardinality(pred[t]) \in Nat
         /\ \A t \in S : Cardinality(pred[t]) < Cardinality(S)
         /\ \A t, u \in S : Cardinality(pred[t]) = Cardinality(pred[u]) => t = u
<1>1. Cardinality(S) \in Nat
  BY FS_CardinalityType
<1>2. ASSUME NEW t \in S
      PROVE  IsFiniteSet(pred[t]) /\ Cardinality(pred[t]) \in Nat
  BY FS_Subset, FS_CardinalityType DEF StrictOrder
<1>3. ASSUME NEW t \in S
      PROVE  Cardinality(pred[t]) < Cardinality(S)
  <2>1. pred[t] \in SUBSET S /\ pred[t] # S
    BY DEF StrictOrder
  <2>2. Cardinality(pred[t]) <= Cardinality(S) /\ Cardinality(pred[t]) # Cardinality(S)
    BY <2>1, FS_Subset
  <2>3. QED
    BY <1>1, <1>2, <2>2
<1>4. ASSUME NEW t \in S, NEW u \in S, t \in pred[u]
      PROVE  Cardinality(pred[t]) < Cardinality(pred[u])
  <2>1. pred[t] \in SUBSET pred[u] /\ t \notin pred[t]
    BY <1>4 DEF StrictOrder
  <2>2. /\ Cardinality(pred[t]) <= Cardinality(pred[u])
        /\ Cardinality(pred[t]) = Cardinality(pred[u]) => pred[t] = pred[u]
    BY <1>2, <2>1, FS_Subset
  <2>3. pred[t] # pred[u]
    BY <1>4, <2>1
  <2>4. QED
    BY <1>2, <2>2, <2>3
<1>5. ASSUME NEW t \in S, NEW u \in S, t # u
      PROVE  Cardinality(pred[t]) # Cardinality(pred[u])
  <2>1. Cardinality(pred[t]) \in Nat /\ Cardinality(pred[u]) \in Nat
    BY <1>2
  <2>2. t \in pred[u] \/ u \in pred[t]
    BY <1>5 DEF StrictOrder
  <2>3. QED
    BY <1>4, <2>1, <2>2
<1>6. QED
  BY <1>2, <1>3, <1>5

\* At most n elements have fewer than n predecessors.
LEMMA AtMost ==
  ASSUME NEW S, IsFiniteSet(S), NEW pred, StrictOrder(S, pred), NEW n \in Nat,
         NEW F \in SUBSET S, \A t \in F : Cardinality(pred[t]) < n
  PROVE  IsFiniteSet(F) /\ Cardinality(F) <= n
<1> DEFINE rank == [t \in F |-> Cardinality(pred[t])]
<1>1. IsFiniteSet(F)
  BY FS_Subset
<1>2. rank \in [F -> 0..(n - 1)]
  <2>1. ASSUME NEW t \in F
        PROVE  Cardinality(pred[t]) \in 0..(n - 1)
    <3>1. Cardinality(pred[t]) \in Nat /\ Cardinality(pred[t]) < n
      BY RanksDiffer
    <3>2. QED
      BY <3>1
  <2>2. QED
    BY <2>1
<1>3. \A t, u \in F : rank[t] = rank[u] => t = u
  BY RanksDiffer
<1>4. rank \in Injection(F, 0..(n - 1))
  <2> HIDE DEF rank
  <2>1. QED
    BY <1>2, <1>3 DEF Injection, IsInjective
<1>5. IsFiniteSet(0..(n - 1)) /\ Cardinality(0..(n - 1)) = n
  BY IntervalSize
<1>6. Cardinality(F) <= n
  <2> HIDE DEF rank
  <2>1. QED
    BY <1>4, <1>5, FS_Injection
<1>7. QED
  BY <1>1, <1>6

-----------------------------------------------------------------------------
(* The inductive invariant                                                 *)

\* How far the question is: each generation that was billed has failed, or is at work.
AttemptInv ==
  /\ pc = "generating" => Len(attempts) = billed["generate"]
  /\ pc \in {"validating", "executing", "narrating"} =>
       Len(attempts) + 1 = billed["generate"] /\ gen \in Statement
  /\ pc = "selecting" => /\ attempts = << >> /\ trace = << >> /\ executed = << >>
                         /\ billed = [c \in Calls |-> 0]
                         /\ usage = [agent |-> 0, narration |-> 0]

\* Until the question returns the trace is one span per billed call, and the usage is
\* complete unless the call that raised took its own away.
MoneyInv ==
  /\ pc # "returned" =>
       /\ \A i \in DOMAIN trace : trace[i] \in Calls
       /\ Len(trace) = NumBilled
       /\ billed["narrate"] = 0 /\ usage.narration = 0
  /\ pc \notin {"returned", "raised"} => usage.agent = billed["select"] + billed["generate"]

\* The statement at work has passed what came before; nothing that ran so far had an answer,
\* but the one that is narrated.
SqlInv ==
  /\ pc = "executing" => explained /\ (options.explains => gen.binds)
  /\ pc \in {"generating", "validating", "executing"} =>
       /\ Len(executed) <= Len(attempts)
       /\ \A i \in DOMAIN executed : ~executed[i].statement.runs
  /\ pc = "narrating" => /\ executed # << >> /\ gen = executed[Len(executed)].statement
                         /\ gen.runs

\* The conversation, also while a statement of its last answer is at work.
Conversation ==
  pc \in {"generating", "validating", "executing"} =>
    /\ Len(messages) = 2 * Len(attempts) + 1
    /\ \A i \in DOMAIN messages :
         messages[i].role = IF i % 2 = 1 THEN "user" ELSE "assistant"
    /\ messages[1].about = "question"
    /\ \A k \in DOMAIN attempts : messages[2 * k + 1].about = attempts[k]

\* What selection keeps.
SchemaIsSound ==
  pc \notin {"selecting", "raised"} =>
    /\ context.tables # {}
    /\ context.strategy = "include_all" <=>
         options.strategy = "include_all" \/ context.fellBack
    /\ context.strategy = "include_all" => context.tables = Tables
    /\ context.strategy # "include_all" => Cardinality(context.tables) <= Cap
    /\ context.strategy = "lexical" =>
         \A t \in context.tables, u \in Tables \ context.tables : Before(t, u)

Inv == /\ TypeOK /\ AttemptInv /\ MoneyInv /\ SqlInv /\ Conversation /\ SchemaIsSound
       /\ SpendIsTraced /\ OnlyValidatedSqlRuns

LEMMA InvInit == Init => Inv
<1> SUFFICES ASSUME Init PROVE Inv
  OBVIOUS
<1>1. TypeOK
  <2>1. options.strategy \in Strategies /\ options.repairs \in Nat
    BY AskPipelineAssumption DEF Init, Options
  <2>2. context \in Context
    BY <2>1 DEF Init, Context
  <2>3. billed \in [Calls -> Nat] /\ billed["generate"] <= options.repairs + 1
    BY <2>1 DEF Init, Calls
  <2>4. attempts \in Seq(Errors) /\ Len(attempts) <= options.repairs + 1
    BY <2>1 DEF Init
  <2>5. /\ messages \in Seq(Message) /\ trace \in Seq(Calls \cup {"ok", "error"})
        /\ executed \in Seq([statement : Statement, explained : BOOLEAN])
    BY DEF Init
  <2>6. usage \in [agent : Nat, narration : Nat]
    BY DEF Init
  <2>7. (result = NoResult <=> pc # "returned") /\ gen \in Statement \cup {NoStatement}
    BY DEF Init
  <2>8. /\ options \in Options /\ score \in [Tables -> 0..MaxScore] /\ pc = "selecting"
        /\ explained \in BOOLEAN
    BY DEF Init
  <2>9. QED
    BY <2>2, <2>3, <2>4, <2>5, <2>6, <2>7, <2>8 DEF TypeOK
<1>2. AttemptInv /\ MoneyInv /\ SqlInv /\ Conversation /\ SchemaIsSound
  BY DEF Init, AttemptInv, MoneyInv, SqlInv, Conversation, SchemaIsSound, NumBilled, Calls
<1>3. SpendIsTraced
  <2>1. Children = {}
    BY DEF Init, Children
  <2>2. QED
    BY <2>1, FS_EmptySet DEF Init, SpendIsTraced, NumBilled, Calls
<1>4. OnlyValidatedSqlRuns
  BY DEF Init, OnlyValidatedSqlRuns, Calls
<1>5. QED
  BY <1>1, <1>2, <1>3, <1>4 DEF Inv

-----------------------------------------------------------------------------
(* Types                                                                   *)

LEMMA RetryType ==
  ASSUME TypeOK, NEW error \in Errors, Retry(error), Len(attempts) <= options.repairs
  PROVE  /\ attempts' \in Seq(Errors) /\ Len(attempts') = Len(attempts) + 1
         /\ Len(attempts) \in Nat /\ options.repairs \in Nat
         /\ messages' \in Seq(Message) /\ pc' = "generating"
<1>1. /\ attempts \in Seq(Errors) /\ messages \in Seq(Message) /\ options.repairs \in Nat
  BY AskPipelineAssumption DEF TypeOK, Options
<1>2. /\ [role |-> "assistant", about |-> error] \in Message
      /\ [role |-> "user", about |-> error] \in Message
  BY DEF Message
<1>3. QED
  BY <1>1, <1>2 DEF Retry

\* What every step keeps; one lemma per group of conjuncts.
LEMMA TypeFacts ==
  ASSUME Inv
  PROVE  /\ attempts \in Seq(Errors) /\ Len(attempts) \in Nat
         /\ messages \in Seq(Message) /\ trace \in Seq(Calls \cup {"ok", "error"})
         /\ executed \in Seq([statement : Statement, explained : BOOLEAN])
         /\ options.repairs \in Nat /\ options.strategy \in Strategies
         /\ usage.agent \in Nat /\ usage.narration \in Nat
         /\ \A c \in Calls : billed[c] \in Nat
         /\ billed = [c \in Calls |-> billed[c]]
         /\ usage = [agent |-> usage.agent, narration |-> usage.narration]
<1>1. /\ attempts \in Seq(Errors) /\ messages \in Seq(Message)
      /\ trace \in Seq(Calls \cup {"ok", "error"})
      /\ executed \in Seq([statement : Statement, explained : BOOLEAN])
      /\ options \in Options
      /\ usage \in [agent : Nat, narration : Nat]
      /\ billed \in [Calls -> Nat]
  BY DEF Inv, TypeOK
<1>2. options.repairs \in Nat /\ options.strategy \in Strategies
  BY <1>1, AskPipelineAssumption DEF Options
<1>3. /\ usage.agent \in Nat /\ usage.narration \in Nat
      /\ usage = [agent |-> usage.agent, narration |-> usage.narration]
  BY <1>1
<1>4. (\A c \in Calls : billed[c] \in Nat) /\ billed = [c \in Calls |-> billed[c]]
  BY <1>1
<1>5. Len(attempts) \in Nat
  BY <1>1
<1>6. QED
  BY <1>1, <1>2, <1>3, <1>4, <1>5

LEMMA StillRepairing ==
  ASSUME Inv, pc \in {"validating", "executing", "narrating"} \/ MoreAttempts
  PROVE  Len(attempts) <= options.repairs
BY TypeFacts DEF Inv, TypeOK, AttemptInv, MoreAttempts, Calls

LEMMA GuardErrorType == GuardError # "none" => GuardError \in Errors
BY DEF GuardError, Errors

LEMMA SelectionType ==
  ASSUME NEW chosen \in SUBSET Tables, NEW strategy \in Strategies
  PROVE  Selected(chosen, strategy) \in Context
BY DEF Selected, Context, Strategies

\* A result is one.
LEMMA AnswerIsResult ==
  ASSUME TypeOK, gen \in Statement, NEW narrated \in Nat, Answer(narrated)
  PROVE  result' # NoResult /\ pc' = "returned"
<1>1. attempts \in Seq(Errors) /\ usage \in [agent : Nat, narration : Nat]
  BY DEF TypeOK
<1>2. [usage EXCEPT !.narration = narrated] \in [agent : Nat, narration : Nat]
  BY <1>1
<1>3. result' \in [ok : BOOLEAN, statement : Statement \cup {NoStatement}, attempts : Nat,
                   usage : [agent : Nat, narration : Nat]]
  BY <1>1, <1>2 DEF Answer
<1>4. QED
  BY <1>3, AskPipelineAssumption DEF Answer

LEMMA TypeStep ==
  ASSUME Inv, [Next]_vars
  PROVE  TypeOK'
<1> USE DEF Strategies
<1>1. TypeOK
  BY DEF Inv
<1>2. CASE SelectLocally
  <2>1. context' \in Context
    <3>1. CASE Open([tables |-> Tables, strategy |-> "include_all", fellBack |-> FALSE])
      BY <3>1 DEF Open, Context
    <3>2. CASE Open(Selected({t \in Top(Cap) : score[t] > 0}, "lexical"))
      <4>1. {t \in Top(Cap) : score[t] > 0} \in SUBSET Tables
        BY DEF Top
      <4>2. QED
        BY <3>2, <4>1, SelectionType DEF Open
    <3>3. QED
      BY <1>2, <3>1, <3>2 DEF SelectLocally
  <2>2. messages' \in Seq(Message) /\ pc' = "generating"
    <3>1. [role |-> "user", about |-> "question"] \in Message
      BY DEF Message
    <3>2. messages' = <<[role |-> "user", about |-> "question"]>> /\ pc' = "generating"
      BY <1>2 DEF SelectLocally, Open
    <3>3. QED
      BY <3>1, <3>2
  <2>3. QED
    BY <1>1, <1>2, <2>1, <2>2 DEF SelectLocally, TypeOK, history
<1>3. CASE Shortlist
  <2>1. /\ pc = "selecting"
        /\ billed = [c \in Calls |-> 0] /\ usage = [agent |-> 0, narration |-> 0]
    BY <1>3 DEF Shortlist, Inv, AttemptInv
  <2>2. billed' \in [Calls -> Nat] /\ billed'["generate"] <= options.repairs + 1
    BY <1>3, <2>1, TypeFacts DEF Shortlist, Calls
  <2>3. /\ usage' \in [agent : Nat, narration : Nat]
        /\ trace' \in Seq(Calls \cup {"ok", "error"})
    <3>1. "select" \in Calls \cup {"ok", "error"}
      BY DEF Calls
    <3>2. /\ usage' = [usage EXCEPT !.agent = 1] \/ usage' = usage
          /\ trace' = Append(trace, "select")
      BY <1>3 DEF Shortlist
    <3>3. usage' \in [agent : Nat, narration : Nat]
      BY <1>1, <3>2 DEF TypeOK
    <3>4. trace \in Seq(Calls \cup {"ok", "error"})
      BY TypeFacts
    <3>5. QED
      BY <3>1, <3>2, <3>3, <3>4
  <2>4. CASE pc' = "raised" /\ UNCHANGED <<context, messages, usage>>
    BY <1>1, <1>3, <2>1, <2>2, <2>3, <2>4 DEF Shortlist, TypeOK
  <2>5. CASE \E names \in SUBSET (Tables \cup {Unknown}) :
               Open(Selected(FirstIn(names \cap Tables, Cap), options.strategy))
    <3>1. PICK names \in SUBSET (Tables \cup {Unknown}) :
            Open(Selected(FirstIn(names \cap Tables, Cap), options.strategy))
      BY <2>5
    <3>2. FirstIn(names \cap Tables, Cap) \in SUBSET Tables
      BY DEF FirstIn
    <3>3. context' \in Context
      BY <3>1, <3>2, SelectionType, TypeFacts DEF Open
    <3>4. messages' \in Seq(Message) /\ pc' = "generating"
      <4>1. [role |-> "user", about |-> "question"] \in Message
        BY DEF Message
      <4>2. messages' = <<[role |-> "user", about |-> "question"]>> /\ pc' = "generating"
        BY <3>1 DEF Open
      <4>3. QED
        BY <4>1, <4>2
    <3>5. QED
      BY <1>1, <1>3, <2>1, <2>2, <2>3, <3>3, <3>4 DEF Shortlist, TypeOK
  <2>6. QED
    BY <1>3, <2>4, <2>5 DEF Shortlist
<1>4. CASE Generate
  <2>1. /\ Len(attempts) <= options.repairs /\ Len(attempts) = billed["generate"]
        /\ pc = "generating"
    BY <1>4, StillRepairing DEF Generate, MoreAttempts, Inv, AttemptInv
  <2>2. billed' \in [Calls -> Nat] /\ billed'["generate"] <= options.repairs + 1
    BY SMTT(30), <1>4, <2>1, <1>1, TypeFacts DEF Generate, TypeOK, Calls
  <2>3. /\ usage' \in [agent : Nat, narration : Nat]
        /\ trace' \in Seq(Calls \cup {"ok", "error"})
    <3>1. "generate" \in Calls \cup {"ok", "error"}
      BY DEF Calls
    <3>2. usage' = [usage EXCEPT !.agent = @ + 1] /\ trace' = Append(trace, "generate")
      BY <1>4 DEF Generate
    <3>3. usage' \in [agent : Nat, narration : Nat]
      <4>1. usage' = [agent |-> usage.agent + 1, narration |-> usage.narration]
        BY <1>1, <3>2 DEF TypeOK
      <4>2. QED
        BY <4>1, TypeFacts
    <3>4. trace \in Seq(Calls \cup {"ok", "error"})
      BY TypeFacts
    <3>5. QED
      BY <3>1, <3>2, <3>3, <3>4
  <2>4. CASE Retry("schema") /\ UNCHANGED <<gen, explained>>
    <3>1. /\ attempts' \in Seq(Errors) /\ Len(attempts') <= options.repairs + 1
          /\ messages' \in Seq(Message) /\ pc' = "generating"
      BY <1>1, <2>1, <2>4, RetryType DEF Errors
    <3>2. QED
      BY <1>1, <1>4, <2>1, <2>2, <2>3, <2>4, <3>1 DEF Generate, TypeOK
  <2>5. CASE /\ gen' \in Statement /\ explained' = FALSE /\ pc' = "validating"
             /\ UNCHANGED <<attempts, messages>>
    BY <1>1, <1>4, <2>1, <2>2, <2>3, <2>5 DEF Generate, TypeOK
  <2>6. QED
    BY <1>4, <2>4, <2>5 DEF Generate
<1>5. CASE Validate
  <2>1. Len(attempts) <= options.repairs /\ pc = "validating"
    BY <1>5, StillRepairing DEF Validate
  <2>2. CASE \E error \in Errors : Retry(error) /\ UNCHANGED explained
    <3>1. /\ attempts' \in Seq(Errors) /\ Len(attempts') <= options.repairs + 1
          /\ messages' \in Seq(Message) /\ pc' = "generating"
      BY <1>1, <2>1, <2>2, RetryType
    <3>2. QED
      BY <1>1, <1>5, <2>1, <2>2, <3>1 DEF Validate, TypeOK
  <2>3. CASE pc' = "executing" /\ explained' = TRUE /\ UNCHANGED <<attempts, messages>>
    BY <1>1, <1>5, <2>1, <2>3 DEF Validate, TypeOK
  <2>4. QED
    BY <1>5, <2>2, <2>3, GuardErrorType DEF Validate, Errors, Guarded
<1>6. CASE Execute
  <2>1. Len(attempts) <= options.repairs /\ pc = "executing" /\ gen \in Statement
    BY <1>6, StillRepairing DEF Execute, Inv, AttemptInv
  <2>2. executed' \in Seq([statement : Statement, explained : BOOLEAN])
    <3> DEFINE R == [statement : Statement, explained : BOOLEAN]
               x == [statement |-> gen, explained |-> explained]
    <3>1. executed \in Seq(R) /\ x \in R
      BY <1>1, <2>1 DEF TypeOK
    <3>2. \/ executed' = executed
          \/ executed' = Append(executed, x)
      BY <1>6 DEF Execute
    <3> HIDE DEF R, x
    <3>3. executed' \in Seq(R)
      BY <3>1, <3>2
    <3>4. QED
      BY <3>3 DEF R
  <2>3. CASE \E error \in Errors : Retry(error) /\ UNCHANGED <<trace, result>>
    <3>1. /\ attempts' \in Seq(Errors) /\ Len(attempts') <= options.repairs + 1
          /\ messages' \in Seq(Message) /\ pc' = "generating"
      BY <1>1, <2>1, <2>3, RetryType
    <3>2. QED
      BY <1>1, <1>6, <2>1, <2>2, <2>3, <3>1 DEF Execute, TypeOK
  <2>4. CASE pc' = "narrating" /\ UNCHANGED <<attempts, messages, trace, result>>
    BY <1>1, <1>6, <2>1, <2>2, <2>4 DEF Execute, TypeOK
  <2>5. CASE Answer(0) /\ trace' = Append(trace, "ok") /\ UNCHANGED <<attempts, messages>>
    <3>1. result' # NoResult /\ pc' = "returned"
      BY <1>1, <2>1, <2>5, AnswerIsResult
    <3>2. trace' \in Seq(Calls \cup {"ok", "error"})
      BY <1>1, <2>5 DEF TypeOK
    <3>3. QED
      BY <1>1, <1>6, <2>1, <2>2, <2>5, <3>1, <3>2 DEF Execute, TypeOK
  <2>6. QED
    BY <1>6, <2>3, <2>4, <2>5, GuardErrorType DEF Execute, Errors, Guarded
<1>7. CASE Narrate
  <2>1. Len(attempts) <= options.repairs /\ pc = "narrating" /\ gen \in Statement
    BY <1>7, StillRepairing DEF Narrate, Inv, AttemptInv
  <2>2. result' # NoResult /\ pc' = "returned"
    <3>1. Answer(1) /\ 1 \in Nat
      BY <1>7 DEF Narrate
    <3>2. QED
      BY <1>1, <2>1, <3>1, AnswerIsResult
  <2>3. billed' \in [Calls -> Nat] /\ billed'["generate"] <= options.repairs + 1
    BY <1>1, <1>7, TypeFacts DEF Narrate, TypeOK, Calls
  <2>4. usage' \in [agent : Nat, narration : Nat]
    BY <1>1, <1>7 DEF Narrate, TypeOK
  <2>5. trace' \in Seq(Calls \cup {"ok", "error"})
    <3>1. <<"narrate", "ok">> \in Seq(Calls \cup {"ok", "error"})
      BY DEF Calls
    <3>2. QED
      BY <1>1, <1>7, <3>1 DEF Narrate, TypeOK
  <2>6. QED
    BY <1>1, <1>7, <2>2, <2>3, <2>4, <2>5 DEF Narrate, TypeOK
<1>8. CASE GiveUp
  <2>1. result' # NoResult
    <3>1. result' = [ok |-> FALSE, statement |-> gen, attempts |-> Len(attempts),
                     usage |-> usage]
      BY <1>8 DEF GiveUp
    <3>2. result' \in [ok : BOOLEAN, statement : Statement \cup {NoStatement}, attempts : Nat,
                       usage : [agent : Nat, narration : Nat]]
      BY <1>1, <3>1, TypeFacts DEF TypeOK
    <3>3. QED
      BY <3>2, AskPipelineAssumption
  <2>2. trace' \in Seq(Calls \cup {"ok", "error"})
    BY <1>1, <1>8 DEF GiveUp, TypeOK
  <2>3. QED
    BY <1>1, <1>8, <2>1, <2>2 DEF GiveUp, TypeOK, history
<1>9. CASE Raise
  BY <1>1, <1>9 DEF Raise, TypeOK, history, MoreAttempts
<1>10. CASE UNCHANGED vars
  BY <1>1, <1>10 DEF TypeOK, vars
<1>11. QED
  BY <1>2, <1>3, <1>4, <1>5, <1>6, <1>7, <1>8, <1>9, <1>10 DEF Next

-----------------------------------------------------------------------------
(* Attempts, money, statements                                             *)

LEMMA AttemptStep ==
  ASSUME Inv, [Next]_vars
  PROVE  AttemptInv'
<1>1. AttemptInv /\ attempts \in Seq(Errors) /\ Len(attempts) \in Nat
  BY TypeFacts DEF Inv
<1>2. ASSUME NEW error, Retry(error)
      PROVE  Len(attempts') = Len(attempts) + 1 /\ pc' = "generating"
  BY <1>1, <1>2 DEF Retry
<1>3. CASE SelectLocally
  BY <1>1, <1>3 DEF SelectLocally, Open, AttemptInv, history, Calls
<1>4. CASE Shortlist
  BY <1>1, <1>4, TypeFacts DEF Shortlist, Open, AttemptInv, Calls
<1>5. CASE Generate
  <2>1. billed'["generate"] = Len(attempts) + 1 /\ pc = "generating"
    BY <1>1, <1>5, TypeFacts DEF Generate, MoreAttempts, AttemptInv, Calls
  <2>2. QED
    BY <1>1, <1>2, <1>5, <2>1 DEF Generate, AttemptInv
<1>6. CASE Validate
  BY <1>1, <1>2, <1>6 DEF Validate, AttemptInv
<1>7. CASE Execute
  BY <1>1, <1>2, <1>7 DEF Execute, Answer, AttemptInv
<1>8. CASE Narrate \/ GiveUp \/ Raise
  BY <1>1, <1>8 DEF Narrate, GiveUp, Raise, Answer, AttemptInv
<1>9. CASE UNCHANGED vars
  BY <1>1, <1>9 DEF vars, AttemptInv
<1>10. QED
  BY <1>3, <1>4, <1>5, <1>6, <1>7, <1>8, <1>9 DEF Next

\* A span more.
LEMMA OneMoreSpan ==
  ASSUME NEW s \in Seq(Calls \cup {"ok", "error"}), NEW c \in Calls,
         \A i \in DOMAIN s : s[i] \in Calls
  PROVE  /\ \A i \in DOMAIN Append(s, c) : Append(s, c)[i] \in Calls
         /\ Len(Append(s, c)) = Len(s) + 1
OBVIOUS

LEMMA MoneyStep ==
  ASSUME Inv, [Next]_vars
  PROVE  MoneyInv'
<1>1. /\ MoneyInv /\ AttemptInv /\ trace \in Seq(Calls \cup {"ok", "error"})
      /\ \A c \in Calls : billed[c] \in Nat
      /\ usage = [agent |-> usage.agent, narration |-> usage.narration]
      /\ usage.agent \in Nat
      /\ billed = [c \in Calls |-> billed[c]]
  BY TypeFacts DEF Inv
<1>2. CASE SelectLocally
  BY <1>1, <1>2 DEF SelectLocally, Open, MoneyInv, history, NumBilled
<1>3. CASE Shortlist
  <2>1. pc = "selecting" /\ trace = << >> /\ billed = [c \in Calls |-> 0]
        /\ usage = [agent |-> 0, narration |-> 0]
    BY <1>1, <1>3 DEF Shortlist, AttemptInv
  <2>2. /\ billed' = [[c \in Calls |-> 0] EXCEPT !["select"] = 1]
        /\ trace' = <<"select">>
    BY <1>3, <2>1 DEF Shortlist
  <2>3. billed'["select"] = 1 /\ billed'["generate"] = 0 /\ billed'["narrate"] = 0
    BY <2>2 DEF Calls
  <2>4. Len(trace') = 1 /\ \A i \in DOMAIN trace' : trace'[i] \in Calls
    BY <2>2 DEF Calls
  <2>5. \/ pc' = "raised" /\ usage' = usage
        \/ pc' = "generating" /\ usage' = [usage EXCEPT !.agent = 1]
    BY <1>3 DEF Shortlist, Open
  <2>6. QED
    BY <2>1, <2>3, <2>4, <2>5 DEF MoneyInv, NumBilled
<1>4. CASE Generate
  <2>1. pc = "generating" /\ pc' \in {"generating", "validating"}
    BY <1>4 DEF Generate, MoreAttempts, Retry
  <2>2. /\ billed'["generate"] = billed["generate"] + 1
        /\ billed'["select"] = billed["select"] /\ billed'["narrate"] = billed["narrate"]
    BY <1>1, <1>4 DEF Generate, Calls
  <2>3. usage'.agent = usage.agent + 1 /\ usage'.narration = usage.narration
    BY <1>1, <1>4 DEF Generate
  <2>4. /\ \A i \in DOMAIN trace' : trace'[i] \in Calls
        /\ Len(trace') = Len(trace) + 1
    <3>1. "generate" \in Calls /\ trace' = Append(trace, "generate")
      BY <1>4 DEF Generate, Calls
    <3>2. \A i \in DOMAIN trace : trace[i] \in Calls
      BY <1>1, <2>1 DEF MoneyInv
    <3>3. QED
      BY <1>1, <3>1, <3>2, OneMoreSpan
  <2>5. QED
    BY <1>1, <2>1, <2>2, <2>3, <2>4 DEF MoneyInv, NumBilled, Calls
<1>5. CASE Validate
  BY <1>1, <1>5 DEF Validate, Retry, MoneyInv, NumBilled
<1>6. CASE Execute
  BY <1>1, <1>6 DEF Execute, Answer, Retry, MoneyInv, NumBilled
<1>7. CASE Narrate \/ GiveUp
  BY <1>1, <1>7 DEF Narrate, GiveUp, Answer, MoneyInv
<1>8. CASE Raise
  BY <1>1, <1>8 DEF Raise, MoreAttempts, MoneyInv, NumBilled, history
<1>9. CASE UNCHANGED vars
  BY <1>1, <1>9 DEF vars, MoneyInv, NumBilled
<1>10. QED
  BY <1>2, <1>3, <1>4, <1>5, <1>6, <1>7, <1>8, <1>9 DEF Next

\* A statement runs at most once in an attempt, and only the last one has an answer.
LEMMA SqlStep ==
  ASSUME Inv, [Next]_vars
  PROVE  SqlInv'
<1>1. /\ SqlInv /\ AttemptInv /\ attempts \in Seq(Errors) /\ Len(attempts) \in Nat
      /\ executed \in Seq([statement : Statement, explained : BOOLEAN])
      /\ DOMAIN executed = 1..Len(executed) /\ Len(executed) \in Nat
  BY TypeFacts DEF Inv
<1>2. ASSUME NEW error, Retry(error)
      PROVE  Len(attempts') = Len(attempts) + 1 /\ pc' = "generating"
  BY <1>1, <1>2 DEF Retry
<1>3. CASE SelectLocally \/ Shortlist
  <2>1. /\ executed' = << >> /\ UNCHANGED attempts /\ pc' \in {"generating", "raised"}
    BY <1>1, <1>3 DEF SelectLocally, Shortlist, Open, AttemptInv, history
  <2>2. QED
    BY <1>1, <2>1 DEF SqlInv
<1>4. CASE Generate
  <2>1. pc = "generating" /\ UNCHANGED executed /\ Len(executed) <= Len(attempts)
        /\ pc' \in {"generating", "validating"}
        /\ Len(attempts') \in {Len(attempts), Len(attempts) + 1}
    BY <1>1, <1>2, <1>4 DEF Generate, MoreAttempts, SqlInv
  <2>2. QED
    BY <1>1, <2>1 DEF SqlInv
<1>5. CASE Validate
  <2>1. /\ pc = "validating" /\ UNCHANGED <<executed, gen, options>>
        /\ Len(executed) <= Len(attempts)
        /\ Len(attempts') \in {Len(attempts), Len(attempts) + 1}
        /\ \/ pc' = "generating"
           \/ pc' = "executing" /\ explained' /\ (options.explains => gen.binds)
    BY <1>1, <1>2, <1>5 DEF Validate, SqlInv
  <2>2. QED
    BY <1>1, <2>1 DEF SqlInv
<1>6. CASE Execute
  <2>1. pc = "executing" /\ UNCHANGED <<gen, options>> /\ Len(executed) <= Len(attempts)
        /\ \A i \in DOMAIN executed : ~executed[i].statement.runs
    BY <1>1, <1>6 DEF Execute, SqlInv
  <2>2. CASE ~Guarded
    <3>1. Retry(GuardError) /\ UNCHANGED executed
      BY <1>6, <2>2 DEF Execute
    <3>2. Len(attempts') = Len(attempts) + 1 /\ pc' = "generating"
      BY <1>2, <3>1
    <3>3. QED
      BY <1>1, <2>1, <3>1, <3>2 DEF SqlInv
  <2>3. CASE Guarded
    <3>1. /\ Len(executed') = Len(executed) + 1 /\ DOMAIN executed' = 1..(Len(executed) + 1)
          /\ \A i \in 1..Len(executed) : executed'[i] = executed[i]
          /\ executed'[Len(executed) + 1].statement = gen
          /\ executed' # << >>
      <4> DEFINE R == [statement : Statement, explained : BOOLEAN]
                 x == [statement |-> gen, explained |-> explained]
      <4>1. executed' = Append(executed, x) /\ x.statement = gen
        BY <1>6, <2>3 DEF Execute
      <4>2. executed \in Seq(R) /\ x \in R
        BY <1>1, <2>1 DEF Inv, TypeOK, AttemptInv
      <4> HIDE DEF R, x
      <4>3. QED
        BY <4>1, <4>2
    <3>2. CASE ~gen.runs /\ Retry("execution")
      <4>1. Len(attempts') = Len(attempts) + 1 /\ pc' = "generating"
        BY <1>2, <3>2
      <4>2. \A i \in DOMAIN executed' : ~executed'[i].statement.runs
        BY <1>1, <2>1, <3>1, <3>2
      <4>3. QED
        BY <1>1, <2>1, <3>1, <4>1, <4>2 DEF SqlInv
    <3>3. CASE gen.runs /\ pc' = "narrating"
      BY <2>1, <3>1, <3>3 DEF SqlInv
    <3>4. CASE pc' = "returned"
      BY <3>4 DEF SqlInv
    <3>5. QED
      BY <1>6, <2>3, <3>2, <3>3, <3>4, <3>1 DEF Execute, Answer
  <2>4. QED
    BY <1>6, <2>2, <2>3 DEF Execute
<1>7. CASE Narrate \/ GiveUp \/ Raise
  BY <1>1, <1>7 DEF Narrate, GiveUp, Raise, Answer, SqlInv
<1>8. CASE UNCHANGED vars
  BY <1>1, <1>8 DEF vars, SqlInv
<1>9. QED
  BY <1>3, <1>4, <1>5, <1>6, <1>7, <1>8 DEF Next

-----------------------------------------------------------------------------
(* What the model is sent                                                  *)

\* A failed attempt adds its error and the answer to it.
LEMMA RetryConverses ==
  ASSUME Inv, NEW error \in Errors, Retry(error),
         pc \in {"generating", "validating", "executing"}
  PROVE  Conversation'
<1> DEFINE n == Len(messages)
           k == Len(attempts)
<1>1. /\ messages \in Seq(Message) /\ attempts \in Seq(Errors) /\ k \in Nat
      /\ n = 2 * k + 1
      /\ \A i \in 1..n : messages[i].role = IF i % 2 = 1 THEN "user" ELSE "assistant"
      /\ messages[1].about = "question"
      /\ \A j \in 1..k : messages[2 * j + 1].about = attempts[j]
  <2>1. messages \in Seq(Message) /\ attempts \in Seq(Errors) /\ Conversation
    BY TypeFacts DEF Inv
  <2>2. DOMAIN messages = 1..n /\ DOMAIN attempts = 1..k /\ k \in Nat
    BY <2>1
  <2>3. QED
    BY <2>1, <2>2 DEF Conversation
<1> DEFINE a == [role |-> "assistant", about |-> error]
           u == [role |-> "user", about |-> error]
<1>2. a \in Message /\ u \in Message
  BY DEF Message
<1>3. /\ messages' = messages \o <<a, u>> /\ attempts' = Append(attempts, error)
  BY DEF Retry
<1>4. a.role = "assistant" /\ u.role = "user" /\ u.about = error
  OBVIOUS
<1> HIDE DEF a, u
<1>5. /\ Len(messages') = n + 2 /\ DOMAIN messages' = 1..(n + 2)
      /\ \A i \in 1..n : messages'[i] = messages[i]
      /\ messages'[n + 1] = a /\ messages'[n + 2] = u
  BY <1>1, <1>2, <1>3
<1>6. /\ Len(attempts') = k + 1 /\ DOMAIN attempts' = 1..(k + 1)
      /\ \A j \in 1..k : attempts'[j] = attempts[j]
      /\ attempts'[k + 1] = error
  BY <1>1, <1>3
<1> HIDE DEF n, k
<1>7. Len(messages') = 2 * Len(attempts') + 1
  BY <1>1, <1>5, <1>6
<1>8. \A i \in DOMAIN messages' :
        messages'[i].role = IF i % 2 = 1 THEN "user" ELSE "assistant"
  <2>1. (n + 1) % 2 = 0 /\ (n + 2) % 2 = 1
    BY <1>1
  <2>2. ASSUME NEW i \in 1..(n + 2)
        PROVE  messages'[i].role = IF i % 2 = 1 THEN "user" ELSE "assistant"
    <3>1. CASE i \in 1..n
      BY <3>1, <1>1, <1>5
    <3>2. CASE i = n + 1
      <4>1. messages'[i].role = "assistant" /\ i % 2 = 0
        BY <3>2, <2>1, <1>4, <1>5
      <4>2. QED
        BY <4>1
    <3>3. CASE i = n + 2
      <4>1. messages'[i].role = "user" /\ i % 2 = 1
        BY <3>3, <2>1, <1>4, <1>5
      <4>2. QED
        BY <4>1
    <3>4. n \in Nat
      BY <1>1
    <3>5. i \in 1..n \/ i = n + 1 \/ i = n + 2
      BY <3>4
    <3>6. QED
      BY <3>1, <3>2, <3>3, <3>5
  <2>3. QED
    BY <1>5, <2>2
<1>9. messages'[1].about = "question"
  BY <1>1, <1>5
<1>10. \A j \in DOMAIN attempts' : messages'[2 * j + 1].about = attempts'[j]
  <2>1. ASSUME NEW j \in 1..(k + 1)
        PROVE  messages'[2 * j + 1].about = attempts'[j]
    <3>1. CASE j = k + 1
      <4>1. 2 * j + 1 = n + 2
        BY <3>1, <1>1
      <4>2. QED
        BY <3>1, <4>1, <1>4, <1>5, <1>6
    <3>2. CASE j # k + 1
      <4>1. j \in 1..k /\ 2 * j + 1 \in 1..n
        BY <3>2, <1>1
      <4>2. QED
        BY <4>1, <1>1, <1>5, <1>6
    <3>3. QED
      BY <3>1, <3>2
  <2>2. QED
    BY <2>1, <1>6
<1>11. QED
  BY <1>7, <1>8, <1>9, <1>10 DEF Conversation

LEMMA ConversationStep ==
  ASSUME Inv, [Next]_vars
  PROVE  Conversation'
<1>1. Conversation /\ AttemptInv
  BY DEF Inv
<1>2. CASE SelectLocally \/ Shortlist
  <2>1. /\ UNCHANGED attempts /\ attempts = << >>
        /\ \/ messages' = <<[role |-> "user", about |-> "question"]>> /\ pc' = "generating"
           \/ pc' = "raised"
    BY <1>1, <1>2 DEF SelectLocally, Shortlist, Open, AttemptInv
  <2>2. QED
    BY <2>1 DEF Conversation
<1>3. CASE Generate
  <2>1. CASE Retry("schema")
    BY <1>3, <2>1, RetryConverses DEF Generate, MoreAttempts, Errors
  <2>2. CASE UNCHANGED <<attempts, messages>>
    BY <1>1, <1>3, <2>2 DEF Generate, MoreAttempts, Conversation
  <2>3. QED
    BY <1>3, <2>1, <2>2 DEF Generate
<1>4. CASE Validate
  <2>1. CASE \E error \in Errors : Retry(error)
    BY <1>4, <2>1, RetryConverses DEF Validate
  <2>2. CASE UNCHANGED <<attempts, messages>>
    BY <1>1, <1>4, <2>2 DEF Validate, Conversation
  <2>3. QED
    BY <1>4, <2>1, <2>2, GuardErrorType DEF Validate, Errors, Guarded
<1>5. CASE Execute
  <2>1. CASE \E error \in Errors : Retry(error)
    BY <1>5, <2>1, RetryConverses DEF Execute
  <2>2. CASE pc' \in {"narrating", "returned"}
    BY <2>2 DEF Conversation
  <2>3. QED
    BY <1>5, <2>1, <2>2, GuardErrorType DEF Execute, Answer, Errors, Guarded
<1>6. CASE Narrate \/ GiveUp \/ Raise
  BY <1>6 DEF Narrate, GiveUp, Raise, Answer, Conversation
<1>7. CASE UNCHANGED vars
  BY <1>1, <1>7 DEF vars, Conversation
<1>8. QED
  BY <1>2, <1>3, <1>4, <1>5, <1>6, <1>7 DEF Next

\* The schema's order breaks ties, so that the ranking is total.
LEMMA Ranking ==
  ASSUME Inv
  PROVE
  /\ \A t \in Tables : ~Before(t, t)
  /\ \A t, u \in Tables : t # u => Before(t, u) \/ Before(u, t)
  /\ \A t, u, v \in Tables : Before(t, u) /\ Before(u, v) => Before(t, v)
<1>1. Tables \subseteq Nat /\ \A t \in Tables : score[t] \in Nat
  BY AskPipelineAssumption DEF Inv, TypeOK, Tables
<1>2. QED
  BY <1>1 DEF Before

\* The shortest list is one of the schema's order, the best of a ranking one of it.
LEMMA CapHolds ==
  ASSUME Inv, NEW S \in SUBSET Tables
  PROVE  /\ Cap \in Nat
         /\ Cardinality(FirstIn(S, Cap)) <= Cap
         /\ IsFiniteSet(Top(Cap)) /\ Cardinality(Top(Cap)) <= Cap
<1>1. Cap \in Nat
  BY AskPipelineAssumption DEF Inv, TypeOK, Options, Cap
<1>2. IsFiniteSet(Tables) /\ IsFiniteSet(S) /\ Tables \subseteq Nat
  <2>1. 1 \in Int /\ NumTables \in Int
    BY AskPipelineAssumption
  <2>2. IsFiniteSet(Tables)
    BY <2>1, FS_Interval DEF Tables
  <2>3. IsFiniteSet(S)
    BY <2>2, FS_Subset
  <2>4. QED
    BY <2>2, <2>3, AskPipelineAssumption DEF Tables
<1>3. Cardinality(FirstIn(S, Cap)) <= Cap
  <2> DEFINE pred == [t \in S |-> {u \in S : u < t}]
             F    == FirstIn(S, Cap)
  <2>1. pred \in [S -> SUBSET S] /\ \A t, u \in S : u \in pred[t] <=> u < t
    OBVIOUS
  <2>2. F \in SUBSET S /\ \A t \in F : Cardinality(pred[t]) < Cap
    BY DEF FirstIn
  <2>3. S \subseteq Nat
    BY <1>2
  <2> HIDE DEF pred, F
  <2>4. StrictOrder(S, pred)
    BY <2>1, <2>3 DEF StrictOrder
  <2>5. Cardinality(F) <= Cap
    BY <1>1, <1>2, <2>1, <2>2, <2>4, AtMost
  <2>6. QED
    BY <2>5 DEF F
<1>4. IsFiniteSet(Top(Cap)) /\ Cardinality(Top(Cap)) <= Cap
  <2> DEFINE pred == [t \in Tables |-> {u \in Tables : Before(u, t)}]
             F    == Top(Cap)
  <2>1. pred \in [Tables -> SUBSET Tables]
        /\ \A t, u \in Tables : u \in pred[t] <=> Before(u, t)
    OBVIOUS
  <2>2. F \in SUBSET Tables /\ \A t \in F : Cardinality(pred[t]) < Cap
    BY DEF Top
  <2> HIDE DEF pred, F
  <2>3. StrictOrder(Tables, pred)
    BY <2>1, Ranking DEF StrictOrder
  <2>4. IsFiniteSet(F) /\ Cardinality(F) <= Cap
    BY <1>1, <1>2, <2>1, <2>2, <2>3, AtMost
  <2>5. QED
    BY <2>4 DEF F
<1>5. QED
  BY <1>1, <1>3, <1>4

\* A table of the best n is before every other one, and so is one with a hit.
LEMMA TopIsFirst ==
  ASSUME Inv, NEW t \in Top(Cap), score[t] > 0, NEW u \in Tables,
         ~(u \in Top(Cap) /\ score[u] > 0)
  PROVE  Before(t, u)
<1>1. t \in Tables /\ Tables \subseteq Nat /\ score[t] \in Nat /\ score[u] \in Nat
  BY AskPipelineAssumption DEF Top, Inv, TypeOK, Tables
<1>2. t # u
  OBVIOUS
<1>3. CASE ~(score[u] > 0)
  BY <1>1, <1>3 DEF Before
<1>4. CASE u \notin Top(Cap)
  <2> DEFINE P(v) == {w \in Tables : Before(w, v)}
  <2>1. SUFFICES ASSUME Before(u, t)
                 PROVE  FALSE
    BY <1>1, <1>2, Ranking
  <2>2. P(u) \subseteq P(t) /\ P(t) \subseteq Tables /\ P(u) \subseteq Tables
    BY <1>1, <2>1, Ranking
  <2>3. IsFiniteSet(Tables)
    <3>1. 1 \in Int /\ NumTables \in Int
      BY AskPipelineAssumption
    <3>2. QED
      BY <3>1, FS_Interval DEF Tables
  <2>4. /\ Cardinality(P(u)) <= Cardinality(P(t))
        /\ Cardinality(P(u)) \in Nat /\ Cardinality(P(t)) \in Nat
    BY <2>2, <2>3, FS_Subset, FS_CardinalityType
  <2>5. Cardinality(P(t)) < Cap /\ ~(Cardinality(P(u)) < Cap)
    BY <1>4 DEF Top
  <2>6. Cap \in Nat
    BY CapHolds
  <2> HIDE DEF P
  <2>7. QED
    BY <2>4, <2>5, <2>6
<1>5. QED
  BY <1>3, <1>4

\* What select_context returns.
LEMMA SelectionIsSound ==
  ASSUME Inv, NEW chosen \in SUBSET Tables, NEW strategy \in Strategies \ {"include_all"},
         options.strategy = strategy, Cardinality(chosen) <= Cap,
         strategy = "lexical" =>
           \A t \in chosen, u \in Tables \ chosen : Before(t, u),
         Open(Selected(chosen, strategy)), UNCHANGED <<options, score>>
  PROVE  SchemaIsSound'
<1>1. Tables # {}
  BY AskPipelineAssumption DEF Tables
<1>2. context' = Selected(chosen, strategy) /\ Cap' = Cap
  BY DEF Open, Cap
<1>3. \A t, u : Before(t, u)' <=> Before(t, u)
  BY DEF Before
<1>4. QED
  BY <1>1, <1>2, <1>3 DEF Selected, SchemaIsSound

LEMMA SchemaStep ==
  ASSUME Inv, [Next]_vars
  PROVE  SchemaIsSound'
<1>1. SchemaIsSound
  BY DEF Inv
<1>2. CASE SelectLocally
  <2>1. CASE /\ options.strategy = "include_all"
             /\ Open([tables |-> Tables, strategy |-> "include_all", fellBack |-> FALSE])
    <3>1. Tables # {} /\ UNCHANGED <<options, score>>
      BY <1>2, AskPipelineAssumption DEF Tables, SelectLocally
    <3>2. QED
      BY <2>1, <3>1 DEF Open, SchemaIsSound
  <2>2. CASE /\ options.strategy = "lexical"
             /\ Open(Selected({t \in Top(Cap) : score[t] > 0}, "lexical"))
    <3> DEFINE chosen == {t \in Top(Cap) : score[t] > 0}
    <3>1. chosen \in SUBSET Tables
      BY DEF Top
    <3>2. Cardinality(chosen) <= Cap
      <4>1. IsFiniteSet(Top(Cap)) /\ Cardinality(Top(Cap)) <= Cap /\ Cap \in Nat
        BY CapHolds
      <4>2. chosen \subseteq Top(Cap)
        OBVIOUS
      <4>3. IsFiniteSet(chosen) /\ Cardinality(chosen) <= Cardinality(Top(Cap))
        BY <4>1, <4>2, FS_Subset
      <4>4. Cardinality(chosen) \in Nat /\ Cardinality(Top(Cap)) \in Nat
        BY <4>1, <4>3, FS_CardinalityType
      <4> HIDE DEF chosen
      <4>5. QED
        BY <4>1, <4>3, <4>4
    <3>3. \A t \in chosen, u \in Tables \ chosen : Before(t, u)
      BY TopIsFirst
    <3>4. Open(Selected(chosen, "lexical")) /\ "lexical" \in Strategies \ {"include_all"}
          /\ UNCHANGED <<options, score>>
      BY <1>2, <2>2 DEF SelectLocally, Strategies
    <3> HIDE DEF chosen
    <3>5. QED
      BY <2>2, <3>1, <3>2, <3>3, <3>4, SelectionIsSound
  <2>3. QED
    BY <1>2, <2>1, <2>2 DEF SelectLocally
<1>3. CASE Shortlist
  <2>1. UNCHANGED <<options, score>> /\ options.strategy \in {"llm", "llm_lexical"}
    BY <1>3 DEF Shortlist
  <2>2. CASE pc' = "raised"
    BY <2>2 DEF SchemaIsSound
  <2>3. ASSUME NEW names \in SUBSET (Tables \cup {Unknown}),
               Open(Selected(FirstIn(names \cap Tables, Cap), options.strategy))
        PROVE  SchemaIsSound'
    <3>1. /\ FirstIn(names \cap Tables, Cap) \in SUBSET Tables
          /\ Cardinality(FirstIn(names \cap Tables, Cap)) <= Cap
      BY CapHolds DEF FirstIn
    <3>2. options.strategy \in Strategies \ {"include_all"} /\ options.strategy # "lexical"
      BY <2>1 DEF Strategies
    <3>3. QED
      BY <2>1, <2>3, <3>1, <3>2, SelectionIsSound
  <2>4. QED
    BY <1>3, <2>2, <2>3 DEF Shortlist
<1>4. CASE UNCHANGED <<options, score, context>> /\ pc # "selecting" /\ pc # "raised"
  BY <1>1, <1>4 DEF SchemaIsSound, Cap, Before
<1>5. CASE Raise
  BY <1>5 DEF Raise, SchemaIsSound
<1>6. CASE UNCHANGED vars
  BY <1>1, <1>6 DEF vars, SchemaIsSound, Cap, Before
<1>7. QED
  BY <1>2, <1>3, <1>4, <1>5, <1>6
     DEF Next, Generate, MoreAttempts, Validate, Execute, Narrate, GiveUp

-----------------------------------------------------------------------------
(* Money and trace                                                         *)

\* A trace that opens with n spans of calls, and has no other, has n children.
LEMMA CountSpans ==
  ASSUME NEW spans, NEW n \in Nat, NEW m \in Nat, n <= m, DOMAIN spans = 1..m,
         \A i \in 1..n : spans[i] \in Calls,
         \A i \in 1..m : i > n => spans[i] \notin Calls
  PROVE  Cardinality({i \in DOMAIN spans : spans[i] \in Calls}) = n
<1>1. {i \in DOMAIN spans : spans[i] \in Calls} = 1..n
  <2> DEFINE C == {i \in DOMAIN spans : spans[i] \in Calls}
  <2>1. ASSUME NEW i
        PROVE  i \in C <=> i \in 1..n
    OBVIOUS
  <2> HIDE DEF C
  <2>2. C = 1..n
    BY <2>1
  <2>3. QED
    BY <2>2 DEF C
<1>2. 1 \in Int /\ n \in Int
  OBVIOUS
<1>3. Cardinality(1..n) = IF 1 > n THEN 0 ELSE n - 1 + 1
  BY <1>2, FS_Interval
<1>4. Cardinality(1..n) = n
  BY <1>3
<1>5. QED
  BY <1>1, <1>4

\* Until the question returns every span is a call's.
LEMMA AllSpansCount ==
  ASSUME TypeOK', MoneyInv', pc' # "returned"
  PROVE  SpendIsTraced'
<1>1. /\ trace' \in Seq(Calls \cup {"ok", "error"})
      /\ \A i \in DOMAIN trace' : trace'[i] \in Calls
      /\ Len(trace') = NumBilled'
  BY DEF TypeOK, MoneyInv
<1>2. Len(trace') \in Nat /\ DOMAIN trace' = 1..Len(trace')
  BY <1>1
<1>3. Cardinality({i \in DOMAIN trace' : trace'[i] \in Calls}) = Len(trace')
  <2>1. \A i \in 1..Len(trace') : trace'[i] \in Calls /\ ~(i > Len(trace'))
    BY <1>1, <1>2
  <2>2. QED
    BY <1>2, <2>1, CountSpans
<1>4. QED
  BY <1>1, <1>3 DEF SpendIsTraced, Children

\* A question returns: some more calls, and the span of the run.
LEMMA RunSpanCounts ==
  ASSUME Inv, pc # "returned", NEW last \in {"ok", "error"},
         \/ trace' = Append(trace, last) /\ NumBilled' = NumBilled
         \/ trace' = trace \o <<"narrate", last>> /\ NumBilled' = NumBilled + 1
  PROVE  /\ Cardinality(Children') = NumBilled'
         /\ Cardinality(Children') = Len(trace') - 1
         /\ Last(trace') = last
<1> DEFINE n == Len(trace)
<1>1. /\ trace \in Seq(Calls \cup {"ok", "error"}) /\ n \in Nat /\ DOMAIN trace = 1..n
      /\ \A i \in 1..n : trace[i] \in Calls
      /\ n = NumBilled
  <2>1. trace \in Seq(Calls \cup {"ok", "error"}) /\ MoneyInv
    BY TypeFacts DEF Inv
  <2>2. n \in Nat /\ DOMAIN trace = 1..n
    BY <2>1
  <2>3. QED
    BY <2>1, <2>2 DEF MoneyInv
<1>2. "narrate" \in Calls /\ last \notin Calls
  BY DEF Calls
<1>3. CASE trace' = Append(trace, last) /\ NumBilled' = NumBilled
  <2>1. /\ Len(trace') = n + 1 /\ DOMAIN trace' = 1..(n + 1)
        /\ \A i \in 1..n : trace'[i] = trace[i]
        /\ trace'[n + 1] = last
    BY <1>1, <1>3
  <2> HIDE DEF n
  <2>2. /\ \A i \in 1..n : trace'[i] \in Calls
        /\ \A i \in 1..(n + 1) : i > n => trace'[i] \notin Calls
        /\ n + 1 \in Nat /\ n <= n + 1
    BY <1>1, <1>2, <2>1
  <2>3. Cardinality({i \in DOMAIN trace' : trace'[i] \in Calls}) = n
    BY <1>1, <2>1, <2>2, CountSpans
  <2>4. Cardinality(Children') = n
    BY <2>3 DEF Children
  <2>5. Last(trace') = last
    BY <2>1, <1>1 DEF Last
  <2>6. QED
    BY <1>1, <1>3, <2>1, <2>4, <2>5
<1>4. CASE trace' = trace \o <<"narrate", last>> /\ NumBilled' = NumBilled + 1
  <2>1. /\ Len(trace') = n + 2 /\ DOMAIN trace' = 1..(n + 2)
        /\ \A i \in 1..n : trace'[i] = trace[i]
        /\ trace'[n + 1] = "narrate" /\ trace'[n + 2] = last
    BY <1>1, <1>4
  <2> HIDE DEF n
  <2>2. /\ \A i \in 1..(n + 1) : trace'[i] \in Calls
        /\ \A i \in 1..(n + 2) : i > n + 1 => trace'[i] \notin Calls
        /\ n + 1 \in Nat /\ n + 2 \in Nat /\ n + 1 <= n + 2
    BY <1>1, <1>2, <2>1
  <2>3. Cardinality({i \in DOMAIN trace' : trace'[i] \in Calls}) = n + 1
    BY <2>1, <2>2, CountSpans
  <2>4. Cardinality(Children') = n + 1
    BY <2>3 DEF Children
  <2>5. Last(trace') = last
    BY <2>1, <1>1 DEF Last
  <2>6. NumBilled' = n + 1 /\ Len(trace') - 1 = n + 1
    BY <1>1, <1>4, <2>1
  <2>7. QED
    BY <2>4, <2>5, <2>6
<1>5. QED
  BY <1>3, <1>4

LEMMA SpendStep ==
  ASSUME Inv, [Next]_vars
  PROVE  SpendIsTraced'
<1>1. TypeOK' /\ MoneyInv'
  BY TypeStep, MoneyStep
<1>2. CASE pc' # "returned"
  BY <1>1, <1>2, AllSpansCount
<1>3. CASE pc' = "returned"
  <2>1. /\ AttemptInv /\ MoneyInv /\ SpendIsTraced
        /\ usage = [agent |-> usage.agent, narration |-> usage.narration]
        /\ usage.agent \in Nat
        /\ billed = [c \in Calls |-> billed[c]] /\ \A c \in Calls : billed[c] \in Nat
    BY TypeFacts DEF Inv
  <2>2. CASE Execute
    <3>1. /\ pc = "executing" /\ Answer(0) /\ trace' = Append(trace, "ok")
          /\ UNCHANGED <<usage, billed>>
      BY <1>3, <2>2 DEF Execute, Retry
    <3>2. /\ Cardinality(Children') = NumBilled'
          /\ Cardinality(Children') = Len(trace') - 1
          /\ Last(trace') = "ok"
      <4>1. NumBilled' = NumBilled
        BY <3>1 DEF NumBilled
      <4>2. QED
        BY <3>1, <4>1, RunSpanCounts
    <3>3. /\ result'.ok = TRUE /\ result'.attempts = billed'["generate"]
          /\ result'.usage.agent = billed'["select"] + billed'["generate"]
          /\ result'.usage.narration = billed'["narrate"]
      BY <2>1, <3>1 DEF Answer, AttemptInv, MoneyInv
    <3>4. QED
      BY <3>2, <3>3 DEF SpendIsTraced
  <2>3. CASE Narrate
    <3>1. /\ pc = "narrating" /\ Answer(1) /\ trace' = trace \o <<"narrate", "ok">>
          /\ billed' = [billed EXCEPT !["narrate"] = 1]
      BY <2>3 DEF Narrate
    <3>2. /\ billed'["select"] = billed["select"] /\ billed'["generate"] = billed["generate"]
          /\ billed'["narrate"] = 1 /\ billed["narrate"] = 0
      BY <2>1, <3>1 DEF MoneyInv, Calls
    <3>3. /\ Cardinality(Children') = NumBilled'
          /\ Cardinality(Children') = Len(trace') - 1
          /\ Last(trace') = "ok"
      <4>1. NumBilled' = NumBilled + 1
        BY <2>1, <3>2 DEF NumBilled, Calls
      <4>2. QED
        BY <3>1, <4>1, RunSpanCounts
    <3>4. /\ result'.ok = TRUE /\ result'.attempts = billed'["generate"]
          /\ result'.usage.agent = billed'["select"] + billed'["generate"]
          /\ result'.usage.narration = billed'["narrate"]
      BY <2>1, <3>1, <3>2 DEF Answer, AttemptInv, MoneyInv
    <3>5. QED
      BY <3>3, <3>4 DEF SpendIsTraced
  <2>4. CASE GiveUp
    <3>1. /\ pc = "generating" /\ trace' = Append(trace, "error") /\ UNCHANGED billed
          /\ result' = [ok |-> FALSE, statement |-> gen, attempts |-> Len(attempts),
                        usage |-> usage]
      BY <2>4 DEF GiveUp, history
    <3>2. /\ Cardinality(Children') = NumBilled'
          /\ Cardinality(Children') = Len(trace') - 1
          /\ Last(trace') = "error"
      <4>1. NumBilled' = NumBilled
        BY <3>1 DEF NumBilled
      <4>2. QED
        BY <3>1, <4>1, RunSpanCounts
    <3>3. /\ result'.ok = FALSE /\ result'.attempts = billed'["generate"]
          /\ result'.usage.agent = billed'["select"] + billed'["generate"]
          /\ result'.usage.narration = billed'["narrate"]
      BY <2>1, <3>1 DEF AttemptInv, MoneyInv
    <3>4. QED
      BY <3>2, <3>3 DEF SpendIsTraced
  <2>5. CASE UNCHANGED vars
    BY <2>1, <2>5 DEF vars, SpendIsTraced, Children, NumBilled
  <2>6. QED
    BY <1>3, <2>2, <2>3, <2>4, <2>5
       DEF Next, SelectLocally, Shortlist, Open, Generate, Retry, Validate, Raise
<1>4. QED
  BY <1>2, <1>3

-----------------------------------------------------------------------------
(* What runs                                                               *)

LEMMA SqlSafeStep ==
  ASSUME Inv, [Next]_vars
  PROVE  OnlyValidatedSqlRuns'
<1>1. /\ OnlyValidatedSqlRuns /\ SqlInv /\ AttemptInv
      /\ executed \in Seq([statement : Statement, explained : BOOLEAN])
      /\ DOMAIN executed = 1..Len(executed) /\ Len(executed) \in Nat
      /\ Len(attempts) \in Nat
      /\ billed = [c \in Calls |-> billed[c]] /\ \A c \in Calls : billed[c] \in Nat
  BY TypeFacts DEF Inv
<1>2. CASE Execute /\ Guarded
  <2>1. /\ pc = "executing" /\ UNCHANGED <<gen, options, billed>> /\ gen \in Statement
        /\ explained /\ (options.explains => gen.binds)
        /\ (options.readOnly => gen.parses /\ gen.reads)
        /\ Len(executed) + 1 <= billed["generate"]
        /\ \A i \in DOMAIN executed : ~executed[i].statement.runs
    BY <1>1, <1>2 DEF Execute, SqlInv, AttemptInv, Guarded, GuardError, Calls
  <2>2. /\ Len(executed') = Len(executed) + 1 /\ DOMAIN executed' = 1..(Len(executed) + 1)
        /\ \A i \in 1..Len(executed) : executed'[i] = executed[i]
        /\ executed'[Len(executed) + 1].statement = gen
        /\ executed'[Len(executed) + 1].explained = TRUE
    <3> DEFINE R == [statement : Statement, explained : BOOLEAN]
               x == [statement |-> gen, explained |-> explained]
    <3>1. executed' = Append(executed, x) /\ x.statement = gen /\ x.explained = TRUE
      BY <1>2, <2>1, <1>1 DEF Execute, Inv, TypeOK
    <3>2. executed \in Seq(R) /\ x \in R
      BY <1>1, <2>1
    <3> HIDE DEF R, x
    <3>3. QED
      BY <3>1, <3>2
  <2>3. ASSUME NEW i \in DOMAIN executed'
        PROVE  /\ executed'[i].explained
               /\ options'.explains => executed'[i].statement.binds
               /\ options'.readOnly =>
                    executed'[i].statement.parses /\ executed'[i].statement.reads
               /\ i < Len(executed') => ~executed'[i].statement.runs
    <3>1. CASE i \in DOMAIN executed
      BY <1>1, <2>1, <2>2, <3>1 DEF OnlyValidatedSqlRuns
    <3>2. CASE i = Len(executed) + 1
      BY <1>1, <2>1, <2>2, <3>2
    <3>3. QED
      BY <1>1, <2>2, <3>1, <3>2
  <2>4. Len(executed') <= billed'["generate"]
    BY <2>1, <2>2
  <2>5. pc' = "returned" /\ result'.ok =>
          result'.statement = Last(executed').statement /\ result'.statement.runs
    BY <1>1, <1>2, <2>1, <2>2 DEF Execute, Retry, Answer, Last
  <2>6. QED
    BY <2>3, <2>4, <2>5 DEF OnlyValidatedSqlRuns
<1>3. CASE Execute /\ ~Guarded
  BY <1>1, <1>3 DEF Execute, Retry, OnlyValidatedSqlRuns
<1>4. CASE SelectLocally
  BY <1>1, <1>4 DEF SelectLocally, Open, history, OnlyValidatedSqlRuns
<1>5. CASE Shortlist
  <2>1. /\ UNCHANGED <<options, executed>> /\ pc' # "returned"
        /\ billed'["generate"] = billed["generate"]
    BY <1>1, <1>5 DEF Shortlist, Open, Calls
  <2>2. QED
    BY <1>1, <2>1 DEF OnlyValidatedSqlRuns
<1>6. CASE Generate
  <2>1. /\ UNCHANGED <<options, executed>> /\ pc' # "returned"
        /\ billed'["generate"] = billed["generate"] + 1 /\ billed["generate"] \in Nat
    BY <1>1, <1>6 DEF Generate, Retry, Calls
  <2>2. Len(executed') <= billed'["generate"]
    BY <1>1, <2>1 DEF OnlyValidatedSqlRuns
  <2>3. QED
    BY <1>1, <2>1, <2>2 DEF OnlyValidatedSqlRuns
<1>7. CASE Validate
  BY <1>1, <1>7 DEF Validate, Retry, OnlyValidatedSqlRuns
<1>8. CASE Narrate
  <2>1. /\ UNCHANGED <<options, executed>> /\ Answer(1) /\ pc = "narrating"
        /\ billed'["generate"] = billed["generate"]
    BY <1>1, <1>8 DEF Narrate, Calls
  <2>2. result'.statement = Last(executed').statement /\ result'.statement.runs
    BY <1>1, <2>1 DEF Answer, SqlInv, Last
  <2>3. QED
    BY <1>1, <2>1, <2>2 DEF OnlyValidatedSqlRuns
<1>9. CASE GiveUp
  BY <1>1, <1>9 DEF GiveUp, history, OnlyValidatedSqlRuns
<1>10. CASE Raise
  BY <1>1, <1>10 DEF Raise, history, OnlyValidatedSqlRuns
<1>11. CASE UNCHANGED vars
  BY <1>1, <1>11 DEF vars, OnlyValidatedSqlRuns
<1>12. QED
  BY <1>2, <1>3, <1>4, <1>5, <1>6, <1>7, <1>8, <1>9, <1>10, <1>11 DEF Next

-----------------------------------------------------------------------------
(* Theorems                                                                *)

LEMMA InvHolds == Spec => []Inv
<1>1. ASSUME Inv, [Next]_vars
      PROVE  Inv'
  <2>1. TypeOK' /\ AttemptInv' /\ MoneyInv' /\ SqlInv'
    BY <1>1, TypeStep, AttemptStep, MoneyStep, SqlStep
  <2>2. Conversation' /\ SchemaIsSound'
    BY <1>1, ConversationStep, SchemaStep
  <2>3. SpendIsTraced' /\ OnlyValidatedSqlRuns'
    BY <1>1, SpendStep, SqlSafeStep
  <2>4. QED
    BY <2>1, <2>2, <2>3 DEF Inv
<1>2. QED
  BY InvInit, <1>1, PTL DEF Spec

\* For any schema, any cap and any number of repairs the state of a question is well formed,
\* and it never generates more often than self_repair_attempts + 1 times.
THEOREM TypeCorrect == Spec => []TypeOK
<1>1. Inv => TypeOK
  BY DEF Inv
<1>2. QED
  BY InvHolds, <1>1, PTL

\* Every billed call has its span and no other, and what a question that returns says it
\* spent is what was billed, however many repairs it took.
THEOREM SpendIsAccounted == Spec => []SpendIsTraced
<1>1. Inv => SpendIsTraced
  BY DEF Inv
<1>2. QED
  BY InvHolds, <1>1, PTL

\* No statement reaches the database that did not pass validation, for any sequence of
\* statements the model comes up with.
THEOREM SqlIsSafe == Spec => []OnlyValidatedSqlRuns
<1>1. Inv => OnlyValidatedSqlRuns
  BY DEF Inv
<1>2. QED
  BY InvHolds, <1>1, PTL

\* For any number of tables, any scores and any cap the prompt has a schema that is not empty
\* and not over the cap, and the conversation alternates and answers each error.
THEOREM PromptHolds == Spec => []PromptIsSound
<1>1. Inv => PromptIsSound
  <2>1. ASSUME Inv, pc \notin {"selecting", "raised"}
        PROVE  /\ context.tables # {}
               /\ context.strategy = "include_all" <=>
                    options.strategy = "include_all" \/ context.fellBack
               /\ context.strategy = "include_all" => context.tables = Tables
               /\ context.strategy # "include_all" => Cardinality(context.tables) <= Cap
               /\ context.strategy = "lexical" =>
                    \A t \in context.tables, u \in Tables \ context.tables : Before(t, u)
    BY <2>1 DEF Inv, SchemaIsSound
  <2>2. ASSUME Inv, pc = "generating"
        PROVE  /\ Len(messages) = 2 * Len(attempts) + 1
               /\ \A i \in DOMAIN messages :
                    messages[i].role = IF i % 2 = 1 THEN "user" ELSE "assistant"
               /\ messages[1].about = "question"
               /\ \A k \in DOMAIN attempts : messages[2 * k + 1].about = attempts[k]
    BY <2>2 DEF Inv, Conversation
  <2>3. QED
    BY <2>1, <2>2 DEF PromptIsSound
<1>2. QED
  BY InvHolds, <1>1, PTL
=============================================================================
