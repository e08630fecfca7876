----------------------------- MODULE AskPipeline -----------------------------
(***************************************************************************)
(* One question of an agent: ask() of sqbyl_runtime/pipeline.py with the   *)
(* table selection of selection.py and the guarded database access of      *)
(* db/connection.py.  Selection may be a paid call; then up to             *)
(* self_repair_attempts + 1 times a paid generation is parsed, validated   *)
(* with EXPLAIN and executed, and a failure is put to the model again; an  *)
(* answer may be narrated by one more paid call.  Every call leaves a span *)
(* in the trace, and the end of the question one for the whole run.        *)
(*                                                                         *)
(* Tables are numbered in schema order.  A statement is what the four      *)
(* filters make of it; a message is who says it and what it answers to;    *)
(* usage is counted in calls.  Prompts, value hints, examples, assets and  *)
(* latencies are left out.  ask() always has a client and a trace writer.  *)
(***************************************************************************)
EXTENDS Naturals, FiniteSets, Sequences, SequencesExt

CONSTANTS
  NumTables,     \* tables in the schema
  Unknown,       \* a table name the model invents
  MaxScore,      \* bound: lexical score
  Caps,          \* selection.max_tables; 0 is no setting
  DefaultCap,    \* _DEFAULT_SELECT_CAP
  Repairs,       \* self_repair_attempts
  NoStatement,   \* no generation has parsed yet
  NoResult

Tables     == 1..NumTables
Strategies == {"include_all", "lexical", "llm", "llm_lexical"}
Options    == [strategy : Strategies, maxTables : Caps, repairs : Repairs,
               narrate : BOOLEAN,
               readOnly : BOOLEAN,   \* database.read_only
               explains : BOOLEAN]   \* the dialect has an EXPLAIN
Context    == [tables : SUBSET Tables, strategy : Strategies, fellBack : BOOLEAN]
Statement  == [parses : BOOLEAN,     \* the guard's parser reads it
               reads  : BOOLEAN,     \* and finds one pure read
               binds  : BOOLEAN,     \* EXPLAIN accepts it
               runs   : BOOLEAN]     \* the database answers
Errors     == {"schema", "unparseable", "write", "static", "execution"}
Message    == [role : {"user", "assistant"}, about : Errors \cup {"question"}]
Calls      == {"select", "generate", "narrate"}

ASSUME AskPipelineAssumption ==
  /\ NumTables \in Nat \ {0}
  /\ Unknown \notin Tables
  /\ MaxScore \in Nat
  /\ Caps \subseteq Nat /\ DefaultCap \in Nat \ {0}
  /\ Repairs \subseteq Nat
  /\ NoStatement \notin Statement
  /\ NoResult \notin [ok : BOOLEAN, statement : Statement \cup {NoStatement}, attempts : Nat,
                       usage : [agent : Nat, narration : Nat]]

VARIABLES
  options,    \* project configuration and arguments
  score,      \* how many words of the question each table's vocabulary has
  pc,         \* where ask() stands
  context,    \* what selection kept
  messages,   \* the conversation with the generating model
  attempts,   \* errors of the attempts so far
  gen,        \* last_gen: the last generation that parsed
  usage,      \* total_usage, narration_usage
  trace,      \* spans written, "ok" and "error" for the run
  result,     \* the AgentResult
  billed,     \* history: calls the provider answered
  explained,  \* history: gen has passed db.explain
  executed    \* history: statements the database ran, with whether explained

vars == <<options, score, pc, context, messages, attempts, gen, usage, trace, result,
          billed, explained, executed>>

TypeOK ==
  /\ options \in Options /\ score \in [Tables -> 0..MaxScore]
  /\ pc \in {"selecting", "generating", "validating", "executing", "narrating",
             "returned", "raised"}
  /\ context \in Context
  /\ messages \in Seq(Message)
  /\ attempts \in Seq(Errors) /\ Len(attempts) <= options.repairs + 1
  /\ gen \in Statement \cup {NoStatement}
  /\ usage \in [agent : Nat, narration : Nat]
  /\ trace \in Seq(Calls \cup {"ok", "error"})
  /\ result = NoResult <=> pc # "returned"
  /\ billed \in [Calls -> Nat] /\ billed["generate"] <= options.repairs + 1
  /\ explained \in BOOLEAN
  /\ executed \in Seq([statement : Statement, explained : BOOLEAN])

-----------------------------------------------------------------------------
(* Selection                                                               *)

\* config.max_tables or _DEFAULT_SELECT_CAP
Cap == IF options.maxTables = 0 THEN DefaultCap ELSE options.maxTables

\* _lexical_rank: by descending score; equal scores keep the schema's order.
Before(t, u) == score[t] > score[u] \/ (score[t] = score[u] /\ t < u)
Top(n)       == {t \in Tables : Cardinality({u \in Tables : Before(u, t)}) < n}

\* _in_input_order(...)[:n]
FirstIn(S, n) == {t \in S : Cardinality({u \in S : u < t}) < n}

\* Variants named Faulty... are plausible slips in the definition that follows
\* them; no specification uses them.

\* What select_context returns; a strategy that keeps nothing falls back to everything.
Selected(chosen, strategy) ==
  IF chosen = {}
  THEN [tables |-> Tables, strategy |-> "include_all", fellBack |-> TRUE]
  ELSE [tables |-> chosen, strategy |-> strategy, fellBack |-> FALSE]

-----------------------------------------------------------------------------
(* ask()                                                                   *)

Init ==
  /\ options \in Options
  /\ score \in [Tables -> 0..MaxScore]
  /\ pc = "selecting"
  /\ context = [tables |-> {}, strategy |-> options.strategy, fellBack |-> FALSE]
  /\ messages = << >> /\ attempts = << >>
  /\ gen = NoStatement
  /\ usage = [agent |-> 0, narration |-> 0]
  /\ trace = << >>
  /\ result = NoResult
  /\ billed = [c \in Calls |-> 0]
  /\ explained = FALSE
  /\ executed = << >>

history == <<billed, explained, executed>>

\* The conversation opens with the question.
Open(selection) ==
  /\ context' = selection
  /\ messages' = <<[role |-> "user", about |-> "question"]>>
  /\ pc' = "generating"

\* The deterministic strategies spend nothing.
SelectLocally ==
  /\ pc = "selecting"
  /\ \/ /\ options.strategy = "include_all"
        /\ Open([tables |-> Tables, strategy |-> "include_all", fellBack |-> FALSE])
     \/ /\ options.strategy = "lexical"
        /\ Open(Selected({t \in Top(Cap) : score[t] > 0}, "lexical"))
  /\ UNCHANGED <<options, score, attempts, gen, usage, trace, result, history>>

FaultyShortlist ==
  /\ pc = "selecting"
  /\ options.strategy \in {"llm", "llm_lexical"}
  /\ billed' = [billed EXCEPT !["select"] = 1]
  /\ trace' = Append(trace, "select")
  /\ \/ \E names \in SUBSET (Tables \cup {Unknown}) :
          LET kept == names \cap Tables
          IN /\ Open(Selected(FirstIn(kept, Cap), options.strategy))
             /\ usage' = [usage EXCEPT !.agent = IF kept = {} THEN 0 ELSE 1]
     \/ pc' = "raised" /\ UNCHANGED <<context, messages, usage>>
  /\ UNCHANGED <<options, score, attempts, gen, result, explained, executed>>

\* The others ask a model: names that are not in the schema are dropped, and an answer
\* that does not parse raises out of ask().  The catalog it picks from is in its prompt
\* only; a table outside the lexical pool is kept when it is named.
Shortlist ==
  /\ pc = "selecting"
  /\ options.strategy \in {"llm", "llm_lexical"}
  /\ billed' = [billed EXCEPT !["select"] = 1]
  /\ trace' = Append(trace, "select")
  /\ \/ \E names \in SUBSET (Tables \cup {Unknown}) :
          /\ Open(Selected(FirstIn(names \cap Tables, Cap), options.strategy))
          /\ usage' = [usage EXCEPT !.agent = 1]
     \/ pc' = "raised" /\ UNCHANGED <<context, messages, usage>>
  /\ UNCHANGED <<options, score, attempts, gen, result, explained, executed>>

\* The attempt is recorded, and the error threaded into the conversation.
Retry(error) ==
  /\ attempts' = Append(attempts, error)
  /\ messages' = messages \o <<[role |-> "assistant", about |-> error],
                               [role |-> "user", about |-> error]>>
  /\ pc' = "generating"

FaultyMoreAttempts == pc = "generating" /\ Len(attempts) <= options.repairs + 1

\* for attempt_index in range(self_repair_attempts + 1)
MoreAttempts == pc = "generating" /\ Len(attempts) <= options.repairs

FaultyGenerate ==
  /\ MoreAttempts
  /\ billed' = [billed EXCEPT !["generate"] = @ + 1]
  /\ usage' = [usage EXCEPT !.agent = @ + 1]
  /\ trace' = Append(trace, "generate")
  /\ \/ /\ attempts' = Append(attempts, "schema")
        /\ messages' = Append(messages, [role |-> "user", about |-> "schema"])
        /\ pc' = "generating"
        /\ UNCHANGED <<gen, explained>>
     \/ /\ gen' \in Statement
        /\ explained' = FALSE
        /\ pc' = "validating"
        /\ UNCHANGED <<attempts, messages>>
  /\ UNCHANGED <<options, score, context, result, executed>>

\* One generation: an answer that does not have the required fields is a failed
\* attempt, too.
Generate ==
  /\ MoreAttempts
  /\ billed' = [billed EXCEPT !["generate"] = @ + 1]
  /\ usage' = [usage EXCEPT !.agent = @ + 1]
  /\ trace' = Append(trace, "generate")
  /\ \/ Retry("schema") /\ UNCHANGED <<gen, explained>>
     \/ /\ gen' \in Statement
        /\ explained' = FALSE
        /\ pc' = "validating"
        /\ UNCHANGED <<attempts, messages>>
  /\ UNCHANGED <<options, score, context, result, executed>>

\* assert_read_only
GuardError ==
  IF ~gen.parses THEN "unparseable" ELSE IF ~gen.reads THEN "write" ELSE "none"

Guarded == options.readOnly => GuardError = "none"

FaultyValidate ==
  /\ pc = "validating"
  /\ IF ~Guarded
     THEN Retry(GuardError) /\ UNCHANGED explained
     ELSE /\ pc' = "executing"
          /\ explained' = (gen.binds \/ ~options.explains)
          /\ UNCHANGED <<attempts, messages>>
  /\ UNCHANGED <<options, score, context, gen, usage, trace, result, billed, executed>>

\* db.explain: the guard, then EXPLAIN where the dialect has one.
Validate ==
  /\ pc = "validating"
  /\ IF ~Guarded
     THEN Retry(GuardError) /\ UNCHANGED explained
     ELSE IF options.explains /\ ~gen.binds
     THEN Retry("static") /\ UNCHANGED explained
     ELSE /\ pc' = "executing"
          /\ explained' = TRUE
          /\ UNCHANGED <<attempts, messages>>
  /\ UNCHANGED <<options, score, context, gen, usage, trace, result, billed, executed>>

\* _success
Answer(narrated) ==
  /\ result' = [ok |-> TRUE, statement |-> gen, attempts |-> Len(attempts) + 1,
                usage |-> [usage EXCEPT !.narration = narrated]]
  /\ pc' = "returned"

\* db.execute: the guard again, then the statement; any exception is an error to repair.
Execute ==
  /\ pc = "executing"
  /\ IF ~Guarded
     THEN Retry(GuardError) /\ UNCHANGED <<trace, result, executed>>
     ELSE /\ executed' = Append(executed, [statement |-> gen, explained |-> explained])
          /\ IF ~gen.runs
             THEN Retry("execution") /\ UNCHANGED <<trace, result>>
             ELSE IF options.narrate
             THEN pc' = "narrating" /\ UNCHANGED <<attempts, messages, trace, result>>
             ELSE /\ Answer(0)
                  /\ trace' = Append(trace, "ok")
                  /\ UNCHANGED <<attempts, messages>>
  /\ UNCHANGED <<options, score, context, gen, usage, billed, explained>>

\* _narrate: one more call, metered apart.
Narrate ==
  /\ pc = "narrating"
  /\ billed' = [billed EXCEPT !["narrate"] = 1]
  /\ usage' = [usage EXCEPT !.narration = 1]
  /\ Answer(1)
  /\ trace' = trace \o <<"narrate", "ok">>
  /\ UNCHANGED <<options, score, context, messages, attempts, gen, explained, executed>>

\* Every attempt has failed: the last statement there was, with the last error.
GiveUp ==
  /\ pc = "generating" /\ ~MoreAttempts
  /\ result' = [ok |-> FALSE, statement |-> gen, attempts |-> Len(attempts),
                usage |-> usage]
  /\ trace' = Append(trace, "error")
  /\ pc' = "returned"
  /\ UNCHANGED <<options, score, context, messages, attempts, gen, usage, history>>

\* A model call raises, or EXPLAIN fails in a way that is not a database error: the
\* exception leaves ask(), with the usage so far.
Raise ==
  /\ \/ pc = "selecting" /\ options.strategy \in {"llm", "llm_lexical"}
     \/ MoreAttempts
     \/ pc \in {"validating", "narrating"}
  /\ pc' = "raised"
  /\ UNCHANGED <<options, score, context, messages, attempts, gen, usage, trace, result,
                 history>>

Next ==
  \/ SelectLocally \/ Shortlist \/ Generate \/ Validate \/ Execute \/ Narrate \/ GiveUp
  \/ Raise

Spec == Init /\ [][Next]_vars

-----------------------------------------------------------------------------
(* Properties                                                              *)

Children  == {i \in DOMAIN trace : trace[i] \in Calls}
NumBilled == billed["select"] + billed["generate"] + billed["narrate"]

\* Money, trace and result tell the same story: every billed call has its own span and
\* no other; a question that returns reports exactly what was billed, narration apart,
\* and its run span, written last and once, says whether it was answered.
SpendIsTraced ==
  /\ Cardinality(Children) = NumBilled
  /\ pc = "returned" =>
       /\ result.usage.agent = billed["select"] + billed["generate"]
       /\ result.usage.narration = billed["narrate"]
       /\ Cardinality(Children) = Len(trace) - 1
       /\ Last(trace) = IF result.ok THEN "ok" ELSE "error"
       /\ result.attempts = billed["generate"]

\* Only what passed validation runs, only pure reads when the database is read-only,
\* never twice in one attempt; and an answer is the rows of the last statement run.
OnlyValidatedSqlRuns ==
  /\ \A i \in DOMAIN executed :
       LET s == executed[i].statement
       IN /\ executed[i].explained
          /\ options.explains => s.binds
          /\ options.readOnly => s.parses /\ s.reads
          /\ i < Len(executed) => ~s.runs
  /\ Len(executed) <= billed["generate"]
  /\ pc = "returned" /\ result.ok =>
       result.statement = Last(executed).statement /\ result.statement.runs

\* What the model is sent: a schema that is never empty, has at most max_tables tables
\* unless it has all of them, and came about as the result says; and, whatever went wrong
\* before, a conversation that opens with the question, alternates between user and
\* assistant, and puts each failed attempt's own error to it, in order.
PromptIsSound ==
  /\ pc \notin {"selecting", "raised"} =>
       /\ context.tables # {}
       /\ context.strategy = "include_all" <=>
            options.strategy = "include_all" \/ context.fellBack
       /\ context.strategy = "include_all" => context.tables = Tables
       /\ context.strategy # "include_all" => Cardinality(context.tables) <= Cap
       /\ context.strategy = "lexical" =>
            \A t \in context.tables, u \in Tables \ context.tables : Before(t, u)
  /\ pc = "generating" =>
       /\ Len(messages) = 2 * Len(attempts) + 1
       /\ \A i \in DOMAIN messages :
            messages[i].role = IF i % 2 = 1 THEN "user" ELSE "assistant"
       /\ messages[1].about = "question"
       /\ \A k \in DOMAIN attempts : messages[2 * k + 1].about = attempts[k]
=============================================================================
