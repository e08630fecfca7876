----------------------------- MODULE ProjectInit -----------------------------
(***************************************************************************)
(* What `sqbyl init' does to a project, again and again: a free pass over  *)
(* the schema and the data, a plan of what is not done yet, the annotation *)
(* wave, synthesis into an empty dev set, the baseline eval and the Coach, *)
(* each behind the budget; beside it `sqbyl introspect', `sqbyl profile'   *)
(* and `sqbyl annotate', which work on the same files.  People edit those  *)
(* files while a command runs, the database moves, and a command may be    *)
(* killed at any step or raise.                                            *)
(*                                                                         *)
(* Tables are numbered in the order of their file names, one file each.    *)
(* One command runs at a time.  The annotation wave is the fan-out of      *)
(* BudgetedFanout: position p of a batch is the p-th table of the plan.    *)
(* A file has one name; --dry-run, model overrides and the ids of review   *)
(* cards are left out, and the eval and the Coach are one paid call each.  *)
(*                                                                         *)
(* Variants named Faulty... are plausible slips in the definition that     *)
(* follows them; no specification uses them.                               *)
(***************************************************************************)
EXTENDS SemanticsFile, Sequences, SequencesExt, FiniteSetsExt

CONSTANTS
  NTables,      \* tables in the database
  FirstColumns, \* the columns they start with
  LaterColumns, \* the columns they may get
  Clocks,       \* values of --as-of, absent included
  Selections,   \* values of --select
  Budgets,      \* values of --budget
  NoBudget,     \* no --budget
  Estimate,     \* what a call is estimated to cost
  MaxCost,      \* bound: what a call costs
  Concurrency,  \* units of the wave at a time
  AutoCoach,    \* automation.auto_coach
  MaxSurvivors, \* bound: questions one synthesis adds
  MaxCommands,  \* bound: commands
  MaxEvents     \* bound: kills, failed calls, edits by hand, changes of the database

Tables == 1..NTables
WholeProject == 0
Stages == {"annotate", "synth", "eval"}

ASSUME ProjectInitAssumption ==
  /\ NTables \in Nat \ {0} /\ FirstColumns \in [Tables -> SUBSET Columns]
  /\ LaterColumns \in [Tables -> SUBSET Columns]
  /\ Selections \subseteq SUBSET Stages
  /\ Budgets \subseteq Nat /\ NoBudget \notin Nat
  /\ {Estimate, MaxCost, Concurrency, MaxSurvivors, MaxCommands, MaxEvents}
       \subseteq Nat
  /\ Concurrency > 0 /\ AutoCoach \in BOOLEAN

VARIABLES
  data, live,    \* the database: version of its data, columns of its tables
  text,          \* semantics/*.yaml
  queue, dev,    \* .sqbyl/candidates.yaml and benchmarks/dev.yaml
  rest,          \* revision of the other tracked files
  stamps, base,  \* .sqbyl/enrichment.json
  review,        \* .sqbyl/annotate_review.json
  scored,        \* saved dev runs: what each one scored
  ledger,        \* dollars the latest command has put into .sqbyl/usage.db
  pc, cmd,       \* where the command stands, and its options
  schema,        \* the schema it introspected
  left,          \* tables its current loop still has to see
  hold,          \* text it read of a table and will write back
  plan,          \* the tables to annotate, and the stages to run
  costs,         \* usage in memory that is not metered yet
  spent,         \* its meter
  evalCost,      \* what its eval cost
  drafted,       \* synthesized questions, or withheld proposals, in memory
  seen,          \* the project its eval loaded
  open, stage, primers, cap, total,  \* the fan-out
  commands, events,
  billed, wasted, \* history: what it was billed, and what of it for calls that failed
  earned,        \* history: texts the annotator wrote
  marks,         \* history: what people wrote while no command held the file
  touched        \* history: tables, or WholeProject, edited while their stamp was pending

database == <<data, live>>
context  == <<text, dev, rest>>
state    == <<stamps, base, review, scored>>
fanout   == <<open, stage, primers, cap, total>>
memory   == <<cmd, schema, left, hold, plan, costs, spent, evalCost, drafted, seen>>
money    == <<ledger, billed, wasted>>
bounds   == <<commands, events>>
hist     == <<earned, marks, touched>>
vars     == <<database, context, queue, state, pc, memory, fanout, money, bounds, hist>>

F == INSTANCE BudgetedFanout WITH
       MaxUnits <- NTables, MaxUnitCost <- MaxCost, MayAbort <- FALSE,
       Budgets <- 0..(Max(Budgets \cup {0}))

Questions == [id : Nat, q : Nat]

\* content_hash: every tracked file.
Content == [text |-> text, dev |-> dev, rest |-> rest]

NoPlan == [tables |-> << >>, synth |-> FALSE, eval |-> FALSE]

\* _budget_opts: --auto needs a budget.
Commands ==
       {c \in [kind : {"init"}, auto : BOOLEAN, budget : Budgets \cup {NoBudget},
               steps : Selections, clock : Clocks] : c.auto => c.budget # NoBudget}
  \cup {c \in [kind : {"annotate"}, auto : BOOLEAN, budget : Budgets \cup {NoBudget}] :
          c.auto => c.budget # NoBudget}
  \cup [kind : {"introspect"}, mode : {"keep", "force", "sync"}]
  \cup [kind : {"profile"}]

Steps == {"idle", "introspecting", "drafting", "profiling", "planning", "confirming",
          "annotating", "wave", "settling", "synthesizing", "queueing", "seeding",
          "evaluating", "scoring", "stamping", "coaching", "picking", "asking", "metering", "saving",
          "reporting"}

\* Types, and what a command holds in memory: file texts only while it works on those
\* files, nothing once it has ended.
TypeOK ==
  /\ data \in 1..MaxData /\ live \in [Tables -> SUBSET Columns]
  /\ text \in [Tables -> File \cup {NoFile}]
  /\ queue \subseteq Questions /\ dev \subseteq Questions
  /\ rest \in 0..MaxEvents
  /\ stamps \in [Tables -> File \cup {NoFile}]
  /\ review \subseteq Tables \X Keys
  /\ {ledger, spent, evalCost, billed, wasted} \subseteq Nat
  /\ pc \in Steps /\ (pc # "idle" => cmd \in Commands)
  /\ left \subseteq Tables
  /\ hold \in [Tables -> File \cup {NoFile}]
  /\ \A t \in Tables : hold[t] # NoFile => pc \in {"profiling", "wave", "asking"}
  /\ plan \in [tables : Seq(Tables), synth : BOOLEAN, eval : BOOLEAN]
  /\ costs \in [Tables -> Nat]
  /\ open = (pc = "wave") /\ DOMAIN stage = Tables
  /\ pc = "idle" => plan = NoPlan /\ drafted = {} /\ seen = << >>
  /\ commands \in 0..MaxCommands /\ events \in 0..MaxEvents
  /\ touched \subseteq Tables \cup {WholeProject}

Init ==
  /\ data = 1 /\ live = FirstColumns
  /\ text = [t \in Tables |-> NoFile] /\ dev = {} /\ queue = {} /\ rest = 0
  /\ stamps = [t \in Tables |-> NoFile] /\ base = << >>
  /\ review = {} /\ scored = {}
  /\ ledger = 0 /\ billed = 0 /\ wasted = 0
  /\ pc = "idle" /\ cmd = << >> /\ schema = << >> /\ left = {}
  /\ hold = [t \in Tables |-> NoFile] /\ plan = NoPlan
  /\ costs = [t \in Tables |-> 0] /\ spent = 0 /\ evalCost = 0
  /\ drafted = {} /\ seen = << >>
  /\ F!Init
  /\ commands = 0 /\ events = 0
  /\ earned = {} /\ marks = {} /\ touched = {}

-----------------------------------------------------------------------------
(* The command line                                                        *)

Goto(step) == pc' = step

\* Something goes wrong or comes from outside.
Happens == events < MaxEvents /\ events' = events + 1

\* The command ends, whatever the reason: only the files are left.
Exit ==
  /\ pc' = "idle" /\ cmd' = << >> /\ schema' = << >> /\ left' = {}
  /\ hold' = [t \in Tables |-> NoFile] /\ plan' = NoPlan
  /\ costs' = [t \in Tables |-> 0] /\ spent' = 0 /\ evalCost' = 0
  /\ drafted' = {} /\ seen' = << >>
  /\ open' = FALSE /\ stage' = [t \in Tables |-> "absent"] /\ primers' = {}
  /\ cap' = NoBudget /\ total' = 0

Begin ==
  /\ pc = "idle" /\ commands < MaxCommands
  /\ \E c \in Commands :
       /\ cmd' = c
       /\ left' = IF c.kind \in {"profile", "annotate"}
                  THEN {t \in Tables : text[t] # NoFile} ELSE {}
       /\ pc' = IF c.kind \in {"init", "introspect"} THEN "introspecting"
                ELSE IF left' = {} THEN "reporting"
                ELSE IF c.kind = "profile" THEN "profiling" ELSE "picking"
  /\ commands' = commands + 1
  /\ ledger' = 0 /\ billed' = 0 /\ wasted' = 0
  /\ UNCHANGED <<database, context, queue, state, schema, hold, plan, costs, spent, evalCost,
                 drafted, seen, fanout, events, hist>>

Finish ==
  /\ pc = "reporting"
  /\ Exit
  /\ UNCHANGED <<database, context, queue, state, money, bounds, hist>>

Kill ==
  /\ pc # "idle"
  /\ Happens
  /\ Exit
  /\ UNCHANGED <<database, context, queue, state, money, commands, hist>>

\* would_exceed and _authorize: within the budget a stage just runs; beyond it a
\* headless command stops and a guided one asks.
WouldExceed(estimate) == cmd.budget # NoBudget /\ spent + estimate > cmd.budget

MayRun(estimate)  == ~WouldExceed(estimate) \/ ~cmd.auto
MayStop(estimate) == WouldExceed(estimate)

\* A remainder below zero admits no more than zero does.
Remaining ==
  IF cmd.budget = NoBudget THEN NoBudget
  ELSE IF spent > cmd.budget THEN 0 ELSE cmd.budget - spent

\* Usage that reaches the meter is in usage.db at once.
Meter(dollars) ==
  /\ spent' = spent + dollars
  /\ ledger' = ledger + dollars

Bill(dollars) == billed' = billed + dollars

\* A call that was billed and failed, or whose answer cannot be parsed.
Waste(dollars) ==
  /\ Happens
  /\ Bill(dollars) /\ wasted' = wasted + dollars

-----------------------------------------------------------------------------
(* The free pass, `sqbyl introspect' and `sqbyl profile'                   *)

Introspect ==
  /\ pc = "introspecting"
  /\ schema' = live
  /\ left' = Tables
  /\ Goto("drafting")
  /\ UNCHANGED <<database, context, queue, state, cmd, hold, plan, costs, spent, evalCost,
                 drafted, seen, fanout, money, bounds, hist>>

\* An existing file is left alone, overwritten (--force) or extended (--sync).
DraftFor(t) ==
  IF text[t] = NoFile THEN Drafted(schema[t])
  ELSE IF cmd.kind = "introspect" /\ cmd.mode = "force" THEN Drafted(schema[t])
  ELSE IF cmd.kind = "introspect" /\ cmd.mode = "sync" THEN Synced(text[t], schema[t])
  ELSE text[t]

Draft ==
  /\ pc = "drafting"
  /\ LET t == Min(left)
         last == left = {t}
     IN /\ text' = [text EXCEPT ![t] = DraftFor(t)]
        /\ marks' = IF cmd.kind = "introspect" /\ cmd.mode = "force"
                    THEN {m \in marks : m.table # t} ELSE marks
        /\ left' = IF last /\ cmd.kind = "init" THEN Tables ELSE left \ {t}
        /\ pc' = IF ~last THEN pc
                 ELSE IF cmd.kind = "init" THEN "profiling" ELSE "reporting"
  /\ UNCHANGED <<database, dev, rest, queue, state, cmd, schema, hold, plan, costs, spent,
                 evalCost, drafted, seen, fanout, money, bounds, earned, touched>>

LoadForProfiling ==
  /\ pc = "profiling" /\ left # {}
  /\ LET t == Min(left)
     IN /\ hold[t] = NoFile
        /\ IF TableNote \in text[t].off
           THEN left' = left \ {t} /\ UNCHANGED hold
           ELSE hold' = [hold EXCEPT ![t] = text[t]] /\ UNCHANGED left
  /\ UNCHANGED <<database, context, queue, state, pc, cmd, schema, plan, costs, spent, evalCost,
                 drafted, seen, fanout, money, bounds, hist>>

\* The profile is taken of the data as it is now and merged into the text read before.
WriteProfile ==
  /\ pc = "profiling" /\ left # {}
  /\ LET t == Min(left)
     IN /\ hold[t] # NoFile
        /\ text' = [text EXCEPT ![t] = Profiled(hold[t], data)]
        /\ hold' = [hold EXCEPT ![t] = NoFile]
        /\ left' = left \ {t}
  /\ UNCHANGED <<database, dev, rest, queue, state, pc, cmd, schema, plan, costs, spent,
                 evalCost, drafted, seen, fanout, money, bounds, hist>>

EndProfiling ==
  /\ pc = "profiling" /\ left = {}
  /\ Goto(IF cmd.kind = "init" THEN "planning" ELSE "reporting")
  /\ UNCHANGED <<database, context, queue, state, memory, fanout, money, bounds, hist>>

-----------------------------------------------------------------------------
(* The plan                                                                *)

FaultyBaselineIsCurrent ==
  base # << >> /\ base.content = Content /\ base.clock = cmd.clock /\ scored # {}

\* _baseline_is_current: same files, same schema, same clock, and some dev run exists.
BaselineIsCurrent ==
  /\ base # << >>
  /\ base.content = Content /\ base.schema = schema /\ base.clock = cmd.clock
  /\ scored # {}

\* tables_needing_annotation, in the order of their files
Needing ==
  LET needing == {t \in Tables : text[t] # NoFile /\ NeedsAnnotation(text[t], stamps[t])}
  IN CHOOSE batch \in [1..Cardinality(needing) -> needing] :
       \A i, j \in DOMAIN batch : i < j => batch[i] < batch[j]

\* build_plan: annotate what is not stamped, synthesize only into an empty dev set,
\* evaluate unless the baseline is current.
PlanFor(steps) ==
  LET synth == "synth" \in steps /\ dev = {}
  IN [tables |-> IF "annotate" \in steps THEN Needing ELSE << >>,
      synth  |-> synth,
      eval   |-> /\ "eval" \in steps
                 /\ synth \/ ~BaselineIsCurrent
                 /\ synth \/ dev # {}]

HasPaidWork(p) == p.tables # << >> \/ p.synth \/ p.eval

\* A headless command goes on, a guided one shows the plan first.
BuildPlan ==
  /\ pc = "planning"
  /\ plan' = PlanFor(cmd.steps)
  /\ Goto(IF ~HasPaidWork(plan') THEN "reporting"
          ELSE IF cmd.auto THEN "annotating" ELSE "confirming")
  /\ UNCHANGED <<database, context, queue, state, cmd, schema, left, hold, costs, spent,
                 evalCost, drafted, seen, fanout, money, bounds, hist>>

\* The menu: other steps (the plan is built anew), yes or no.
Reselect ==
  /\ pc = "confirming"
  /\ \E steps \in Selections : plan' = PlanFor(steps)
  /\ UNCHANGED <<database, context, queue, state, pc, cmd, schema, left, hold, costs, spent,
                 evalCost, drafted, seen, fanout, money, bounds, hist>>

Confirm ==
  /\ pc = "confirming"
  /\ \E yes \in BOOLEAN : Goto(IF yes /\ HasPaidWork(plan) THEN "annotating" ELSE "reporting")
  /\ UNCHANGED <<database, context, queue, state, memory, fanout, money, bounds, hist>>

-----------------------------------------------------------------------------
(* The annotation wave                                                     *)

PastAnnotation ==
  /\ pc = "annotating" /\ plan.tables = << >>
  /\ Goto("synthesizing")
  /\ UNCHANGED <<database, context, queue, state, memory, fanout, money, bounds, hist>>

\* The first table primes the prompt cache; the fan-out gets what is left of the budget.
StartWave ==
  /\ pc = "annotating" /\ plan.tables # << >>
  /\ MayRun(Len(plan.tables) * Estimate)
  /\ F!Begin
  /\ stage' = [p \in Tables |-> IF p <= Len(plan.tables) THEN "pending" ELSE "absent"]
  /\ primers' = {1}
  /\ cap' = Remaining
  /\ Goto("wave")
  /\ UNCHANGED <<database, context, queue, state, memory, money, bounds, hist>>

StopBeforeWave ==
  /\ pc = "annotating" /\ plan.tables # << >>
  /\ MayStop(Len(plan.tables) * Estimate)
  /\ Goto("reporting")
  /\ UNCHANGED <<database, context, queue, state, memory, fanout, money, bounds, hist>>

\* A worker reads its file and calls the annotator.
ReadTable(p) ==
  /\ pc = "wave"
  /\ F!AdmitPrimer(p) \/ F!Admit(p)
  /\ hold' = [hold EXCEPT ![plan.tables[p]] = text[plan.tables[p]]]
  /\ UNCHANGED <<database, context, queue, state, pc, cmd, schema, left, plan, costs, spent,
                 evalCost, drafted, seen, money, bounds, hist>>

\* The answer is merged into the text the worker read.
WriteTable(p) ==
  /\ pc = "wave"
  /\ F!Settle(p)
  /\ stage'[p] = "ok"
  /\ \E d \in AnnotationDraft, dollars \in 1..MaxCost :
       LET t == plan.tables[p]
           f == Annotated(hold[t], d)
       IN /\ text' = [text EXCEPT ![t] = f]
          /\ earned' = earned \cup {[table |-> t, text |-> f]}
          /\ hold' = [hold EXCEPT ![t] = NoFile]
          /\ costs' = [costs EXCEPT ![p] = dollars]
          /\ total' = total + dollars
          /\ Bill(dollars)
  /\ UNCHANGED <<database, dev, rest, queue, state, pc, cmd, schema, left, plan, spent, evalCost,
                 drafted, seen, ledger, wasted, bounds, marks, touched>>

FaultyFailTable(p) ==
  /\ pc = "wave"
  /\ F!Settle(p)
  /\ stage'[p] = "failed"
  /\ \E dollars \in 0..MaxCost : total' = total + dollars /\ Waste(dollars)
  /\ UNCHANGED <<database, context, queue, state, pc, cmd, schema, left, hold, plan, costs, spent,
                 evalCost, drafted, seen, ledger, commands, hist>>

FailTable(p) ==
  /\ pc = "wave"
  /\ F!Settle(p)
  /\ stage'[p] = "failed"
  /\ \E dollars \in 0..MaxCost : total' = total + dollars /\ Waste(dollars)
  /\ hold' = [hold EXCEPT ![plan.tables[p]] = NoFile]
  /\ UNCHANGED <<database, context, queue, state, pc, cmd, schema, left, plan, costs, spent,
                 evalCost, drafted, seen, ledger, commands, hist>>

SkipTable(p) ==
  /\ pc = "wave"
  /\ F!Skip(p)
  /\ UNCHANGED <<database, context, queue, state, pc, memory, money, bounds, hist>>

EndWave ==
  /\ pc = "wave"
  /\ F!End
  /\ left' = F!In("ok")
  /\ Goto("settling")
  /\ UNCHANGED <<database, context, queue, state, cmd, schema, hold, plan, costs, spent, evalCost,
                 drafted, seen, money, bounds, hist>>

FaultySettleTable ==
  /\ pc = "settling" /\ left # {}
  /\ LET p == Min(left)
         t == plan.tables[p]
     IN /\ spent' = spent + costs[p] /\ UNCHANGED ledger
        /\ stamps' = [stamps EXCEPT ![t] = text[t]]
        /\ left' = left \ {p}
  /\ UNCHANGED <<database, context, queue, base, review, scored, pc, cmd, schema, hold, plan,
                 costs, evalCost, drafted, seen, fanout, billed, wasted, bounds, hist>>

\* Only now, table by table, is the usage metered and the file stamped as it is now.
SettleTable ==
  /\ pc = "settling" /\ left # {}
  /\ LET p == Min(left)
         t == plan.tables[p]
     IN /\ Meter(costs[p])
        /\ stamps' = [stamps EXCEPT ![t] = text[t]]
        /\ left' = left \ {p}
  /\ UNCHANGED <<database, context, queue, base, review, scored, pc, cmd, schema, hold, plan,
                 costs, evalCost, drafted, seen, fanout, billed, wasted, bounds, hist>>

\* A table the budget skipped stops the command here.
EndSettling ==
  /\ pc = "settling" /\ left = {}
  /\ Goto(IF F!In("skipped") = {} THEN "synthesizing" ELSE "reporting")
  /\ UNCHANGED <<database, context, queue, state, memory, fanout, money, bounds, hist>>

-----------------------------------------------------------------------------
(* `sqbyl annotate', one table after another                               *)

PickTable ==
  /\ pc = "picking" /\ left # {}
  /\ \/ /\ MayRun(Estimate)
        /\ hold' = [hold EXCEPT ![Min(left)] = text[Min(left)]]
        /\ Goto("asking")
     \/ /\ MayStop(Estimate)
        /\ Goto("saving") /\ UNCHANGED hold
  /\ UNCHANGED <<database, context, queue, state, cmd, schema, left, plan, costs, spent,
                 evalCost, drafted, seen, fanout, money, bounds, hist>>

AnnotateTable ==
  /\ pc = "asking"
  /\ \E d \in AnnotationDraft, dollars \in 1..MaxCost :
       LET t == Min(left)
       IN /\ text' = [text EXCEPT ![t] = Annotated(hold[t], d)]
          /\ drafted' = drafted \cup ({t} \X Withheld(hold[t], d))
          /\ hold' = [hold EXCEPT ![t] = NoFile]
          /\ costs' = [costs EXCEPT ![1] = dollars]
          /\ Bill(dollars)
  /\ Goto("metering")
  /\ UNCHANGED <<database, dev, rest, queue, state, cmd, schema, left, plan, spent, evalCost,
                 seen, fanout, ledger, wasted, bounds, hist>>

SkipFailedTable ==
  /\ pc = "asking"
  /\ \E dollars \in 0..MaxCost : Waste(dollars)
  /\ hold' = [hold EXCEPT ![Min(left)] = NoFile]
  /\ left' = left \ {Min(left)}
  /\ Goto("picking")
  /\ UNCHANGED <<database, context, queue, state, cmd, schema, plan, costs, spent, evalCost,
                 drafted, seen, fanout, ledger, commands, hist>>

MeterTable ==
  /\ pc = "metering"
  /\ Meter(costs[1])
  /\ left' = left \ {Min(left)}
  /\ Goto("picking")
  /\ UNCHANGED <<database, context, queue, state, cmd, schema, hold, plan, costs, evalCost,
                 drafted, seen, fanout, billed, wasted, bounds, hist>>

\* The proposals of this run replace those of the last one.
SaveReview ==
  /\ pc = "saving" \/ (pc = "picking" /\ left = {})
  /\ review' = drafted
  /\ Goto("reporting")
  /\ UNCHANGED <<database, context, queue, stamps, base, scored, memory, fanout, money, bounds,
                 hist>>

-----------------------------------------------------------------------------
(* Synthesis                                                               *)

Ids(questions) == {x.id : x \in questions}

FaultyReserved == Ids(dev)

\* synthesize: the ids of the queue and of the dev set are taken, as read after the call.
Reserved == Ids(queue) \cup Ids(dev)

\* _slug, when every question has the same one: the first numbers that are free.
FreshIds(n) ==
  CHOOSE ids \in SUBSET (1..(n + Cardinality(Reserved))) :
    /\ Cardinality(ids) = n /\ ids \cap Reserved = {}
    /\ \A i \in ids : 1..i \subseteq ids \cup Reserved

\* A question nobody has yet.
NewQuestion == 1 + Max({x.q : x \in queue \cup dev} \cup {0})

\* ground_candidates: what survives execution gets an id.
Survivors(n) ==
  LET ids == FreshIds(n)
  IN {[id |-> i, q |-> NewQuestion + Cardinality({j \in ids : j < i})] : i \in ids}

SkipSynthesis ==
  /\ pc = "synthesizing" /\ ~plan.synth
  /\ Goto("evaluating")
  /\ UNCHANGED <<database, context, queue, state, memory, fanout, money, bounds, hist>>

StopBeforeSynthesis ==
  /\ pc = "synthesizing" /\ plan.synth /\ MayStop(Estimate)
  /\ Goto("reporting")
  /\ UNCHANGED <<database, context, queue, state, memory, fanout, money, bounds, hist>>

\* One paid call, then every draft is executed.
Synthesize ==
  /\ pc = "synthesizing" /\ plan.synth /\ MayRun(Estimate)
  /\ \E n \in 0..MaxSurvivors, dollars \in 1..MaxCost :
       /\ drafted' = Survivors(n)
       /\ costs' = [costs EXCEPT ![1] = dollars]
       /\ Bill(dollars)
  /\ Goto("queueing")
  /\ UNCHANGED <<database, context, queue, state, cmd, schema, left, hold, plan, spent, evalCost,
                 seen, fanout, ledger, wasted, bounds, earned, marks, touched>>

\* add_candidates: a new question replaces a queued one of its id.
Queue ==
  /\ pc = "queueing"
  /\ Meter(costs[1])
  /\ queue' = {x \in queue : x.id \notin Ids(drafted)} \cup drafted
  /\ Goto("seeding")
  /\ UNCHANGED <<database, context, state, cmd, schema, left, hold, plan, costs, evalCost,
                 drafted, seen, fanout, billed, wasted, bounds, hist>>

\* append_to_dev_set: ids the dev set has are skipped.
Seed ==
  /\ pc = "seeding"
  /\ dev' = dev \cup {x \in drafted : x.id \notin Ids(dev)}
  /\ drafted' = {}
  /\ Goto("evaluating")
  /\ UNCHANGED <<database, text, rest, queue, state, cmd, schema, left, hold, plan, costs, spent,
                 evalCost, seen, fanout, money, bounds, hist>>

-----------------------------------------------------------------------------
(* The baseline and the Coach                                              *)

\* Synthesis may fall short of what the plan counted on.
EvalEstimate ==
  Estimate * Max({Cardinality(dev)} \cup (IF plan.synth THEN {MaxSurvivors} ELSE {}))

SkipEval ==
  /\ pc = "evaluating" /\ ~(plan.eval /\ dev # {})
  /\ Goto("reporting")
  /\ UNCHANGED <<database, context, queue, state, memory, fanout, money, bounds, hist>>

StopBeforeEval ==
  /\ pc = "evaluating" /\ plan.eval /\ dev # {} /\ MayStop(EvalEstimate)
  /\ Goto("reporting")
  /\ UNCHANGED <<database, context, queue, state, memory, fanout, money, bounds, hist>>

StartEval ==
  /\ pc = "evaluating" /\ plan.eval /\ dev # {} /\ MayRun(EvalEstimate)
  /\ seen' = Content
  /\ Goto("scoring")
  /\ UNCHANGED <<database, context, queue, state, cmd, schema, left, hold, plan, costs, spent,
                 evalCost, drafted, fanout, money, bounds, hist>>

EvalCosts == Cardinality(seen.dev)..(Cardinality(seen.dev) * MaxCost)

\* project.eval writes its own usage rows and saves the run; the meter of init is not told.
EndEval ==
  /\ pc = "scoring"
  /\ \E dollars \in EvalCosts :
       /\ Bill(dollars)
       /\ ledger' = ledger + dollars /\ evalCost' = dollars
  /\ scored' = scored \cup {[content |-> seen, schema |-> live, clock |-> cmd.clock]}
  /\ Goto("stamping")
  /\ UNCHANGED <<database, context, queue, stamps, base, review, cmd, schema, left, hold, plan,
                 costs, spent, drafted, seen, fanout, wasted, bounds, hist>>

\* _record_baseline: the files as they are now, the schema as the free pass read it.
StampBaseline ==
  /\ pc = "stamping"
  /\ base' = [content |-> Content, schema |-> schema, clock |-> cmd.clock]
  /\ Goto(IF AutoCoach THEN "coaching" ELSE "reporting")
  /\ UNCHANGED <<database, context, queue, stamps, review, scored, memory, fanout, money, bounds,
                 hist>>

\* The run may have no failures, and the Coach may not fit.
SkipCoach ==
  /\ pc = "coaching"
  /\ Goto("reporting")
  /\ UNCHANGED <<database, context, queue, state, memory, fanout, money, bounds, hist>>

Coach ==
  /\ pc = "coaching" /\ MayRun(Estimate)
  /\ \E dollars \in 1..MaxCost : Bill(dollars) /\ Meter(dollars)
  /\ Goto("reporting")
  /\ UNCHANGED <<database, context, queue, state, cmd, schema, left, hold, plan, costs, evalCost,
                 drafted, seen, fanout, wasted, bounds, hist>>

\* Synthesis, the eval or the Coach raises: nothing of it is metered, the command ends.
Raise ==
  /\ \/ pc = "synthesizing" /\ plan.synth /\ MayRun(Estimate)
     \/ pc = "scoring"
     \/ pc = "coaching" /\ MayRun(Estimate)
  /\ \E dollars \in 0..MaxCost : Waste(dollars)
  /\ Exit
  /\ UNCHANGED <<database, context, queue, state, ledger, commands, hist>>

-----------------------------------------------------------------------------
(* People and the database                                                 *)

\* Annotated, not stamped yet.
StampPending(t) ==
  \E p \in Tables :
    /\ p <= Len(plan.tables) /\ plan.tables[p] = t
    /\ stage[p] = "ok" /\ (pc = "wave" \/ (pc = "settling" /\ p \in left))

ByHand(t, f, mark) ==
  /\ Happens
  /\ text[t] # NoFile
  /\ text' = [text EXCEPT ![t] = f]
  /\ marks' = IF hold[t] = NoFile THEN marks \cup {mark} ELSE marks
  /\ touched' = touched \cup (IF StampPending(t) THEN {t} ELSE {})
                        \cup (IF pc \in {"scoring", "stamping"} THEN {WholeProject} ELSE {})
  /\ UNCHANGED <<database, dev, rest, queue, state, pc, memory, fanout, money, commands, earned>>

\* Somebody writes a description, or a draft over with their own words.
Describe(t, k) ==
  /\ text[t] # NoFile => text[t].notes[k] # "absent"
  /\ ByHand(t, [text[t] EXCEPT !.notes[k] = "authored"], [table |-> t, key |-> k, kind |-> "note"])

\* Somebody keeps a column, or the table, out of the profiles: the statistics go.
OptOut(t, k) ==
  /\ text[t] # NoFile => text[t].notes[k] # "absent"
  /\ ByHand(t, [text[t] EXCEPT !.off = @ \cup {k},
                               !.stats = [c \in Columns |-> IF k \in {c, TableNote} THEN 0 ELSE @[c]]],
            [table |-> t, key |-> k, kind |-> "off"])

\* Instructions, examples or the dev set change, a dev question may be the first.
EditRest ==
  /\ Happens
  /\ rest' = rest + 1
  /\ \E written \in {{}, {[id |-> 0, q |-> 0]}} : dev' = dev \cup written
  /\ touched' = touched \cup (IF pc \in {"scoring", "stamping"} THEN {WholeProject} ELSE {})
  /\ UNCHANGED <<database, text, queue, state, pc, memory, fanout, money, commands,
                 earned, marks>>

MoveData ==
  /\ Happens
  /\ data < MaxData /\ data' = data + 1
  /\ UNCHANGED <<live, context, queue, state, pc, memory, fanout, money, commands, hist>>

AddColumn(t, c) ==
  /\ Happens
  /\ c \in LaterColumns[t] \ live[t]
  /\ live' = [live EXCEPT ![t] = @ \cup {c}]
  /\ UNCHANGED <<data, context, queue, state, pc, memory, fanout, money, commands, hist>>

-----------------------------------------------------------------------------

FreePass   == Introspect \/ Draft \/ LoadForProfiling \/ WriteProfile \/ EndProfiling
Planning   == BuildPlan \/ Reselect \/ Confirm
Wave       == \/ PastAnnotation \/ StartWave \/ StopBeforeWave \/ EndWave
              \/ SettleTable \/ EndSettling
              \/ \E p \in Tables : ReadTable(p) \/ WriteTable(p) \/ FailTable(p) \/ SkipTable(p)
Annotate   == PickTable \/ AnnotateTable \/ SkipFailedTable \/ MeterTable \/ SaveReview
Synthesis  == SkipSynthesis \/ StopBeforeSynthesis \/ Synthesize \/ Queue \/ Seed
Evaluation == \/ SkipEval \/ StopBeforeEval \/ StartEval \/ EndEval \/ StampBaseline
              \/ SkipCoach \/ Coach
People     == \/ EditRest \/ MoveData
              \/ \E t \in Tables : \/ \E k \in Keys : Describe(t, k) \/ OptOut(t, k)
                                   \/ \E c \in Columns : AddColumn(t, c)

Next == \/ Begin \/ Finish \/ Kill \/ Raise
        \/ FreePass \/ Planning \/ Wave \/ Annotate \/ Synthesis \/ Evaluation \/ People

Spec == Init /\ [][Next]_vars

-----------------------------------------------------------------------------
(* Safety                                                                  *)

\* Re-running init writes into files people own (run_free_pass, merge_profiles,
\* merge_annotation): whatever the annotation wave, the profiler and the other commands do,
\* a description a person wrote and a `profile: false' stay in the file, unless it was
\* written into a text some command had already read or dropped by --force; and an
\* opted-out column never gets statistics back.
HandsAreRespected ==
  /\ \A m \in marks : IF m.kind = "note" THEN text[m.table].notes[m.key] = "authored"
                                         ELSE m.key \in text[m.table].off
  /\ \A t \in Tables : text[t] # NoFile =>
       \A c \in Columns : text[t].off \cap {c, TableNote} # {} => text[t].stats[c] = 0

\* What init skips as done was done (tables_needing_annotation, _baseline_is_current):
\* a table that needs no annotation has the very text the wave wrote, and a baseline
\* that counts as current is a saved run over these very files, schema and clock,
\* through kills and budget stops, unless somebody edited between the work and its stamp.
SkipsAreEarned ==
  /\ \A t \in Tables \ touched :
       text[t] # NoFile /\ ~NeedsAnnotation(text[t], stamps[t]) =>
         [table |-> t, text |-> text[t]] \in earned
  /\ WholeProject \notin touched /\ pc = "planning" /\ BaselineIsCurrent =>
       [content |-> Content, schema |-> schema, clock |-> cmd.clock] \in scored

\* When a command reports what it spent (_finish adds the eval, which has a meter of its
\* own), that is what it added to the ledger, and what the provider billed it, but for
\* calls that failed.
LedgerReconciles ==
  pc = "reporting" =>
    /\ ledger = spent + evalCost
    /\ billed = ledger + wasted

\* A question that is once in the review queue stays there (synthesize, add_candidates): a
\* new one takes an id of its own instead of the place of an old one, also when a run was
\* killed after it filled the queue and before it seeded the dev set, and the next run
\* synthesizes again.
QueueKeepsItsQuestions == [][queue \subseteq queue']_queue

\* What `--auto --budget' promises when every estimate is right (_budget_opts: "the
\* headless path hard-stops at the cap, so it must be given one it can't silently
\* blow"): such a run is never billed more than its cap.
AutoStaysInBudget ==
  pc = "reporting" /\ cmd.kind = "init" /\ cmd.auto /\ cmd.budget # NoBudget =>
    billed <= cmd.budget
=============================================================================
