----------------------------- MODULE Evaluation -----------------------------
(***************************************************************************)
(* `sqbyl eval' in several processes, the runs it saves, `sqbyl release    *)
(* create', which headlines one of them, and load(), which runs a release  *)
(* elsewhere.  Meanwhile people edit the project, the database changes,    *)
(* evals raise or are killed.                                              *)
(*                                                                         *)
(* The brain of an agent is its semantics (the columns they declare), its  *)
(* trusted assets and its other files, each a revision; a fingerprint of   *)
(* it is the brain itself.  A run's id is the moment it was stamped.  How  *)
(* a question gets its verdict is module Scoring.  The gate of --budget    *)
(* refuses a command as a whole and is left out, like everything that is   *)
(* only printed (run diffs, the dev-test gap, the selection report).       *)
(*                                                                         *)
(* Variants named Faulty... are plausible slips in the definition that     *)
(* follows them; no specification uses them.                               *)
(***************************************************************************)
EXTENDS Naturals, Sequences, FiniteSets, SequencesExt, FiniteSetsExt, Functions

CONSTANTS
  Evals,       \* processes that run `sqbyl eval'
  NQuestions,  \* questions of a split
  Columns,     \* columns that may exist
  Types,       \* their types, as the driver renders them
  Family,      \* _normalize_type: the family of a type
  Missing,     \* no such column
  Possible,    \* what a column may become
  FirstSchema, \* the database at the start
  FirstDeclared, \* columns the semantics declare at the start
  AgentModels, \* models the manifest may name
  Models,      \* models a release may be loaded under
  Trials,      \* values of --trials
  None,        \* nothing, not stamped
  MaxCost,     \* bound: what a call costs
  Limits,      \* bound: passes of evals, releases and loads
  MaxEvents    \* bound: edits, changes of the database, kills and failures

Splits   == {"dev", "test"}
Verdicts == {"correct", "manual_review", "error"}

ASSUME EvaluationAssumption ==
  /\ IsFiniteSet(Evals) /\ NQuestions \in Nat \ {0} /\ Trials \subseteq Nat \ {0}
  /\ FirstSchema \in [Columns -> Types \cup {Missing}] /\ FirstDeclared \subseteq Columns
  /\ Possible \in [Columns -> SUBSET (Types \cup {Missing})]
  /\ Types \subseteq DOMAIN Family /\ Missing \notin Types
  /\ AgentModels \subseteq Models /\ None \notin Models
  /\ None \notin [declared : SUBSET Columns, assets : Nat, others : Nat]
  /\ \A declared \in SUBSET Columns :
       None \notin [declared -> {Family[t] : t \in Types} \cup {Missing}]
  /\ Limits \in [{"eval", "release", "load"} -> Nat]
  /\ {MaxCost, MaxEvents} \subseteq Nat

VARIABLES
  files,     \* the brain on disk
  schema,    \* the database: the types of its columns
  pc, job,   \* of the evals
  runs,      \* .sqbyl/runs
  ledger,    \* .sqbyl/usage.db: dollars per run
  clock,
  maker, draft, \* where `release create' stands, and what it has read
  releases,
  loaded,    \* the last load()
  commands, events,
  billed, lost, \* history: what was billed, and what of it for work that came to nothing
  moved      \* history: evals during whose current pass the database changed

project  == <<files, schema>>
evals    == <<pc, job>>
saved    == <<runs, ledger>>
delivery == <<maker, draft, releases, loaded>>
money    == <<billed, lost>>
vars     == <<project, evals, saved, clock, delivery, commands, events, money, moved>>

\* fingerprint_knowledge
Brain == files

\* live_schema_fingerprint: the families of the declared columns, missing ones included.
SchemaOf(live, declared) ==
  [c \in declared |-> IF live[c] = Missing THEN Missing ELSE Family[live[c]]]

\* A run of before there were fingerprints.
LegacyRun == [id |-> 0, split |-> "test", model |-> None, brain |-> None, schema |-> None,
              correct |-> 0, cost |-> 0, moved |-> FALSE, answers |-> {}]

NoJob == [split |-> None, trials |-> 0, model |-> None, brain |-> None, gold |-> None,
          results |-> << >>, rows |-> << >>, passes |-> << >>]

Init ==
  /\ files = [declared |-> FirstDeclared, assets |-> 0, others |-> 0]
  /\ schema = FirstSchema
  /\ pc = [e \in Evals |-> "idle"] /\ job = [e \in Evals |-> NoJob]
  /\ runs \in {{}, {LegacyRun}}
  /\ ledger = [i \in {} |-> 0] /\ clock = 1
  /\ maker = "idle" /\ draft = None /\ releases = {} /\ loaded = None
  /\ commands = [k \in DOMAIN Limits |-> 0] /\ events = 0
  /\ billed = 0 /\ lost = 0 /\ moved = {}

-----------------------------------------------------------------------------
(* sqbyl eval                                                              *)

Happens == events < MaxEvents /\ events' = events + 1
Command(kind, n) ==
  commands[kind] + n <= Limits[kind] /\ commands' = [commands EXCEPT ![kind] = @ + n]

Become(e, step, new) ==
  /\ pc' = [pc EXCEPT ![e] = step]
  /\ job' = [job EXCEPT ![e] = new]

Begin(e) ==
  /\ pc[e] = "idle"
  /\ \E s \in Splits, n \in Trials, m \in AgentModels :
       /\ Command("eval", n)
       /\ Become(e, "loading", [NoJob EXCEPT !.split = s, !.trials = n, !.model = m])
  /\ UNCHANGED <<project, saved, clock, delivery, events, money, moved>>

\* run_eval: a pass loads the knowledge once, and answers with nothing else.
LoadKnowledge(e) ==
  /\ pc[e] = "loading"
  /\ Become(e, "regolding", [job[e] EXCEPT !.brain = Brain])
  /\ moved' = moved \ {e}
  /\ UNCHANGED <<project, saved, clock, delivery, commands, events, money>>

\* The assets that are gold are loaded once more.
LoadGold(e) ==
  /\ pc[e] = "regolding"
  /\ Become(e, "asking", [job[e] EXCEPT !.gold = files.assets])
  /\ UNCHANGED <<project, saved, clock, delivery, commands, events, money, moved>>

\* One question: ask(), the scorers, and the judges for a row that needs review.
Ask(e) ==
  /\ pc[e] = "asking" /\ Len(job[e].results) < NQuestions
  /\ \E v \in Verdicts, agent \in 1..MaxCost, judge \in 0..MaxCost :
       /\ v # "manual_review" => judge = 0
       /\ Become(e, "asking",
                 [job[e] EXCEPT !.results = Append(@, [verdict |-> v, agent |-> agent,
                    judge |-> judge, brain |-> job[e].brain,
                    schema |-> SchemaOf(schema, job[e].brain.declared)])])
       /\ billed' = billed + agent + judge
  /\ UNCHANGED <<project, saved, clock, delivery, commands, events, lost, moved>>

SumOf(s) == FoldLeft(+, 0, s)

FaultyRowsOf(results) == [k \in DOMAIN results |-> results[k].agent]

\* The rows a run puts into the ledger: one of the agent, and one of the judges if they
\* were asked.
RowsOf(results) ==
  FlattenSeq([k \in DOMAIN results |->
    IF results[k].judge > 0 THEN <<results[k].agent, results[k].judge>>
                            ELSE <<results[k].agent>>])

\* Costs of the current pass that no row has.
Unmetered(e) ==
  IF pc[e] = "metering" THEN SumOf(job[e].rows) ELSE SumOf(RowsOf(job[e].results))

\* The ScoredRun of a pass: stamped with the brain that was loaded, and with the schema as
\* it is at the end.
RunOf(e) ==
  LET r == job[e].results
  IN [id |-> clock, split |-> job[e].split, model |-> job[e].model,
      brain |-> job[e].brain, schema |-> SchemaOf(schema, job[e].brain.declared),
      correct |-> Cardinality({k \in DOMAIN r : r[k].verdict = "correct"}),
      cost |-> SumOf([k \in DOMAIN r |-> r[k].agent + r[k].judge]),
      moved |-> e \in moved,
      answers |-> {[brain |-> r[k].brain, schema |-> r[k].schema] : k \in DOMAIN r}]

Stamp(e) ==
  /\ pc[e] = "asking" /\ Len(job[e].results) = NQuestions
  /\ Become(e, "metering", [job[e] EXCEPT !.passes = Append(@, RunOf(e)),
                                         !.rows = RowsOf(job[e].results), !.results = << >>])
  /\ ledger' = [i \in DOMAIN ledger \cup {clock} |-> IF i = clock THEN 0 ELSE ledger[i]]
  /\ clock' = clock + 1
  /\ UNCHANGED <<project, runs, delivery, commands, events, money, moved>>

\* project.eval meters row by row.
MeterRow(e) ==
  /\ pc[e] = "metering" /\ job[e].rows # << >>
  /\ Become(e, "metering", [job[e] EXCEPT !.rows = Tail(@)])
  /\ ledger' = [ledger EXCEPT ![Last(job[e].passes).id] = @ + Head(job[e].rows)]
  /\ UNCHANGED <<project, runs, clock, delivery, commands, events, money, moved>>

\* _eval_trials: the upper median of the passes by accuracy.
Representative(passes) ==
  LET Before(j, i) == \/ passes[j].correct < passes[i].correct
                      \/ passes[j].correct = passes[i].correct /\ j < i
  IN passes[CHOOSE i \in DOMAIN passes :
              Cardinality({j \in DOMAIN passes : Before(j, i)}) = Len(passes) \div 2]

FaultyNextTrial(e) ==
  /\ pc[e] = "metering" /\ job[e].rows = << >> /\ Len(job[e].passes) <= job[e].trials
  /\ Become(e, "loading", job[e])
  /\ UNCHANGED <<project, saved, clock, delivery, commands, events, money, moved>>

\* --trials asks for another pass.
NextTrial(e) ==
  /\ pc[e] = "metering" /\ job[e].rows = << >> /\ Len(job[e].passes) < job[e].trials
  /\ Become(e, "loading", job[e])
  /\ UNCHANGED <<project, saved, clock, delivery, commands, events, money, moved>>

\* save_run: of several passes only one.
Save(e) ==
  /\ pc[e] = "metering" /\ job[e].rows = << >> /\ Len(job[e].passes) = job[e].trials
  /\ runs' = runs \cup {Representative(job[e].passes)}
  /\ Become(e, "idle", NoJob)
  /\ UNCHANGED <<project, ledger, clock, delivery, commands, events, money, moved>>

\* The agent, the comparison or a judge raises: the results so far are gone.
Raise(e) ==
  /\ pc[e] = "asking" /\ Len(job[e].results) < NQuestions
  /\ Happens
  /\ \E dollars \in 0..MaxCost :
       billed' = billed + dollars /\ lost' = lost + dollars + Unmetered(e)
  /\ Become(e, "idle", NoJob)
  /\ UNCHANGED <<project, saved, clock, delivery, commands, moved>>

Kill(e) ==
  /\ pc[e] # "idle"
  /\ Happens
  /\ lost' = lost + Unmetered(e)
  /\ Become(e, "idle", NoJob)
  /\ UNCHANGED <<project, saved, clock, delivery, commands, billed, moved>>

-----------------------------------------------------------------------------
(* sqbyl release create                                                    *)

\* load_runs sorts by created_at.
Latest(split) ==
  LET candidates == {r \in runs : r.split = split}
  IN CHOOSE r \in candidates : \A other \in candidates : other.id <= r.id

Make(step, new) == maker' = step /\ draft' = new

\* build_release reads the semantics first; without a test run there is nothing to do.
ReadSemantics ==
  /\ maker = "idle"
  /\ Command("release", 1)
  /\ Make("fingerprinting", [declared |-> files.declared, touched |-> FALSE])
  /\ UNCHANGED <<project, evals, saved, clock, releases, loaded, events, money, moved>>

Fingerprint ==
  /\ maker = "fingerprinting"
  /\ Make("verifying", [declared |-> draft.declared, print |-> Brain,
                        touched |-> draft.touched])
  /\ UNCHANGED <<project, evals, saved, clock, releases, loaded, commands, events, money, moved>>

FaultyVerify ==
  /\ maker = "verifying"
  /\ IF ~\E r \in runs : r.split = "test" THEN Make("idle", None)
     ELSE Make("reading", [declared |-> draft.declared, run |-> Latest("test"),
                           touched |-> draft.touched])
  /\ UNCHANGED <<project, evals, saved, clock, releases, loaded, commands, events, money, moved>>

\* _verified_test_run: the latest test run scored this brain, or says nothing about it.
Verify ==
  /\ maker = "verifying"
  /\ IF \/ ~\E r \in runs : r.split = "test"
        \/ Latest("test").brain \notin {None, draft.print}
     THEN Make("idle", None)
     ELSE Make("reading", [declared |-> draft.declared, run |-> Latest("test"),
                           touched |-> draft.touched])
  /\ UNCHANGED <<project, evals, saved, clock, releases, loaded, commands, events, money, moved>>

\* The other files are read only now, then the artifact is written.
WriteRelease ==
  /\ maker = "reading"
  /\ releases' = releases \cup
       {[brain |-> [declared |-> draft.declared, assets |-> files.assets,
                    others |-> files.others],
         run |-> draft.run, touched |-> draft.touched]}
  /\ Make("idle", None)
  /\ UNCHANGED <<project, evals, saved, clock, loaded, commands, events, money, moved>>

-----------------------------------------------------------------------------
(* load                                                                    *)

\* The model is another one than the score was earned with, or nobody knows which.
ModelWarning(r, model) == r.run.model # model

FaultySchemaWarning(r) == \E c \in r.brain.declared : schema[c] = Missing

\* The declared columns are not what they were when the run was stamped.
SchemaWarning(r) ==
  /\ r.run.schema # None
  /\ SchemaOf(schema, r.brain.declared) # r.run.schema

Load ==
  /\ Command("load", 1)
  /\ \E r \in releases, m \in Models :
       loaded' = [release |-> r, model |-> m, schema |-> schema,
                  other |-> ModelWarning(r, m), drift |-> SchemaWarning(r)]
  /\ UNCHANGED <<project, evals, saved, clock, maker, draft, releases, events, money, moved>>

-----------------------------------------------------------------------------
(* People and the database                                                 *)

Touch == IF maker = "idle" THEN UNCHANGED draft ELSE draft' = [draft EXCEPT !.touched = TRUE]

EditFiles ==
  /\ Happens
  /\ \/ files' = [files EXCEPT !.assets = @ + 1]
     \/ files' = [files EXCEPT !.others = @ + 1]
     \/ \E c \in Columns : files' = [files EXCEPT !.declared = @ \ {c}]
  /\ files' # files
  /\ Touch
  /\ UNCHANGED <<schema, evals, saved, clock, maker, releases, loaded, commands, money, moved>>

Migrate ==
  /\ Happens
  /\ \E c \in Columns : \E t \in Possible[c] :
       schema[c] # t /\ schema' = [schema EXCEPT ![c] = t]
  /\ moved' = moved \cup {e \in Evals : pc[e] # "idle"}
  /\ UNCHANGED <<files, evals, saved, clock, delivery, commands, money>>

-----------------------------------------------------------------------------

Next ==
  \/ \E e \in Evals :
       \/ Begin(e) \/ LoadKnowledge(e) \/ LoadGold(e) \/ Ask(e) \/ Stamp(e) \/ MeterRow(e)
       \/ NextTrial(e) \/ Save(e) \/ Raise(e) \/ Kill(e)
  \/ ReadSemantics \/ Fingerprint \/ Verify \/ WriteRelease
  \/ Load
  \/ EditFiles \/ Migrate

Spec == Init /\ [][Next]_vars

-----------------------------------------------------------------------------
(* Safety                                                                  *)

Brains == [declared : SUBSET Columns, assets : Nat, others : Nat]

IsRun(r) ==
  /\ r.id \in 0..clock /\ r.split \in Splits /\ r.model \in AgentModels \cup {None}
  /\ r.brain \in Brains \cup {None}
  /\ r.correct \in 0..NQuestions /\ r.cost \in Nat

\* Types, and what a process holds: answers only while it asks, no more passes than
\* trials, nothing when it is idle.
TypeOK ==
  /\ files \in Brains /\ schema \in [Columns -> Types \cup {Missing}]
  /\ DOMAIN ledger \subseteq 1..clock /\ \A i \in DOMAIN ledger : ledger[i] \in Nat
  /\ \A r \in runs : IsRun(r)
  /\ \A e \in Evals :
       /\ pc[e] \in {"idle", "loading", "regolding", "asking", "metering"}
       /\ pc[e] = "idle" <=> job[e] = NoJob
       /\ pc[e] # "asking" => job[e].results = << >>
       /\ pc[e] # "metering" => job[e].rows = << >>
       /\ Len(job[e].passes) <= job[e].trials /\ Len(job[e].results) <= NQuestions
       /\ \A k \in DOMAIN job[e].passes : IsRun(job[e].passes[k])
  /\ maker \in {"idle", "fingerprinting", "verifying", "reading"}
  /\ IF maker = "idle" THEN draft = None
                       ELSE draft.declared \subseteq Columns /\ draft.touched \in BOOLEAN
  /\ {clock, events, billed, lost} \subseteq Nat /\ moved \subseteq Evals

\* A run that is saved is paid for in the ledger to the last row, judges included, whatever
\* was killed around it; and everything billed is in the ledger, about to be put there, or
\* was spent by a process that raised or was killed (project.eval, _eval_trials).
RunsAreOnTheBooks ==
  /\ \A r \in runs : r.id # 0 => ledger[r.id] = r.cost
  /\ billed = SumFunction(ledger) + lost + SumFunction([e \in Evals |-> Unmetered(e)])

\* The headline of a release was earned by the files it ships (build_release): each answer
\* behind it was given by that very brain, on the held-out split, through edits during and
\* after the eval and through other evals; except that a run without a fingerprint proves
\* nothing and that files edited during the build itself are not noticed.
ReleaseEarnedItsScore ==
  \A r \in releases : ~r.touched /\ r.run.brain # None =>
    /\ r.run.split = "test"
    /\ \A a \in r.run.answers : a.brain = r.brain

\* load() without a warning means the model that earned the score and, in every declared
\* column, the database the answers were given on; with a drift warning it does not
\* (live_schema_fingerprint, the type families and the missing columns), unless the
\* database changed during the eval itself.
WarningsAreTrue ==
  loaded # None =>
    LET r == loaded.release
    IN /\ loaded.other <=> r.run.model # loaded.model
       /\ ~r.touched /\ ~r.run.moved =>
            (loaded.drift <=>
               \E a \in r.run.answers : a.schema # SchemaOf(loaded.schema, r.brain.declared))
=============================================================================
