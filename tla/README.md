# A TLA+ model of sqbyl

sqbyl builds, measures and improves text-to-SQL agents whose whole definition is a
directory of YAML and Markdown files. Two packages carry it: `sqbyl-runtime`
(ask a question: select tables, generate SQL, validate, repair, execute) and `sqbyl`
(introspect and annotate a database, synthesize and review a golden set, evaluate,
coach, optimize, release, serve). Almost every operation costs money at a model
provider, leaves files that a person also edits, and may stop half way. The modules
here are about that: what is paid for and recorded, what order files are written in,
what threads, console handlers and commands may do to one another, and what is still
true after a crash.

Paths below are relative to `src/packages/sqbyl/src/sqbyl/` unless they begin with
`runtime:`, which stands for `src/packages/sqbyl-runtime/src/sqbyl_runtime/`.

## Inventory

| component | state | operations | hard behaviour | what makes it correct |
|---|---|---|---|---|
| Orchestrator (`orchestrator.py`) | futures in flight, outcomes, running total | `run`, priming, wave, retries, events | pool threads finish in any order; the budget gate sees only finished units; callbacks may raise | pool bound, priming before the wave, exact accounting, bounded overshoot, skips are a tail, no orphan threads, the run ends |
| Chat server (`serve.py`) | session meter, lock, `usage.db`, feedback log | `ask`, `feedback`, launch, Ctrl-C | one thread per request; check, pay, record are three steps; crash between meter and ledger | the session budget is atomic, meter and ledger agree, the lock is always released |
| Spend meter, ledger (`runtime:cost.py`, `runtime:state/usage.py`) | totals, rows | `would_exceed`, `guard`, `record` | each locked, nothing locks both together | as used by the chat server; estimates and rates |
| Optimizer (`optimize.py`) | working tree, frontier, snapshot, total, rounds | baseline, coach, apply, trials, keep or revert, finish | an eval or a model call raises while an edit is on trial; majority and median over noisy trials; budget per batch | the tree is the picked version, the frontier climbs, the loop stays in its budget, the reported reason is true, the command ends |
| Coach (`coach.py`, `coach_heldout.py`) | reports, context files, quarantine | coach, from-test-failure, apply, card | commands overlap; files change by hand; write, stamp and quarantine are separate steps | an edit lands once, stamps tell the truth, diagnosed held-out questions are quarantined, a run is paid once |
| Review console (`console/app.py`, `candidates_io.py`, `calibration_io.py`, `eval/benchmarks_io.py`) | queue, golden set, runs, calibration trail | accept, reject, rule, judge card, add | handlers on a thread pool read and write whole files without a lock | accepted means golden, once; only executed SQL enters; rulings name their run; the trail keeps up |
| Question pipeline (`runtime:pipeline.py`, `runtime:selection.py`, `runtime:context.py`) | conversation, attempts, usage | select, generate, validate, repair, execute, narrate | failures at every step; repair bounds; what is billed and traced when it stops | attempts are bounded, only validated SQL runs, usage is what was billed |
| Initialization (`init.py`, `annotate.py`, `profile.py`, `introspect.py`, `semantics_io.py`) | semantics files, digests of what was annotated and scored, review queue, golden set, spend meter | free pass, plan, annotate wave, synthesis, baseline, coaching, each behind the budget | paid, resumable, parallel; written as it goes, metered and stamped at the end; people edit the files meanwhile | nothing is skipped that was not done, nothing hand-written is overwritten, ledger and bill agree, queued questions stay |
| Evaluation (`eval/*`, `project.py`, `models/runs.py`) | scored runs, ledger rows | eval, trials, score, judge | a search with pruning, backtracking and a cap; a panel's votes; processes side by side that raise or are killed | correct means reproduced; every saved run is paid for in the ledger |
| Synthesis and attention (`synth.py`, `attention.py`) | candidates, decisions | draft, ground, rank, readiness | pure, but with thresholds | leverage and readiness are monotone |
| Release, runtime loading (`release.py`, `runtime:runtime.py`, `runtime:export.py`, `runtime:fingerprint.py`) | release manifest | release create, load | content and schema change between eval, release and load | a manifest never claims a score for other content; warnings are true |
| LLM clients (`runtime:llm/*`) | lazy SDK client, recordings | complete | shared by pool threads | external services; the lazy client only |
| Database access (`runtime:db/*`) | connection | explain, execute | read-only guard | SQL parsing, no state |
| Command line, importers, file formats, reports (`cli.py`, `importers.py`, `yamlio.py`, `kpis.py`, `estimates.py`, ...) | none of their own | | | modelled where they order the steps of the components above |

How they meet: commands and console share files and nothing else, so a file read in
one step and written in another is where they interfere; the orchestrator calls closures
of annotate and eval on pool threads and charges what they return; the chat server
calls the pipeline under its lock; the optimizer calls the coach and the eval, and
`coach apply` is the same function the optimizer and the console call; `init` runs the
annotate wave on the orchestrator, synthesis into the console's queue, and an eval and a
coaching that meter themselves; `release create` headlines what an eval saved.

## Modules

### Orchestrator, BudgetedFanout (`orchestrator.py`)

`Orchestrator` has one dispatcher (the thread in `run()`) and one worker per unit. The
dispatcher's phases are the program points between which the worker threads may run:
priming one unit at a time, `fill()` (`Submit`, `Skip`, `EndFill`), `wait`, and one
`Collect` per finished future. A worker goes through `_exec`: started event, closure,
429 with backoff and retry, event, end. A closure burns up to `MaxCallCost` also when it
fails. With `CallbackRaises` the caller's `on_event` may raise at each event; where the
code catches that (inside the `try` of `_exec`) the unit turns into a failed one, and
where it does not the exception travels through the future, and leaving the `with` block
joins the pool. Unit ids may repeat, which `run()` refuses.

`BudgetedFanout` is the contract without threads: units are admitted in order while the
settled total is under the cap, at most `Concurrency` at a time, and settled one by one.
`Orchestrator` implements it (`ImplementsFanout`), the stage of a unit being read off
outcomes and worker. Left out: the length of backoff, event wording, the price table. `ProjectInit` runs its
annotation wave on the same contract.

### ChatServer, SessionBudget (`serve.py`, `runtime:cost.py`, `runtime:state/usage.py`)

Handler threads take the lock, check the budget (`Gate`, `would_exceed` on the flat
estimate), make one or more billed calls (`Call`; `ask_one` is a series of calls that
answers or raises), record in the session's meter, commit a ledger row and release the
lock; the reply leaves outside it. The row may be refused after the meter has counted
(`RecordFails`: a locked database, a full disk); `unwritten` is a history of what the session
metered and could not write, so that meter and ledger can be compared all the same. `Interrupt` and `Exit` are Ctrl-C: daemon threads die where
they stand, memory is lost, the ledger stays, and `Launch` opens a new session.
`SessionBudget` is the atomic counter with a hard cap that a user of the cap expects.
`sqbyl mcp` (`cli.py` `_run_mcp`) is the same gate with a single thread. Other processes
writing the same `usage.db` are not modelled.

### Optimizer (`optimize.py`, the coach as it calls it, `stats.py`)

One action per step of `_run`: the baseline eval, the checks at the top of the loop in
their order, the Coach call, refusing a proposal, applying it after a snapshot, a trial,
keeping or reverting, the budget stopping a batch, failure of any paid step, and
`_finish`. An eval is the set of dev questions it scores correct. `Median`, `Keep` and
`Significant` are `_judge_trials` and the sign test as operators. A file has a text and an
end-of-line convention, because reading and writing it back does not preserve the
second. Options are chosen when the command starts; `--target` and `--min-gain` are not
validated by the code, so they range over values outside what their help text says.

### ReviewConsole (`console/app.py` and the files it shares)

Every handler is a little program of file reads and writes; `queue`, `dev`, `runs` and
`calibration` are the files; `copy` is what a handler holds between reading a file and
writing it. `accept`: look up, execute the SQL, read the ids, read the text, write the
golden set, then read and write the queue. `resolve` and judge cards: load the latest
run, write it back with the verdict, append to the trail. `NewRun` is an eval finishing
in another process, `HandAdd` somebody saving `dev.yaml` from an editor, `add` the
`synth` and `import` commands. `overlapped` remembers whether two of them were ever at
work at the same time: a few promises hold only for a reviewer who waits for each
reply (the page does not make anyone wait), and say so.

### CoachDesk (`coach.py`, `coach_heldout.py`, the coach commands of `cli.py`)

`coach` reuses the report of the latest dev run or pays for one; `--from-test-failure`
pays for a diagnosis of a held-out question and then quarantines it; `apply` (and a
console card) checks the fingerprint, writes files one proposal at a time and stamps
the report once at the end. People edit the files or put them back with git between any
two steps.

A file is a sequence of blocks that remember which proposal they came from. An edit appends its
block, inserts it after an anchor or puts it in the anchor's place; the anchor is any block, a
hand-written one or one an earlier proposal wrote, that is in the text exactly once, because the
code looks for a text and not for its author. So one proposal may take out what another one,
stamped as applied, has written, and no hand is needed for that: `replaced` is the history of
such blocks. Validation (`Validated`) looks the target up by name in a listing of files: `Listed`
are the files that are in it, and a draft's `exact` says whether it spells its target as the listing does. What is
not found is taken to be empty, whatever is in the file, and gets the empty fingerprint, which
switches the drift check off. `AppliedOnce` is therefore about edits whose fingerprint is on record.

### AskPipeline (`runtime:pipeline.py`, `runtime:selection.py`, `runtime:db/*`)

One `ask()` from selection to result. A generated statement is reduced to what the four
filters behind one another make of it: the guard's parser, the guard's verdict, `EXPLAIN`,
the database. `Shortlist` (a paid selection) may name any set of tables, invented ones
included; `Generate` may return something that does not parse, which is a failed attempt
as much as a rejected statement (`Retry`); `Validate` and `Execute` both go through the
read-only guard; `Raise` is a model call, or a driver, that raises out of `ask()`. The usage
counters and the trace are state; `billed` and `executed` are histories they are
compared with. Generation's usage is added before the span is written and nothing
can happen between the two, so both are one step. The schema has at least one table and
`max_tables`, which the code does not validate, is not negative.

### SemanticsFile, ProjectInit (`init.py` and the files it writes)

`SemanticsFile` is one `semantics/*.yaml` with the pure functions over it: drafting and adding
columns (`introspect`), refreshing statistics (`profile`, with the columns and tables somebody
opted out), and what the annotator fills in of a draft it is sure about. `ProjectInit` is the
command around them: the free pass file by file, the plan (`tables_needing_annotation`,
`_baseline_is_current`), the annotation wave with its workers reading, calling and writing
(composed with `BudgetedFanout` for admission and budget), settling table by table, synthesis into queue
and golden set, the baseline eval, the Coach; and `introspect`, `profile` and `annotate` as
commands of their own. People write descriptions, opt columns out and edit other files at any
step, the database gets data and columns, any command may be killed at any step, and a paid
call may raise. `marks`, `earned`, `touched`, `billed` and `wasted` are histories. An edit is held
against the code only if no command had the old text in its hands: a worker that has read a
file merges into what it read, which is a known window and not hidden.

### Scoring (`eval/scorers.py`, `eval/comparator.py`, `eval/judges.py`)

`score_question` and `adjudicate` on one question. Both statements run or fail; `exact` compares
rows as multisets; `columns_superset` is the search of `_compare_superset` with one action for a frame
that goes down (`Assign`), a leaf that is tried (`Try`), a frame that returns (`Backtrack`) and
the outermost one that gives up (`Exhausted`). `Reproduced` is the definition the search is held
against: some injection of gold columns into generated ones makes the rows equal. Cells
are compared by what `_canon_cell` makes of them, a function in the constants; NaN and infinity have
no value. Then the fold into a verdict and the panel of judges.

### Evaluation (`project.py`, `eval/runner.py`, `release.py`, `runtime:runtime.py`)

Two processes run `sqbyl eval`: load the brain, load the gold assets once more, ask question by
question, stamp the run, meter it row by row, the next trial or save the median. `release create`
reads the semantics, fingerprints, verifies against the latest test run and only then reads the other
files and writes; `load` compares model and schema and warns. Files are edited, the database is
migrated, evals raise and are killed in between. A schema fingerprint is the function it
hashes: the type family of every declared column, a missing one included. The database a release is loaded
against is the one the evals used, before or after its changes.

## Runs

| run | asks | bounds |
|---|---|---|
| `orchestrator` | every interleaving of dispatcher and workers: overshoot, accounting, types | four units on a pool of two, so that the gate is asked again after a skip while an earlier unit still runs; caps 0, 1, 2 and none; one call each |
| `orchestrator_callback` | raising callbacks, retries, no worker outliving its run, refinement, termination | two units, one retry |
| `chat_server` | the session budget under three threads, crashes and failing writes, refinement, no request hangs | three requests, two launches, a question of up to two calls and twice its estimate |
| `optimizer` | the tree and the frontier through keeps, reverts, refusals and failures; money, termination | two questions, one file, two proposals per report, two rounds, one or two trials (two is where the median of the runs and the majority of votes part), a reachable target and, with the default options, one out of reach, `--min-gain` 0 and 1, a budget of four calls |
| `review_console` | the console's four files under overlapping handlers and kills | two handlers, three requests, one kill, one hand edit, two runs |
| `coach_desk` | reports, files, stamps and quarantine under overlapping commands and kills | two clerks, four commands of one proposal each (two drafts, two applies: an edit and another one over it), one kill or one hand edit, one dev run, two files that are both listed |
| `ask_pipeline` | one question: spend against trace and result, the repair conversation, what may run, what selection keeps | three tables in every ranking, caps below, at and above what is chosen, none or one repair, every option and every kind of statement |
| `project_init` | what init skips, overwrites, meters and queues over three commands | two tables of which one gets a column later, a pool of two, a budget of one call or none, one kill, failure, edit or change of the database at any step |
| `scoring` | the comparison against the definition of the match modes, for every pair of results; the panel | up to two gold and three generated columns, up to two rows, two values; a cap of three assignments where up to six are possible; panels of three and two |
| `evaluation` | ledger, headline of a release and warnings of load | two passes of evals in one process or two, one release, one load, one edit, migration, kill or failure at any step |
| `init_budget` | what `--auto --budget` promises (violated) | one table, exact estimates, nothing fails |
| `scoring_raises` | that two statements that ran are always compared (violated) | as `scoring`, with NaN in a cell |

Three actors with two or three operations each are the smallest setting in which a third
party can act between two steps of a second one; the protocols have no step that
depends on a larger number. One event (a kill, an edit, a change) may fall anywhere, and three
commands after one another are enough to kill one, resume it and ask a third what it skips. Symmetry is declared only in
runs without liveness properties, over sets of interchangeable ids. `review_console` has a state constraint
(`HalvesApart`): the candidate handlers and the row handlers touch different files, so
once there is a run only the second kind is followed. `coach_desk` has one too (`Focus`): mishaps come one at a
time, what is applied comes from a `coach` and not from a held-out report, the fourth command is an apply over what the first three left, and once commands overlap three are followed, and
of them those that touch files, since the records of the others are promised only to commands that wait
for each other. A file that is not listed is met by TLC as one that is spelled differently; the theorems hold for
any `Listed`, as they do for any number of proposals per report. `CHECK_DEADLOCK FALSE` stands where
the system may come to rest: bounded requests used up, a command that has ended.

Some promises have no run of their own because they are proved for every instance
(the pool bound, priming before the wave, skips as a tail, the hard stop of the chat session, the
optimizer's stop reason) or follow from a refinement that is run.

Fairness: the orchestrator's dispatcher and workers, a chat handler thread and the
optimizer's single thread are scheduled by the interpreter, and a model call or an eval
returns or raises because the clients have request timeouts; so weak fairness of each
thread's next step is assumed. Scoring a question is one synchronous call, whose next step is taken. Nobody is assumed to
send requests, to restart a server or to stop one. ReviewConsole, CoachDesk, AskPipeline, ProjectInit
and Evaluation state only safety.

## What the violation runs show

- `init_budget`: the gate before the Coach reads the meter of init, and the baseline eval meters
  itself; with `--budget 3`, exact estimates and one table a headless run is billed four calls. The
  help text says the headless path hard-stops at the cap.
- `scoring_raises`: a NaN or an infinity in a result raises in `_canon_cell`, outside the guards of
  `score_result_correctness`, and takes the whole eval with it, the answers already paid for
  included. The docstring says the scorers always run.

Also met while modelling, without a run. Chat: a question that raises after its first billed call
leaves no row in `usage.db`, though each call is said to be metered; nor does one whose row is refused, though the meter
has counted it. Optimizer: reverting an edit
rewrites a CRLF file with LF, though it is said to be byte for byte; `--target 90` passes the command line, is refused by
the result's own validation after the whole paid loop, and the frontier is not returned; with an even
`--trials` the recorded run is the upper median, of two the better one; `--min-gain 0` keeps versions that gain
nothing although a frontier point "strictly improved". Console: a question added by hand while an
accept is between its read and its write of `dev.yaml` is dropped; `resolve` names no run, so a stale
page rules on the newest. Coach: the fingerprint is taken after the paid call, not of the text the Coach
saw, so an edit made during the call is not noticed as drift; a target that is not listed, or spelled
in another way, gets the empty fingerprint and no drift check; a proposal whose text a later one replaced stays stamped as
applied; `coach` pays again for a run when a held-out
report is the newest one; two held-out reports saved in the same second share a file name; a broken
quarantine file reads as an empty one. Pipeline: `ask()` "always writes" a run span, but not when a call raises; a result
whose last attempt did not parse pairs an earlier statement with the last error; the cap on a paid
shortlist drops tables in schema order, not in the model's. Orchestrator: priming units are run without asking the
budget; a succeeded event's `spent_usd` does not count its own unit yet. Chat gate: its estimate
covers one generation call although a question may make several. Release: instructions, examples and
assets are read again after the fingerprint was verified, so an edit in that window ships under
the score of the text before it (`touched` marks those releases). Init: what a person writes into a file a worker has already
read is lost when the worker writes.

## Proofs

`OrchestratorProofs`, `ChatServerProofs`, `OptimizerProofs`, `AskPipelineProofs`, `EvaluationProofs`
(of Evaluation and of Scoring), `CoachDeskProofs`, `ReviewConsoleProofs` and `ProjectInitProofs` prove for
every value of the constants what the runs check on small ones: each invariant and each
action property of a passing run is a theorem. The assumptions are the constants' own
(`OrchestratorAssumption` and its like): positive pool width and price bounds, finite sets where
a cardinality is taken (clerks, rows, evals), at least one table, natural caps and repairs, results
whose rows are as wide as the result, and an `Unsafe` path that is none of the files. Bounds on requests,
kills, edits and runs are arbitrary naturals.

Some facts about numbers come back in several of these modules, stated where they are used: in a finite
strict total order at most n elements have fewer than n predecessors (`AtMost`) and one has exactly k
(`EveryRank`), bounded numbers have a greatest (`Greatest`), and a sum over a finite set
is the number of cells under its bars (`Total`). The last stands in for induction, which the prover
cannot instantiate: taking an element out of the set takes its bar away (`TotalSplits`, a fact about
cardinalities), and a function that splits in the same way has the same value everywhere, because a
smallest set on which the two differ cannot be (`SumIsTotal`). The folds of the community modules are
such functions.

Orchestrator. The inductive invariant joins the type invariant with: which program points
go with which phase; the sets `todo`, `inFlight` and `batch` are disjoint and cover
exactly the units without an outcome; a unit with an outcome has a finished worker and
its recorded usage is what it burned; `spent` is bounded through the number of settled
units. The bounds alone are not inductive: `OvershootWithinOneWave` needs to know that what
has not been charged is in flight and that there are fewer than `Concurrency` of those when
the gate opens. From it follow type correctness, the pool bound, priming before the wave,
the overshoot bound, skips only over budget, skips as a tail, no orphan workers, never a
hard stop, and the action property that outcomes are final. `ResultReconciles` needs one conjunct
more (`SumInv`): while a run is under way `spent` is the sum over all units of what is on record
for them, so that each new outcome moves both sides by the same amount (`OneMoreBilled`).
`FanoutImplemented` shows the refinement of `BudgetedFanout`: each step of dispatcher and workers maps
to an admission, a skip, a settlement, the begin or an end of a batch, or a stutter. The order
of admission rests on `todo` being taken from the front, and the budget guard of the contract on the same
`spent` the code reads.

Chat server. The inductive invariant says that only the lock's holder is between check and
row, that its usage is bounded by its calls, that meter and ledger differ by what could not be
written and, exactly while it stands between the two, by its usage, and that the ledger never holds more than was
billed. From it follow type correctness, one
question at a time, the overshoot bound, the reconciliation, the hard stop, and that
`ChatServer` implements `SessionBudget` (safety part, step by step).

Optimizer. Every safety property of the run is proved; only that the command ends stays with
TLC. The invariant adds that the snapshot on trial is what the picked version says of its
file (`UndoInv`, without which a revert could put back anything), that inside a round the best
version misses the target and one version was kept per round (`RoundInv`), and that what is
left of a batch of trials still fits the budget (`PriceInv`: `LoopStaysInBudget` alone says
nothing of the next trial). That the frontier climbs rests on `KeptGains`: the votes for an
edit and the runs up to its median are together more than all of its trials, so that they have
one in common (`FS_MajoritiesIntersect`), and it gains enough and no more than the median.
That there is a median, with exactly half of the trials before it, is `EveryRank`: in a finite
strict total order the ranks are an injection between sets of one size, hence onto.

AskPipeline. Every property of the run is proved: for any number of tables, any scores, any cap
and any number of repairs. The invariant says where the question stands in the loop (the
errors so far are the generations billed, less the one at work), that until it returns every
span is a billed call's and the usage is complete unless a raised call took its own away,
what the statement at work has passed so far, that nothing run before had an answer, and that the
conversation alternates and answers each error also while a statement is at work: without the
last two the next repair could break `OnlyValidatedSqlRuns` or `PromptIsSound`. That
`max_tables` holds is a lemma about ranks (`AtMost`: in a finite strict total order at most n elements
have fewer than n predecessors, as their ranks are an injection into 0..n-1), and that the
lexical selection is the best of the ranking follows because ties go by the schema's order
(`Ranking`, `TopIsFirst`).

Scoring. `ScoreIsSound`: for any two results, either match mode and any cap, the search of
`_compare_superset` says yes only of a match and no only if there is none or the cap was reached. The
invariant orders the assignments as the search does: every one that is lexicographically behind its current
position (`Behind`) is known not to hold. A step can break that only by skipping one, and
it skips a column only if another gold column has it, which no injection allows, or if its values
are not those of the gold column, which no match allows (`MatchesAreCandidates`, a bijection of rows restricts to
one of each column). The frames themselves (`ScoringTypeCorrect`) need that no complete path is left
untried beyond the cap. What the early returns turn down has no match either: the pigeonhole
principle for too few columns, the length of the rows, an empty candidate set.

Evaluation. `HeadlineIsEarned` and `WarningsHold`. The invariant says of every eval under way
that its answers are the work of the brain it loaded, and of the schema as it is if the database
has stood still during the pass (`JobSound`); of every saved run that its answers are of its one
brain and, undisturbed, of its one schema (`SoundRun`); and of the draft of a release that, unless
files changed under it, what it has read is what is on disk, and the run it holds is of that brain
(`DraftInv`). The last is what the headline rests on: the gate compares with a fingerprint, and
the files come later. That a median pass is one of the passes is `EveryRank`, that the latest
test run exists is `Greatest`; without a witness a CHOOSE could be anything.

`TheBooksBalance` has an invariant of its own (`BooksInv`). That the bill is ledger plus losses plus what
evals still owe says nothing of the ledger row of any one run; so every pass an eval holds is in the ledger
with its cost less the rows it has not written yet (`BookedJob`), no two evals share a run id
(`ApartInv`: ids come from one clock), and none of them is a saved run's, so that metering one pass leaves
every other row alone. Each action then moves at most one bar of each of the two sums
(`TheBooksMove`).

CoachDesk. The invariant knows what every command holds at each of its steps (`Holds`) and that report
numbers and blocks are handed out once (`NumbersInv`, `ClockInv`, `BlocksInv`). `EditsLandOnce` is about commands that
do overlap: `AppliedOnce` alone is not inductive, since a clerk may be about to write a text that has the
block twice. `OnceInv` adds those texts, and with them the argument: a proposal remembers the text it was made for, that
text has not its block in it, so whoever applies it again finds a different text. The other two
hold until commands overlap and rest on there being one at work (`AloneInv`).

`TheRecordsHold` has three parts. That what is stamped was written and is there, unless a hand or another
proposal's edit took it away, is `StampsInv`, which ties what is about to be written to the file as it
is: an edit takes out no block but its anchor, and its anchor is then in `replaced` (`Edit`). That what is in
a file without a stamp is being stamped goes the other way round, from the file to the report, and
needs to know whose a block is: blocks say which report and which proposal in it they belong to
(`NamesInv`), so that two proposals never share one; what a command applying a report has in memory is
the report on disk with some more stamps (`CopiesInv`); and what has just been drafted is in no file
(`FreshInv`). With these `StampingInv` says that an unstamped block in a file, or in the text about to be
written over it, is stamped in the copy of the command at work, which saves it at its end; a kill in between is why that
part asks for none. The third part, `QuarantineInv`, counts the diagnosed questions
nobody will record any more against the commands that were killed. In `CoachedOnce`, `PaidInv` says where a call that has been paid
for went: into an older run, the latest report, or the hands of the command that drafts it.

ReviewConsole. `Holds` says what a handler has read and looked up at each step; in particular a copy of the golden
set that is about to be written back differs from the file only in questions that ran or
were typed by hand (`DraftInv`), whatever happened in between. That is what `DevOnlyGrows` needs
with overlapping requests. Until they overlap a copy is the file (`AlignedInv`), ids are distinct, and an accept that has
come to the queue has its question in the golden set already (`FreshInv`). `TrailIsTrue` bounds a number of rows,
and a kill may come between save and log; `LeftBehind` therefore counts the rows without their ruling that no
handler is about to log, and only a kill can add one.

ProjectInit. The invariant has a part for each kind of thing the command carries from one step to
a later one. What people wrote is also in every text that is held in memory (`MarksInv`):
without that the next write could undo it. `HoldInv` and `LeftInv` say who holds a text when, and
`PlanInv` that the tables of the plan are all different, so that two workers of the wave never write one file. A
stamp is only as good as what lies before it: a file of the wave between its write and its stamp is one the
annotator wrote (`EarnedInv`), and while the eval runs the copy the baseline will be stamped with is what is on disk
(`BaselineInv`). The stamp's schema, though, is the one read before the eval, and the run's is the database's
while it ran; that a skip is still earned follows because columns are only added, so the run lies between the
schema of the stamp and that of the database, and a later init that finds the stamp's schema again finds the
run's. `MoneyInv` counts what is billed and not metered yet (`Owed`: the units of the wave that are done,
those not settled, the call at hand) as the cells under their bars, so that a worker that finishes and a
table that is settled each move one bar. A synthesis takes the least free ids, as many as
it has drafts; that there are so many is counting (`EveryRank`), and with it no id is in the queue. `Needing`
is the increasing sequence of the tables that need a description, chosen as such: that there is exactly one is
the same count.

Only model-checked: liveness, since the prover has neither fairness nor ENABLED: that a fan-out whose
callback may fail comes to its end (`RunEnds`), that questions are answered (`RequestsEnd`), that the
optimizer stops (`CommandEnds`) and that scoring does (`ScoringEnds`).
No module declares a RECURSIVE operator.

## What is not modelled

Text: prompts, SQL, YAML layout, messages, HTTP framing. Torn writes (`write_text` is
taken to be atomic, as is one read). The clock, but for the order of creation
times and the value of `--as-of`. Model and database services, which answer or fail; the SDK
client, created lazily under the threads of a pool, is theirs. Importers, file formats,
reports, estimate tables and the ranking of the attention queue are pure functions without state, and nothing above depends on
what they compute. What a command only prints (run diffs, the dev-test gap, the selection
report) is left out, and so are the gates that refuse a whole command before it starts. In Optimizer
files have one writer; in ProjectInit one command runs at a time.

## Plan

Done: Orchestrator, BudgetedFanout, their proofs and the refinement; ChatServer, SessionBudget and their
proofs; Optimizer, ReviewConsole, CoachDesk and AskPipeline, each with its proofs; SemanticsFile, ProjectInit
and their proofs; Scoring, Evaluation with release and load, and their proofs. Left, in this order:

1. The pure functions of `attention.py` and `compare.py` (readiness, run diff) against reference
   definitions.
2. Two `init` commands at a time, and an eval beside the optimizer.
