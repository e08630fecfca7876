---------------------------- MODULE ReviewConsole ----------------------------
(***************************************************************************)
(* The review console (sqbyl/console/app.py): a reviewer accepts, edits or *)
(* rejects synthesized candidates and rules on judged rows of an eval run. *)
(* FastAPI runs the handlers on a thread pool and no handler takes a lock; *)
(* the page sends a request for every key press and never waits for the    *)
(* one before.  All state is in files that a handler reads whole, changes  *)
(* and writes back whole:                                                  *)
(*   .sqbyl/candidates.yaml   the queue, also written by synth and import  *)
(*   benchmarks/dev.yaml      the golden dev set, append_to_dev_set        *)
(*   .sqbyl/runs/*.json       scored runs, written by eval and the console *)
(*   .sqbyl/calibration.jsonl the rulings, opened for append               *)
(*                                                                         *)
(* Reads and writes of one file are steps of their own; one read or one    *)
(* write is atomic.  A question is its id and its gold SQL; evidence,      *)
(* difficulty, notes and the handlers that only read are left out.  Coach  *)
(* cards are in module CoachDesk.                                          *)
(***************************************************************************)
EXTENDS Naturals, FiniteSets, Sequences, SequencesExt

CONSTANTS
  Handlers,     \* pool threads; a synth or import command takes one as well
  Ids,          \* question ids
  Sqls,         \* gold SQL
  Rows,         \* questions of a scored run
  Verdicts,     \* what a human may assign
  NoVerdict,    \* no human call, or no judge suggestion
  Missing,      \* an id that is not in the queue
  Keep,         \* accept without an edit
  MaxRequests,  \* bound: requests and commands
  MaxKills,     \* bound: of them that are killed or raise
  MaxRuns,      \* bound: dev evals
  MaxHands      \* bound: questions added to dev.yaml by hand

Candidate == [sql : Sqls, status : {"pending", "accepted", "rejected"}]
Question  == [id : Ids, sql : Sqls]
Run       == [judge : [Rows -> Verdicts \cup {NoVerdict}],
              human : [Rows -> Verdicts \cup {NoVerdict}]]
Ruling    == [run : 1..MaxRuns, row : Rows, judge : Verdicts, human : Verdicts]

ASSUME ReviewConsoleAssumption ==
  /\ IsFiniteSet(Rows)
  /\ {"correct", "incorrect", "manual_review"} \cap Verdicts # {}
  /\ "manual_review" \in Verdicts
  /\ NoVerdict \notin Verdicts
  /\ Missing \notin Candidate
  /\ Keep \notin Sqls
  /\ {MaxRequests, MaxKills, MaxRuns, MaxHands} \subseteq Nat

VARIABLES
  queue,        \* candidates.yaml
  dev,          \* dev.yaml, in file order
  runs,         \* the dev runs, oldest first
  calibration,  \* calibration.jsonl
  pc,           \* where each handler stands
  req,          \* what it was asked
  cand,         \* the candidate it works on
  copy,         \* what it read of the file it is about to write
  requests,     \* requests so far
  kills,        \* handlers that did not finish
  ran,          \* history: questions whose gold SQL was executed on accept
  byHand,       \* history: questions added by hand
  overlapped    \* history: two handlers, or a handler and an editor, were at work at once

files == <<queue, dev, runs, calibration>>
local == <<pc, req, cand, copy>>
vars  == <<files, local, requests, kills, ran, byHand, overlapped>>

Steps == {"idle", "looking", "grounding", "checking", "reading", "appending",
          "queueing", "marking", "scoring", "saving", "logging"}

Requests ==
       [kind : {"accept"}, id : Ids, sql : Sqls \cup {Keep}]
  \cup [kind : {"reject"}, id : Ids]
  \cup [kind : {"add"}, id : Ids, sql : Sqls]
  \cup [kind : {"resolve"}, row : Rows, verdict : Verdicts]
  \cup [kind : {"judge"}, run : DOMAIN runs, row : Rows]

Latest == Len(runs)

TypeOK ==
  /\ queue \in [Ids -> Candidate \cup {Missing}]
  /\ dev \in Seq(Question)
  /\ runs \in Seq(Run) /\ Len(runs) <= MaxRuns
  /\ calibration \in Seq(Ruling)
  /\ pc \in [Handlers -> Steps]
  /\ \A h \in Handlers : pc[h] # "idle" => req[h] \in Requests
  /\ \A h \in Handlers :
       pc[h] \in {"grounding", "checking", "reading", "appending", "marking"}
         => cand[h] \in Candidate
  /\ requests \in 0..MaxRequests /\ kills \in 0..MaxKills
  /\ ran \subseteq Question /\ byHand \subseteq Question
  /\ overlapped \in BOOLEAN

Busy(h) == pc[h] # "idle"

Goto(h, step) == pc' = [pc EXCEPT ![h] = step]

-----------------------------------------------------------------------------
(* Requests                                                                *)

\* The review page opens on a project with a queue, perhaps a hand-written dev set,
\* and perhaps a dev run.
Init ==
  /\ queue \in [Ids -> [sql : Sqls, status : {"pending"}] \cup {Missing}]
  /\ dev \in {<< >>} \cup {<<q>> : q \in Question}
  /\ runs = << >> /\ calibration = << >>
  /\ pc = [h \in Handlers |-> "idle"]
  /\ req = [h \in Handlers |-> << >>]
  /\ cand = [h \in Handlers |-> << >>]
  /\ copy = [h \in Handlers |-> << >>]
  /\ requests = 0 /\ kills = 0
  /\ ran = {} /\ byHand = {}
  /\ overlapped = FALSE

FirstStep(r) ==
  CASE r.kind \in {"accept", "reject"} -> "looking"
    [] r.kind = "add"                  -> "queueing"
    [] r.kind \in {"resolve", "judge"} -> "scoring"

Arrive(h) ==
  /\ ~Busy(h)
  /\ requests < MaxRequests
  /\ requests' = requests + 1
  /\ \E r \in Requests :
       /\ req' = [req EXCEPT ![h] = r]
       /\ Goto(h, FirstStep(r))
       /\ cand' = [cand EXCEPT ![h] =
            IF r.kind = "add" THEN [sql |-> r.sql, status |-> "pending"] ELSE << >>]
  /\ overlapped' = (overlapped \/ \E g \in Handlers : Busy(g))
  /\ UNCHANGED <<files, copy, kills, ran, byHand>>

\* The locals of a handler that has replied are gone.
Reply(h) ==
  /\ Goto(h, "idle")
  /\ req'  = [req EXCEPT ![h] = << >>]
  /\ cand' = [cand EXCEPT ![h] = << >>]
  /\ copy' = [copy EXCEPT ![h] = << >>]

unchangedByHandler == <<requests, kills, byHand, overlapped>>

-----------------------------------------------------------------------------
(* Candidates: accept, reject, and the commands that add to the queue      *)

\* _apply_edit
Edited(r, c) == IF r.sql = Keep THEN c ELSE [c EXCEPT !.sql = r.sql]

FaultyLook(h) ==
  /\ pc[h] = "looking"
  /\ cand' = [cand EXCEPT ![h] = queue[req[h].id]]
  /\ Goto(h, IF req[h].kind = "accept" THEN "grounding" ELSE "queueing")
  /\ UNCHANGED <<files, req, copy, ran, unchangedByHandler>>

\* _require: the candidate of that id, or 404.
Look(h) ==
  /\ pc[h] = "looking"
  /\ LET c == queue[req[h].id]
     IN IF c = Missing
        THEN Reply(h)
        ELSE /\ cand' = [cand EXCEPT ![h] =
                  IF req[h].kind = "accept" THEN Edited(req[h], c)
                  ELSE [c EXCEPT !.status = "rejected"]]
             /\ Goto(h, IF req[h].kind = "accept" THEN "grounding" ELSE "queueing")
             /\ UNCHANGED <<req, copy>>
  /\ UNCHANGED <<files, ran, unchangedByHandler>>

FaultyGround(h) ==
  /\ pc[h] = "grounding"
  /\ ran' = ran \cup
       {[id |-> req[h].id,
         sql |-> IF queue[req[h].id] = Missing THEN cand[h].sql ELSE queue[req[h].id].sql]}
  /\ Goto(h, "checking")
  /\ UNCHANGED <<files, req, cand, copy, unchangedByHandler>>

\* _reground_sql: the edited SQL runs and returns a real answer, or the handler
\* replies with the reason and nothing is written.
Ground(h) ==
  /\ pc[h] = "grounding"
  /\ \/ /\ ran' = ran \cup {[id |-> req[h].id, sql |-> cand[h].sql]}
        /\ Goto(h, "checking")
        /\ UNCHANGED <<req, cand, copy>>
     \/ /\ Reply(h)
        /\ UNCHANGED ran
  /\ UNCHANGED <<files, unchangedByHandler>>

IdsOf(questions) == {questions[i].id : i \in DOMAIN questions}

FaultyCheckIds(h) ==
  /\ pc[h] = "checking"
  /\ Goto(h, "reading")
  /\ UNCHANGED <<files, req, cand, copy, ran, unchangedByHandler>>

\* append_to_dev_set reads the ids; one that is there already is not added again.
CheckIds(h) ==
  /\ pc[h] = "checking"
  /\ Goto(h, IF req[h].id \in IdsOf(dev) THEN "queueing" ELSE "reading")
  /\ UNCHANGED <<files, req, cand, copy, ran, unchangedByHandler>>

\* It reads the file a second time, for its text,
ReadDev(h) ==
  /\ pc[h] = "reading"
  /\ copy' = [copy EXCEPT ![h] = dev]
  /\ Goto(h, "appending")
  /\ UNCHANGED <<files, req, cand, ran, unchangedByHandler>>

\* and writes that text back with the question behind it.
AppendDev(h) ==
  /\ pc[h] = "appending"
  /\ dev' = Append(copy[h], [id |-> req[h].id, sql |-> cand[h].sql])
  /\ Goto(h, "queueing")
  /\ UNCHANGED <<queue, runs, calibration, req, cand, copy, ran, unchangedByHandler>>

\* update_candidate and add_candidates load the queue
LoadQueue(h) ==
  /\ pc[h] = "queueing"
  /\ copy' = [copy EXCEPT ![h] = queue]
  /\ cand' = [cand EXCEPT ![h] =
       IF req[h].kind = "accept" THEN [cand[h] EXCEPT !.status = "accepted"] ELSE cand[h]]
  /\ Goto(h, "marking")
  /\ UNCHANGED <<files, req, ran, unchangedByHandler>>

\* and save it with the one entry replaced; only add_candidates also adds one.
SaveQueue(h) ==
  /\ pc[h] = "marking"
  /\ queue' = IF req[h].kind # "add" /\ copy[h][req[h].id] = Missing
              THEN copy[h]
              ELSE [copy[h] EXCEPT ![req[h].id] = cand[h]]
  /\ Reply(h)
  /\ UNCHANGED <<dev, runs, calibration, ran, unchangedByHandler>>

-----------------------------------------------------------------------------
(* Judged rows                                                             *)

\* `sqbyl eval dev' saves a new run: what the judge suggests, and no human call.
NewRun ==
  /\ Latest < MaxRuns
  /\ \E judge \in [Rows -> Verdicts \cup {NoVerdict}] :
       runs' = Append(runs, [judge |-> judge, human |-> [r \in Rows |-> NoVerdict]])
  /\ UNCHANGED <<queue, dev, calibration, local, ran, unchangedByHandler>>

\* What the reviewer decided: the verdict sent, or the judge's suggestion confirmed.
VerdictOf(r, run) ==
  IF r.kind = "resolve" THEN r.verdict
  ELSE IF run.judge[r.row] # NoVerdict THEN run.judge[r.row] ELSE "manual_review"

\* The run id in a judge card's id is not that of the latest run: 404.
CardIsStale(r) == r.kind = "judge" /\ r.run # Latest

\* latest_run; without a run the handler answers 404.
LoadRun(h) ==
  /\ pc[h] = "scoring"
  /\ IF Latest = 0 \/ CardIsStale(req[h])
     THEN Reply(h)
     ELSE /\ copy' = [copy EXCEPT ![h] = [n |-> Latest, run |-> runs[Latest]]]
          /\ Goto(h, "saving")
          /\ UNCHANGED <<req, cand>>
  /\ UNCHANGED <<files, ran, unchangedByHandler>>

\* _record_resolution: the human's call is written into the run,
SaveRun(h) ==
  /\ pc[h] = "saving"
  /\ LET n == copy[h].n  run == copy[h].run  row == req[h].row
     IN /\ runs' = [runs EXCEPT ![n] =
                      [run EXCEPT !.human[row] = VerdictOf(req[h], run)]]
        /\ IF run.judge[row] # NoVerdict
           THEN Goto(h, "logging") /\ UNCHANGED <<req, cand, copy>>
           ELSE Reply(h)
  /\ UNCHANGED <<queue, dev, calibration, ran, unchangedByHandler>>

FaultyLogRuling(h) ==
  /\ pc[h] = "logging"
  /\ LET run == copy[h].run  row == req[h].row
     IN calibration' =
          Append(calibration, [run |-> Latest, row |-> row,
                               judge |-> run.judge[row],
                               human |-> VerdictOf(req[h], run)])
  /\ Reply(h)
  /\ UNCHANGED <<queue, dev, runs, ran, unchangedByHandler>>

\* and, when the judge had a suggestion, appended to the calibration trail.
LogRuling(h) ==
  /\ pc[h] = "logging"
  /\ LET run == copy[h].run  row == req[h].row
     IN calibration' =
          Append(calibration, [run |-> copy[h].n, row |-> row,
                               judge |-> run.judge[row],
                               human |-> VerdictOf(req[h], run)])
  /\ Reply(h)
  /\ UNCHANGED <<queue, dev, runs, ran, unchangedByHandler>>

\* Somebody adds a question to dev.yaml in an editor.
HandAdd ==
  /\ Cardinality(byHand) < MaxHands
  /\ \E q \in Question :
       /\ q.id \notin IdsOf(dev)
       /\ dev' = Append(dev, q)
       /\ byHand' = byHand \cup {q}
  /\ overlapped' = (overlapped \/ \E h \in Handlers : Busy(h))
  /\ UNCHANGED <<queue, runs, calibration, local, requests, kills, ran>>

\* The process is killed, or a read or a write raises: what was written stays.
Kill(h) ==
  /\ Busy(h)
  /\ kills < MaxKills
  /\ kills' = kills + 1
  /\ Reply(h)
  /\ UNCHANGED <<files, requests, ran, byHand, overlapped>>

Handle(h) ==
  \/ Arrive(h) \/ Look(h) \/ Ground(h) \/ CheckIds(h) \/ ReadDev(h) \/ AppendDev(h)
  \/ LoadQueue(h) \/ SaveQueue(h) \/ LoadRun(h) \/ SaveRun(h) \/ LogRuling(h) \/ Kill(h)

Next == NewRun \/ HandAdd \/ \E h \in Handlers : Handle(h)

Spec == Init /\ [][Next]_vars

-----------------------------------------------------------------------------
(* Properties                                                              *)

\* As long as the reviewer waits for each reply, a candidate marked accepted is in
\* dev.yaml exactly once, wherever a handler stopped and however often it is
\* accepted again: the golden file is written before the queue.
AcceptedIsGolden ==
  ~overlapped =>
    \A id \in Ids :
      /\ queue[id] # Missing /\ queue[id].status = "accepted" => id \in IdsOf(dev)
      /\ \A i, j \in DOMAIN dev : dev[i].id = id /\ dev[j].id = id => i = j

\* Nothing enters dev.yaml whose gold SQL, as edited, was not executed first; and
\* without overlapping requests no step removes or reorders what is in it.
DevGrowsByWhatRan ==
  [][ /\ \A q \in Question : Contains(dev', q) => Contains(dev, q) \/ q \in ran \cup byHand'
      /\ ~overlapped' => IsPrefix(dev, dev') ]_vars

\* _latest_per_row: the ruling that counts for a row, if there is one.
LastRuling(n, row) ==
  LET S == {i \in DOMAIN calibration :
              calibration[i].run = n /\ calibration[i].row = row}
  IN IF S = {} THEN NoVerdict
     ELSE calibration[CHOOSE i \in S : \A j \in S : j <= i].human

\* However requests and evals interleave, a ruling is logged against the run it was made
\* on, with what the judge suggested there; and as long as the reviewer waits for each
\* reply, the ruling that counts is the verdict shown in the run, for every row the judge
\* triaged: each handler that was stopped leaves at most one row behind, and one may be
\* about to be logged.
TrailIsTrue ==
  /\ \A i \in DOMAIN calibration :
       LET x == calibration[i]
       IN x.run \in DOMAIN runs /\ runs[x.run].judge[x.row] = x.judge
  /\ ~overlapped =>
       Cardinality({x \in (DOMAIN runs) \X Rows :
                      /\ runs[x[1]].judge[x[2]] # NoVerdict
                      /\ runs[x[1]].human[x[2]] # LastRuling(x[1], x[2])})
         <= kills + Cardinality({h \in Handlers : pc[h] = "logging"})
=============================================================================
