------------------------- MODULE ReviewConsoleProofs -------------------------
(***************************************************************************)
(* Proofs about ReviewConsole: what the console keeps of the golden set,   *)
(* the queue and the calibration trail, for any number of handlers, ids,   *)
(* rows, requests and evals, whatever is killed and, where the property    *)
(* says so, however requests overlap.                                      *)
(***************************************************************************)
EXTENDS ReviewConsole, Integers, FiniteSetTheorems, SequenceTheorems, WellFoundedInduction,
  TLAPS

-----------------------------------------------------------------------------
(* The invariant                                                           *)

\* The types of the variables, and that the locals are kept per handler.
WorldInv ==
  /\ queue \in [Ids -> Candidate \cup {Missing}]
  /\ dev \in Seq(Question)
  /\ runs \in Seq(Run) /\ Len(runs) <= MaxRuns
  /\ calibration \in Seq(Ruling)
  /\ pc \in [Handlers -> Steps]
  /\ req = [h \in Handlers |-> req[h]]
  /\ cand = [h \in Handlers |-> cand[h]]
  /\ copy = [h \in Handlers |-> copy[h]]
  /\ requests \in 0..MaxRequests /\ kills \in 0..MaxKills
  /\ ran \subseteq Question /\ byHand \subseteq Question
  /\ overlapped \in BOOLEAN

\* The steps each kind of request goes through.
StepOf(step, kind) ==
  \/ step = "looking" /\ kind \in {"accept", "reject"}
  \/ step \in {"grounding", "checking", "reading", "appending"} /\ kind = "accept"
  \/ step \in {"queueing", "marking"} /\ kind \in {"accept", "reject", "add"}
  \/ step \in {"scoring", "saving", "logging"} /\ kind \in {"resolve", "judge"}

WithCandidate ==
  {"grounding", "checking", "reading", "appending", "queueing", "marking"}

\* A handler at work has a request of the kind its step belongs to, and a candidate
\* from the moment it found one until it replies.
AskedInv(h) ==
  pc[h] # "idle" =>
    /\ req[h] \in Requests
    /\ StepOf(pc[h], req[h].kind)
    /\ pc[h] \in WithCandidate => cand[h] \in Candidate

\* The question an accept is about to append was executed, as edited.
RanInv(h) ==
  pc[h] \in {"checking", "reading", "appending"} =>
    [id |-> req[h].id, sql |-> cand[h].sql] \in ran

\* Only an accept writes the status accepted into the queue.
StatusInv(h) ==
  /\ pc[h] \in {"queueing", "marking"} /\ req[h].kind # "accept"
       => cand[h].status # "accepted"
  /\ pc[h] = "marking" => copy[h] \in [Ids -> Candidate \cup {Missing}]

\* The text of dev.yaml an accept writes back differs from the file only in questions
\* that were executed or written by hand.
DraftInv(h) ==
  pc[h] = "appending" =>
    /\ copy[h] \in Seq(Question)
    /\ \A q \in Question \ (ran \cup byHand) : Contains(copy[h], q) <=> Contains(dev, q)

\* A run a handler has read is of the project, with the judge's column as it still is.
JudgedInv(h) ==
  pc[h] \in {"saving", "logging"} =>
    /\ copy[h] = [n |-> copy[h].n, run |-> copy[h].run]
    /\ copy[h].n \in DOMAIN runs
    /\ copy[h].run \in Run
    /\ copy[h].run.judge = runs[copy[h].n].judge
    /\ pc[h] = "logging" => copy[h].run.judge[req[h].row] # NoVerdict

Holds(h) ==
  AskedInv(h) /\ RanInv(h) /\ StatusInv(h) /\ DraftInv(h) /\ JudgedInv(h)

\* Every ruling is of a run of the project, with what its judge suggested.
TrailInv ==
  \A i \in DOMAIN calibration :
    /\ calibration[i].run \in DOMAIN runs
    /\ runs[calibration[i].run].judge[calibration[i].row] = calibration[i].judge

\* Until requests overlap one handler is at work.
AloneInv == ~overlapped => \A g, h \in Handlers : Busy(g) /\ Busy(h) => g = h

\* Until requests overlap a golden question is there once, an accepted one is golden,
\* and what a handler has read is what the files hold.
DistinctInv ==
  ~overlapped => \A i, j \in DOMAIN dev : dev[i].id = dev[j].id => i = j

GoldenInv ==
  ~overlapped =>
    \A id \in Ids : queue[id] # Missing /\ queue[id].status = "accepted" => id \in IdsOf(dev)

FreshInv(h) ==
  /\ pc[h] \in {"reading", "appending"} => req[h].id \notin IdsOf(dev)
  /\ pc[h] = "appending" => copy[h] = dev
  /\ pc[h] \in {"queueing", "marking"} /\ req[h].kind = "accept" => req[h].id \in IdsOf(dev)
  /\ pc[h] = "marking" => copy[h] = queue
  /\ pc[h] = "saving" => copy[h].run = runs[copy[h].n]
  /\ pc[h] = "logging" =>
       runs[copy[h].n].human[req[h].row] = VerdictOf(req[h], copy[h].run)

AlignedInv == ~overlapped => \A h \in Handlers : FreshInv(h)

\* The judged rows whose verdict is not the ruling that counts, and those of them a
\* handler is about to log: the rest are at most as many as the handlers that stopped.
Unlogged ==
  {x \in (DOMAIN runs) \X Rows : /\ runs[x[1]].judge[x[2]] # NoVerdict
                                 /\ runs[x[1]].human[x[2]] # LastRuling(x[1], x[2])}

Logging == {h \in Handlers : pc[h] = "logging"}

Pending == {<<copy[h].n, req[h].row>> : h \in Logging}

LeftBehind == ~overlapped => Cardinality(Unlogged \ Pending) <= kills

Inv ==
  /\ WorldInv
  /\ \A h \in Handlers : Holds(h)
  /\ TrailInv
  /\ AloneInv
  /\ DistinctInv
  /\ GoldenInv
  /\ AlignedInv
  /\ LeftBehind

-----------------------------------------------------------------------------
(* Requests and the locals of a handler                                    *)

\* What a request carries, by its kind.
LEMMA RequestHas ==
  ASSUME NEW r \in Requests
  PROVE  /\ r.kind \in {"accept", "reject", "add", "resolve", "judge"}
         /\ r.kind \in {"accept", "reject", "add"} => r.id \in Ids
         /\ r.kind = "accept" => r.sql \in Sqls \cup {Keep}
         /\ r.kind = "add" => r.sql \in Sqls
         /\ r.kind \in {"resolve", "judge"} => r.row \in Rows
         /\ r.kind = "resolve" => r.verdict \in Verdicts
BY DEF Requests

\* A request stays one as long as no run is lost.
LEMMA RequestsGrow ==
  ASSUME DOMAIN runs \subseteq (DOMAIN runs)'
  PROVE  Requests \subseteq Requests'
BY DEF Requests

\* The verdict a reviewer decides on is a verdict.
LEMMA Decided ==
  ASSUME NEW r \in Requests, r.kind \in {"resolve", "judge"}, NEW run \in Run
  PROVE  VerdictOf(r, run) \in Verdicts
<1>1. r.row \in Rows /\ (r.kind = "resolve" => r.verdict \in Verdicts)
  BY RequestHas
<1>2. run.judge[r.row] \in Verdicts \cup {NoVerdict}
  BY <1>1 DEF Run
<1>3. QED
  BY <1>1, <1>2, ReviewConsoleAssumption DEF VerdictOf

\* An edit replaces the SQL of a candidate and nothing else.
LEMMA EditIsCandidate ==
  ASSUME NEW r \in Requests, r.kind = "accept", NEW c \in Candidate
  PROVE  Edited(r, c) \in Candidate
BY RequestHas DEF Edited, Candidate

\* No step of a handler changes the locals of another.
Others(h) ==
  \A g \in Handlers \ {h} :
    pc'[g] = pc[g] /\ req'[g] = req[g] /\ cand'[g] = cand[g] /\ copy'[g] = copy[g]

LEMMA Frame ==
  ASSUME WorldInv, NEW h \in Handlers, Handle(h)
  PROVE  /\ pc' \in [Handlers -> Steps]
         /\ req' = [g \in Handlers |-> req'[g]]
         /\ cand' = [g \in Handlers |-> cand'[g]]
         /\ copy' = [g \in Handlers |-> copy'[g]]
         /\ Others(h)
<1> USE DEF WorldInv, Others
<1>1. CASE Arrive(h)
  <2>1. PICK r \in Requests :
          /\ req' = [req EXCEPT ![h] = r]
          /\ pc' = [pc EXCEPT ![h] = FirstStep(r)]
          /\ cand' = [cand EXCEPT ![h] =
               IF r.kind = "add" THEN [sql |-> r.sql, status |-> "pending"] ELSE << >>]
          /\ copy' = copy
    BY <1>1 DEF Arrive, Goto
  <2>2. FirstStep(r) \in Steps
    BY RequestHas DEF FirstStep, Steps
  <2>3. QED
    BY <2>1, <2>2
<1>2. CASE Reply(h)
  BY <1>2 DEF Reply, Goto, Steps
<1>3. CASE Look(h) /\ ~Reply(h)
  <2>1. PICK s, c :
          /\ s \in Steps
          /\ pc' = [pc EXCEPT ![h] = s] /\ cand' = [cand EXCEPT ![h] = c]
          /\ UNCHANGED <<req, copy>>
    BY <1>3 DEF Look, Goto, Steps
  <2>2. QED
    BY <2>1
<1>4. CASE Ground(h) /\ ~Reply(h)
  BY <1>4 DEF Ground, Goto, Steps
<1>5. CASE CheckIds(h)
  <2>1. PICK s \in Steps : pc' = [pc EXCEPT ![h] = s] /\ UNCHANGED <<req, cand, copy>>
    BY <1>5 DEF CheckIds, Goto, Steps
  <2>2. QED
    BY <2>1
<1>6. CASE ReadDev(h)
  BY <1>6 DEF ReadDev, Goto, Steps
<1>7. CASE AppendDev(h)
  BY <1>7 DEF AppendDev, Goto, Steps
<1>8. CASE LoadQueue(h)
  <2>1. PICK c : /\ pc' = [pc EXCEPT ![h] = "marking"] /\ cand' = [cand EXCEPT ![h] = c]
                 /\ copy' = [copy EXCEPT ![h] = queue] /\ UNCHANGED req
    BY <1>8 DEF LoadQueue, Goto
  <2>2. QED
    BY <2>1 DEF Steps
<1>9. CASE LoadRun(h) /\ ~Reply(h)
  <2>1. PICK c : /\ pc' = [pc EXCEPT ![h] = "saving"] /\ copy' = [copy EXCEPT ![h] = c]
                 /\ UNCHANGED <<req, cand>>
    BY <1>9 DEF LoadRun, Goto
  <2>2. QED
    BY <2>1 DEF Steps
<1>10. CASE SaveRun(h) /\ ~Reply(h)
  BY <1>10 DEF SaveRun, Goto, Steps
<1>11. QED
  BY <1>1, <1>2, <1>3, <1>4, <1>5, <1>6, <1>7, <1>8, <1>9, <1>10
  DEF Handle, SaveQueue, LogRuling, Kill

\* A handler that replies has no locals left.
LEMMA Replied ==
  ASSUME WorldInv, NEW h \in Handlers, Reply(h)
  PROVE  pc'[h] = "idle"
BY DEF WorldInv, Reply, Goto


-----------------------------------------------------------------------------
(* The world                                                               *)

LEMMA InvInit == Init => Inv
<1> SUFFICES ASSUME Init
             PROVE  Inv
  OBVIOUS
<1> USE DEF Init
<1>1. WorldInv
  <2>1. queue \in [Ids -> Candidate \cup {Missing}]
    BY DEF Candidate
  <2>2. dev \in Seq(Question)
    <3>1. << >> \in Seq(Question) /\ \A q \in Question : <<q>> \in Seq(Question)
      OBVIOUS
    <3>2. QED
      BY <3>1
  <2>8. runs \in Seq(Run) /\ calibration \in Seq(Ruling) /\ Len(runs) = 0
    OBVIOUS
  <2>3. MaxRuns \in Nat /\ MaxRequests \in Nat /\ MaxKills \in Nat
    BY ReviewConsoleAssumption
  <2>4. pc \in [Handlers -> Steps]
    BY DEF Steps
  <2>5. Len(runs) <= MaxRuns /\ requests \in 0..MaxRequests /\ kills \in 0..MaxKills
    BY <2>3, <2>8
  <2>6. /\ req = [h \in Handlers |-> req[h]] /\ cand = [h \in Handlers |-> cand[h]]
        /\ copy = [h \in Handlers |-> copy[h]]
        /\ ran \subseteq Question /\ byHand \subseteq Question /\ overlapped \in BOOLEAN
    OBVIOUS
  <2>7. QED
    BY <2>1, <2>2, <2>4, <2>5, <2>6, <2>8 DEF WorldInv
<1>2. \A h \in Handlers : pc[h] = "idle"
  OBVIOUS
<1>3. \A h \in Handlers : Holds(h) /\ FreshInv(h)
  BY <1>2 DEF Holds, AskedInv, RanInv, StatusInv, DraftInv, JudgedInv, FreshInv
<1>4. TrailInv /\ AloneInv /\ DistinctInv
  BY <1>2 DEF TrailInv, AloneInv, DistinctInv, Busy
<1>5. GoldenInv
  BY DEF GoldenInv
<1>6. LeftBehind
  <2>1. Unlogged \ Pending = {}
    BY DEF Unlogged
  <2>2. Cardinality(Unlogged \ Pending) = 0
    BY <2>1, FS_EmptySet
  <2>3. QED
    BY <2>2 DEF LeftBehind
<1>7. QED
  BY <1>1, <1>3, <1>4, <1>5, <1>6 DEF Inv, AlignedInv

\* What a ruling about to be logged says.
LEMMA RulingIsOne ==
  ASSUME WorldInv, NEW h \in Handlers, Holds(h), pc[h] = "logging"
  PROVE  [run |-> copy[h].n, row |-> req[h].row, judge |-> copy[h].run.judge[req[h].row],
          human |-> VerdictOf(req[h], copy[h].run)] \in Ruling
<1>1. /\ req[h] \in Requests /\ req[h].kind \in {"resolve", "judge"}
      /\ copy[h].n \in DOMAIN runs /\ copy[h].run \in Run
      /\ copy[h].run.judge[req[h].row] # NoVerdict
  BY DEF Holds, AskedInv, StepOf, JudgedInv
<1>2. req[h].row \in Rows
  BY <1>1, RequestHas
<1>3. copy[h].run.judge[req[h].row] \in Verdicts
  BY <1>1, <1>2 DEF Run
<1>4. VerdictOf(req[h], copy[h].run) \in Verdicts
  BY <1>1, Decided
<1>5. copy[h].n \in 1..MaxRuns
  <2>1. Len(runs) \in Nat /\ Len(runs) <= MaxRuns /\ DOMAIN runs = 1..Len(runs) /\ MaxRuns \in Nat
    BY ReviewConsoleAssumption DEF WorldInv
  <2>2. QED
    BY <1>1, <2>1
<1>6. QED
  BY <1>2, <1>3, <1>4, <1>5 DEF Ruling

\* The run that is written back is a run, with the judge's column of the one it replaces.
LEMMA RunWithVerdict ==
  ASSUME WorldInv, NEW h \in Handlers, Holds(h), pc[h] = "saving"
  PROVE  /\ copy[h].n \in DOMAIN runs
         /\ req[h].row \in Rows
         /\ VerdictOf(req[h], copy[h].run) \in Verdicts
         /\ [copy[h].run EXCEPT !.human[req[h].row] = VerdictOf(req[h], copy[h].run)] \in Run
         /\ [copy[h].run EXCEPT !.human[req[h].row] = VerdictOf(req[h], copy[h].run)].judge
              = runs[copy[h].n].judge
         /\ [copy[h].run EXCEPT !.human[req[h].row] = VerdictOf(req[h], copy[h].run)].human
              = [copy[h].run.human EXCEPT ![req[h].row] = VerdictOf(req[h], copy[h].run)]
<1>1. /\ req[h] \in Requests /\ req[h].kind \in {"resolve", "judge"}
      /\ copy[h].n \in DOMAIN runs /\ copy[h].run \in Run
      /\ copy[h].run.judge = runs[copy[h].n].judge
  BY DEF Holds, AskedInv, StepOf, JudgedInv
<1>2. req[h].row \in Rows
  BY <1>1, RequestHas
<1>3. VerdictOf(req[h], copy[h].run) \in Verdicts
  BY <1>1, Decided
<1> DEFINE v == VerdictOf(req[h], copy[h].run)  w == copy[h].run  r == req[h].row
<1>4. w \in Run /\ r \in Rows /\ v \in Verdicts /\ w.judge = runs[copy[h].n].judge
  BY <1>1, <1>2, <1>3
<1> HIDE DEF v, w, r
<1>5. /\ [w EXCEPT !.human[r] = v] \in Run
      /\ [w EXCEPT !.human[r] = v].judge = runs[copy[h].n].judge
      /\ [w EXCEPT !.human[r] = v].human = [w.human EXCEPT ![r] = v]
  BY <1>4 DEF Run
<1>6. QED
  BY <1>1, <1>2, <1>3, <1>5 DEF v, w, r

LEMMA WorldStep ==
  ASSUME WorldInv, \A h \in Handlers : Holds(h), Next
  PROVE  WorldInv'
<1>1. CASE NewRun
  <2>1. PICK judge \in [Rows -> Verdicts \cup {NoVerdict}] :
          runs' = Append(runs, [judge |-> judge, human |-> [r \in Rows |-> NoVerdict]])
    BY <1>1 DEF NewRun
  <2> DEFINE new == [judge |-> judge, human |-> [r \in Rows |-> NoVerdict]]
  <2>2. new \in Run
    BY DEF Run
  <2> HIDE DEF new
  <2>3. runs' = Append(runs, new) /\ runs \in Seq(Run)
    BY <2>1 DEF new, WorldInv
  <2>4. runs' \in Seq(Run) /\ Len(runs') = Len(runs) + 1 /\ Len(runs) \in Nat
    BY <2>2, <2>3
  <2>5. Len(runs) < MaxRuns /\ MaxRuns \in Nat
    BY <1>1, ReviewConsoleAssumption DEF NewRun, Latest
  <2>6. Len(runs') <= MaxRuns
    BY <2>4, <2>5
  <2>7. QED
    BY <1>1, <2>4, <2>6 DEF WorldInv, NewRun, local, unchangedByHandler
<1>2. CASE HandAdd
  <2>1. PICK q \in Question : dev' = Append(dev, q) /\ byHand' = byHand \cup {q}
    BY <1>2 DEF HandAdd
  <2>2. dev' \in Seq(Question)
    BY <2>1 DEF WorldInv
  <2>3. QED
    BY <1>2, <2>1, <2>2 DEF WorldInv, HandAdd, local
<1>3. ASSUME NEW h \in Handlers, Handle(h)
      PROVE  WorldInv'
  <2>1. /\ pc' \in [Handlers -> Steps] /\ req' = [g \in Handlers |-> req'[g]]
        /\ cand' = [g \in Handlers |-> cand'[g]] /\ copy' = [g \in Handlers |-> copy'[g]]
    BY <1>3, Frame
  <2>2. Holds(h)
    OBVIOUS
  <2>3. pc[h] \in WithCandidate => req[h].id \in Ids /\ cand[h] \in Candidate
    <3>1. SUFFICES ASSUME pc[h] \in WithCandidate
                   PROVE  req[h].id \in Ids /\ cand[h] \in Candidate
      OBVIOUS
    <3>2. req[h] \in Requests /\ cand[h] \in Candidate /\ StepOf(pc[h], req[h].kind)
      BY <2>2, <3>1 DEF Holds, AskedInv, WithCandidate
    <3>3. req[h].kind \in {"accept", "reject", "add"}
      BY <3>1, <3>2 DEF StepOf, WithCandidate
    <3>4. QED
      BY <3>2, <3>3, RequestHas
  <2>4. queue' \in [Ids -> Candidate \cup {Missing}]
    <3>1. CASE SaveQueue(h)
      <4>1. /\ copy[h] \in [Ids -> Candidate \cup {Missing}] /\ req[h].id \in Ids
            /\ cand[h] \in Candidate
        BY <2>2, <2>3, <3>1 DEF SaveQueue, WithCandidate, Holds, StatusInv
      <4>2. queue' = copy[h] \/ queue' = [copy[h] EXCEPT ![req[h].id] = cand[h]]
        BY <3>1 DEF SaveQueue
      <4>3. QED
        BY <4>1, <4>2
    <3>2. CASE ~SaveQueue(h)
      BY <1>3, <3>2 DEF Handle, Arrive, Look, Ground, CheckIds, ReadDev, AppendDev, LoadQueue,
        LoadRun, SaveRun, LogRuling, Kill, files, WorldInv
    <3>3. QED
      BY <3>1, <3>2
  <2>5. dev' \in Seq(Question)
    <3>1. CASE AppendDev(h)
      <4>1. copy[h] \in Seq(Question) /\ req[h].id \in Ids /\ cand[h].sql \in Sqls
        BY <2>2, <2>3, <3>1 DEF AppendDev, WithCandidate, Holds, DraftInv, Candidate
      <4>2. [id |-> req[h].id, sql |-> cand[h].sql] \in Question
        BY <4>1 DEF Question
      <4>3. QED
        BY <3>1, <4>1, <4>2 DEF AppendDev
    <3>2. CASE ~AppendDev(h)
      BY <1>3, <3>2 DEF Handle, Arrive, Look, Ground, CheckIds, ReadDev, SaveQueue, LoadQueue,
        LoadRun, SaveRun, LogRuling, Kill, files, WorldInv
    <3>3. QED
      BY <3>1, <3>2
  <2>6. runs' \in Seq(Run) /\ Len(runs') <= MaxRuns
    <3>1. CASE SaveRun(h)
      <4>1. PICK w \in Run : runs' = [runs EXCEPT ![copy[h].n] = w]
        BY <2>2, <3>1, RunWithVerdict DEF SaveRun
      <4>2. runs \in Seq(Run) /\ copy[h].n \in DOMAIN runs /\ Len(runs) <= MaxRuns
        BY <2>2, <3>1, RunWithVerdict DEF SaveRun, WorldInv
      <4>3. runs' \in Seq(Run) /\ Len(runs') = Len(runs)
        BY <4>1, <4>2, ExceptSeq
      <4>4. QED
        BY <4>2, <4>3
    <3>2. CASE ~SaveRun(h)
      BY <1>3, <3>2 DEF Handle, Arrive, Look, Ground, CheckIds, ReadDev, SaveQueue, LoadQueue,
        LoadRun, AppendDev, LogRuling, Kill, files, WorldInv
    <3>3. QED
      BY <3>1, <3>2
  <2>7. calibration' \in Seq(Ruling)
    <3>1. CASE LogRuling(h)
      <4>1. PICK x \in Ruling : calibration' = Append(calibration, x)
        BY <2>2, <3>1, RulingIsOne DEF LogRuling
      <4>2. QED
        BY <4>1 DEF WorldInv
    <3>2. CASE ~LogRuling(h)
      BY <1>3, <3>2 DEF Handle, Arrive, Look, Ground, CheckIds, ReadDev, SaveQueue, LoadQueue,
        LoadRun, AppendDev, SaveRun, Kill, files, WorldInv
    <3>3. QED
      BY <3>1, <3>2
  <2>8. requests' \in 0..MaxRequests /\ kills' \in 0..MaxKills
    <3>1. MaxRequests \in Nat /\ MaxKills \in Nat
      BY ReviewConsoleAssumption
    <3>2. requests' = requests \/ (requests < MaxRequests /\ requests' = requests + 1)
      BY <1>3 DEF Handle, Arrive, Look, Ground, CheckIds, ReadDev, SaveQueue, LoadQueue,
        LoadRun, AppendDev, SaveRun, LogRuling, Kill, unchangedByHandler
    <3>3. kills' = kills \/ (kills < MaxKills /\ kills' = kills + 1)
      BY <1>3 DEF Handle, Arrive, Look, Ground, CheckIds, ReadDev, SaveQueue, LoadQueue,
        LoadRun, AppendDev, SaveRun, LogRuling, Kill, unchangedByHandler
    <3>4. requests \in 0..MaxRequests /\ kills \in 0..MaxKills
      BY DEF WorldInv
    <3>5. QED
      BY <3>1, <3>2, <3>3, <3>4
  <2>9. ran' \subseteq Question /\ byHand' \subseteq Question /\ overlapped' \in BOOLEAN
    <3>1. byHand' = byHand
      BY <1>3 DEF Handle, Arrive, Look, Ground, CheckIds, ReadDev, SaveQueue, LoadQueue,
        LoadRun, AppendDev, SaveRun, LogRuling, Kill, unchangedByHandler
    <3>2. overlapped' \in BOOLEAN
      BY <1>3 DEF WorldInv, Handle, Arrive, Look, Ground, CheckIds, ReadDev, SaveQueue, LoadQueue,
        LoadRun, AppendDev, SaveRun, LogRuling, Kill, unchangedByHandler
    <3>3. \/ ran' = ran
          \/ /\ pc[h] = "grounding"
             /\ ran' = ran \cup {[id |-> req[h].id, sql |-> cand[h].sql]}
      BY <1>3 DEF Handle, Arrive, Look, Ground, CheckIds, ReadDev, SaveQueue, LoadQueue,
        LoadRun, AppendDev, SaveRun, LogRuling, Kill, unchangedByHandler
    <3>4. pc[h] = "grounding" => [id |-> req[h].id, sql |-> cand[h].sql] \in Question
      BY <2>3 DEF WithCandidate, Candidate, Question
    <3>5. QED
      BY <3>1, <3>2, <3>3, <3>4 DEF WorldInv
  <2>10. QED
    BY <2>1, <2>4, <2>5, <2>6, <2>7, <2>8, <2>9 DEF WorldInv
<1>4. QED
  BY <1>1, <1>2, <1>3 DEF Next


-----------------------------------------------------------------------------
(* What a handler holds                                                    *)

LEMMA ContainsAppend ==
  ASSUME NEW S, NEW s \in Seq(S), NEW e \in S, NEW q
  PROVE  Contains(Append(s, e), q) <=> Contains(s, q) \/ q = e
<1>1. /\ Len(Append(s, e)) = Len(s) + 1 /\ Len(s) \in Nat
      /\ \A i \in 1..Len(s) : Append(s, e)[i] = s[i]
      /\ Append(s, e)[Len(s) + 1] = e
  OBVIOUS
<1> DEFINE t == Append(s, e)  n == Len(s)
<1> HIDE DEF t, n
<1>2. /\ Len(t) = n + 1 /\ n \in Nat
      /\ \A i \in 1..n : t[i] = s[i]
      /\ t[n + 1] = e
  BY <1>1 DEF t, n
<1>3. (\E i \in 1..(n + 1) : t[i] = q) <=> (\E i \in 1..n : s[i] = q) \/ q = e
  <2>1. \A i : i \in 1..(n + 1) <=> i \in 1..n \/ i = n + 1
    BY <1>2
  <2>2. QED
    BY <1>2, <2>1
<1>4. QED
  BY <1>2, <1>3 DEF Contains, t, n

\* No step takes a run away or changes what its judge suggests.
LEMMA RunsStay ==
  ASSUME WorldInv, \A h \in Handlers : Holds(h), Next
  PROVE  /\ DOMAIN runs \subseteq DOMAIN runs'
         /\ \A n \in DOMAIN runs : runs'[n].judge = runs[n].judge
<1>1. CASE NewRun
  <2>1. PICK judge \in [Rows -> Verdicts \cup {NoVerdict}] :
          runs' = Append(runs, [judge |-> judge, human |-> [r \in Rows |-> NoVerdict]])
    BY <1>1 DEF NewRun
  <2>2. runs \in Seq(Run)
    BY DEF WorldInv
  <2>3. QED
    BY <2>1, <2>2
<1>2. ASSUME NEW h \in Handlers, SaveRun(h)
      PROVE  /\ DOMAIN runs \subseteq DOMAIN runs'
             /\ \A n \in DOMAIN runs : runs'[n].judge = runs[n].judge
  <2>1. PICK w : runs' = [runs EXCEPT ![copy[h].n] = w] /\ w.judge = runs[copy[h].n].judge
    BY <1>2, RunWithVerdict DEF SaveRun
  <2>2. runs \in Seq(Run)
    BY DEF WorldInv
  <2>3. QED
    BY <2>1, <2>2
<1>3. CASE UNCHANGED runs
  BY <1>3
<1>4. QED
  BY <1>1, <1>2, <1>3 DEF Next, Handle, HandAdd, Arrive, Look, Ground, CheckIds, ReadDev,
    AppendDev, LoadQueue, SaveQueue, LoadRun, LogRuling, Kill, files

\* What was executed or written by hand stays so, and dev.yaml changes in nothing else.
LEMMA DevChanges ==
  ASSUME WorldInv, \A h \in Handlers : Holds(h), Next
  PROVE  /\ ran \subseteq ran' /\ byHand \subseteq byHand'
         /\ \A q \in Question \ (ran' \cup byHand') : Contains(dev', q) <=> Contains(dev, q)
<1>1. CASE HandAdd
  <2>1. PICK x \in Question : dev' = Append(dev, x) /\ byHand' = byHand \cup {x} /\ ran' = ran
    BY <1>1 DEF HandAdd
  <2>2. \A q : Contains(dev', q) <=> Contains(dev, q) \/ q = x
    BY <2>1, ContainsAppend DEF WorldInv
  <2>3. QED
    BY <2>1, <2>2
<1>2. ASSUME NEW h \in Handlers, AppendDev(h)
      PROVE  /\ ran \subseteq ran' /\ byHand \subseteq byHand'
             /\ \A q \in Question \ (ran' \cup byHand') : Contains(dev', q) <=> Contains(dev, q)
  <2>1. /\ copy[h] \in Seq(Question)
        /\ \A q \in Question \ (ran \cup byHand) : Contains(copy[h], q) <=> Contains(dev, q)
        /\ [id |-> req[h].id, sql |-> cand[h].sql] \in ran
    BY <1>2 DEF AppendDev, Holds, DraftInv, RanInv
  <2>2. PICK x \in ran : dev' = Append(copy[h], x) /\ ran' = ran /\ byHand' = byHand
    BY <1>2, <2>1 DEF AppendDev, unchangedByHandler
  <2>3. x \in Question
    BY <2>2 DEF WorldInv
  <2>4. \A q : Contains(dev', q) <=> Contains(copy[h], q) \/ q = x
    BY <2>1, <2>2, <2>3, ContainsAppend
  <2>5. QED
    BY <2>1, <2>2, <2>4
<1>3. CASE dev' = dev /\ ran \subseteq ran' /\ byHand' = byHand
  BY <1>3
<1>4. QED
  BY <1>1, <1>2, <1>3 DEF Next, Handle, NewRun, Arrive, Look, Ground, CheckIds, ReadDev,
    LoadQueue, SaveQueue, LoadRun, SaveRun, LogRuling, Kill, files, unchangedByHandler

\* A handler that does not move holds what it held.
LEMMA HoldsStill ==
  ASSUME WorldInv, \A h \in Handlers : Holds(h), Next,
         NEW g \in Handlers,
         pc'[g] = pc[g], req'[g] = req[g], cand'[g] = cand[g], copy'[g] = copy[g]
  PROVE  Holds(g)'
<1>1. Holds(g)
  OBVIOUS
<1>2. /\ DOMAIN runs \subseteq DOMAIN runs'
      /\ \A n \in DOMAIN runs : runs'[n].judge = runs[n].judge
  BY RunsStay
<1>3. AskedInv(g)'
  <2>1. Requests \subseteq Requests'
    BY <1>2, RequestsGrow
  <2>2. QED
    BY <1>1, <2>1 DEF Holds, AskedInv
<1>4. /\ ran \subseteq ran' /\ byHand \subseteq byHand'
      /\ \A q \in Question \ (ran' \cup byHand') : Contains(dev', q) <=> Contains(dev, q)
  BY DevChanges
<1>5. RanInv(g)'
  BY <1>1, <1>4 DEF Holds, RanInv
<1>6. StatusInv(g)'
  BY <1>1 DEF Holds, StatusInv
<1>7. DraftInv(g)'
  <2>1. SUFFICES ASSUME pc[g] = "appending"
                 PROVE  /\ copy[g] \in Seq(Question)
                        /\ \A q \in Question \ (ran' \cup byHand') :
                             Contains(copy[g], q) <=> Contains(dev', q)
    BY DEF DraftInv
  <2>2. /\ copy[g] \in Seq(Question)
        /\ \A q \in Question \ (ran \cup byHand) : Contains(copy[g], q) <=> Contains(dev, q)
    BY <1>1, <2>1 DEF Holds, DraftInv
  <2>3. QED
    BY <1>4, <2>2
<1>8. JudgedInv(g)'
  BY <1>1, <1>2 DEF Holds, JudgedInv
<1>9. QED
  BY <1>3, <1>5, <1>6, <1>7, <1>8 DEF Holds


\* The handler that moves holds what its next step needs.
LEMMA HoldsMoved ==
  ASSUME WorldInv, \A g \in Handlers : Holds(g), Next, WorldInv', NEW h \in Handlers, Handle(h)
  PROVE  Holds(h)'
<1>1. Holds(h)
  OBVIOUS
<1>2. DOMAIN runs \subseteq DOMAIN runs' /\ Requests \subseteq Requests'
  BY RunsStay, RequestsGrow
<1>3. CASE pc'[h] = "idle"
  BY <1>3 DEF Holds, AskedInv, RanInv, StatusInv, DraftInv, JudgedInv
<1>4. pc[h] # "idle" => req[h] \in Requests /\ req[h] \in Requests' /\ StepOf(pc[h], req[h].kind)
  BY <1>1, <1>2 DEF Holds, AskedInv
<1>5. CASE Arrive(h)
  <2>1. PICK r \in Requests :
          /\ req' = [req EXCEPT ![h] = r]
          /\ pc' = [pc EXCEPT ![h] = FirstStep(r)]
          /\ cand' = [cand EXCEPT ![h] =
               IF r.kind = "add" THEN [sql |-> r.sql, status |-> "pending"] ELSE << >>]
    BY <1>5 DEF Arrive, Goto
  <2>2. /\ pc'[h] = FirstStep(r) /\ req'[h] = r /\ r \in Requests'
        /\ r.kind = "add" => cand'[h] = [sql |-> r.sql, status |-> "pending"]
    BY <1>2, <2>1 DEF WorldInv
  <2>3. /\ FirstStep(r) \in {"looking", "queueing", "scoring"}
        /\ StepOf(FirstStep(r), r.kind)
        /\ FirstStep(r) = "queueing" => r.kind = "add"
    BY RequestHas DEF FirstStep, StepOf
  <2>4. r.kind = "add" => cand'[h] \in Candidate /\ cand'[h].status = "pending"
    <3>1. r.kind = "add" => r.sql \in Sqls
      BY RequestHas
    <3>2. QED
      BY <2>2, <3>1 DEF Candidate
  <2>5. AskedInv(h)'
    BY <2>2, <2>3, <2>4 DEF AskedInv, WithCandidate
  <2>6. RanInv(h)' /\ DraftInv(h)' /\ JudgedInv(h)'
    BY <2>2, <2>3 DEF RanInv, DraftInv, JudgedInv
  <2>7. StatusInv(h)'
    BY <2>2, <2>3, <2>4 DEF StatusInv
  <2>8. QED
    BY <2>5, <2>6, <2>7 DEF Holds
<1>6. CASE Look(h) /\ pc'[h] # "idle"
  <2>1. /\ pc[h] = "looking" /\ queue[req[h].id] # Missing
        /\ cand' = [cand EXCEPT ![h] =
             IF req[h].kind = "accept" THEN Edited(req[h], queue[req[h].id])
             ELSE [queue[req[h].id] EXCEPT !.status = "rejected"]]
        /\ pc' = [pc EXCEPT ![h] = IF req[h].kind = "accept" THEN "grounding" ELSE "queueing"]
        /\ req' = req
    BY <1>6, Replied DEF Look, Goto
  <2>2. req[h] \in Requests /\ req[h] \in Requests' /\ req[h].kind \in {"accept", "reject"}
    BY <1>4, <2>1 DEF StepOf
  <2>3. queue[req[h].id] \in Candidate
    BY <2>1, <2>2, RequestHas DEF WorldInv
  <2> DEFINE c == queue[req[h].id]
  <2>4. CASE req[h].kind = "accept"
    <3>1. pc'[h] = "grounding" /\ req'[h] = req[h] /\ cand'[h] = Edited(req[h], c)
      BY <2>1, <2>4 DEF WorldInv
    <3>2. cand'[h] \in Candidate
      BY <2>2, <2>3, <2>4, <3>1, EditIsCandidate
    <3>3. QED
      BY <2>2, <2>4, <3>1, <3>2
      DEF Holds, AskedInv, StepOf, WithCandidate, RanInv, StatusInv, DraftInv, JudgedInv
  <2>5. CASE req[h].kind = "reject"
    <3>1. pc'[h] = "queueing" /\ req'[h] = req[h] /\ cand'[h] = [c EXCEPT !.status = "rejected"]
      BY <2>1, <2>5 DEF WorldInv
    <3>2. cand'[h] \in Candidate /\ cand'[h].status = "rejected"
      BY <2>3, <3>1 DEF Candidate
    <3>3. QED
      BY <2>2, <2>5, <3>1, <3>2
      DEF Holds, AskedInv, StepOf, WithCandidate, RanInv, StatusInv, DraftInv, JudgedInv
  <2>6. QED
    BY <2>2, <2>4, <2>5
<1>7. CASE Ground(h) /\ pc'[h] # "idle"
  <2>1. /\ pc[h] = "grounding" /\ ran' = ran \cup {[id |-> req[h].id, sql |-> cand[h].sql]}
        /\ pc' = [pc EXCEPT ![h] = "checking"] /\ req' = req /\ cand' = cand
    BY <1>7, Replied DEF Ground, Goto
  <2>2. /\ pc'[h] = "checking" /\ req'[h] = req[h] /\ cand'[h] = cand[h]
        /\ [id |-> req[h].id, sql |-> cand[h].sql] \in ran'
    BY <2>1 DEF WorldInv
  <2>3. /\ req[h] \in Requests' /\ req[h].kind = "accept" /\ cand[h] \in Candidate
    BY <1>1, <1>4, <2>1 DEF Holds, AskedInv, WithCandidate, StepOf
  <2>4. QED
    BY <2>2, <2>3
    DEF Holds, AskedInv, StepOf, WithCandidate, RanInv, StatusInv, DraftInv, JudgedInv
<1>8. CASE CheckIds(h)
  <2>1. /\ pc[h] = "checking" /\ pc'[h] \in {"queueing", "reading"}
        /\ req'[h] = req[h] /\ cand'[h] = cand[h] /\ ran' = ran
    BY <1>8 DEF CheckIds, Goto, WorldInv
  <2>2. /\ req[h] \in Requests' /\ req[h].kind = "accept" /\ cand[h] \in Candidate
        /\ [id |-> req[h].id, sql |-> cand[h].sql] \in ran
    BY <1>1, <1>4, <2>1 DEF Holds, AskedInv, WithCandidate, StepOf, RanInv
  <2>3. QED
    BY <2>1, <2>2
    DEF Holds, AskedInv, StepOf, WithCandidate, RanInv, StatusInv, DraftInv, JudgedInv
<1>9. CASE ReadDev(h)
  <2>1. /\ pc[h] = "reading" /\ pc'[h] = "appending" /\ copy'[h] = dev /\ dev' = dev
        /\ req'[h] = req[h] /\ cand'[h] = cand[h] /\ ran' = ran
    BY <1>9 DEF ReadDev, Goto, WorldInv, files
  <2>2. /\ req[h] \in Requests' /\ req[h].kind = "accept" /\ cand[h] \in Candidate
        /\ [id |-> req[h].id, sql |-> cand[h].sql] \in ran
    BY <1>1, <1>4, <2>1 DEF Holds, AskedInv, WithCandidate, StepOf, RanInv
  <2>3. DraftInv(h)'
    BY <2>1 DEF DraftInv, WorldInv
  <2>4. QED
    BY <2>1, <2>2, <2>3
    DEF Holds, AskedInv, StepOf, WithCandidate, RanInv, StatusInv, JudgedInv
<1>10. CASE AppendDev(h)
  <2>1. /\ pc[h] = "appending" /\ pc'[h] = "queueing"
        /\ req'[h] = req[h] /\ cand'[h] = cand[h]
    BY <1>10 DEF AppendDev, Goto, WorldInv
  <2>2. /\ req[h] \in Requests' /\ req[h].kind = "accept" /\ cand[h] \in Candidate
    BY <1>1, <1>4, <2>1 DEF Holds, AskedInv, WithCandidate, StepOf
  <2>3. QED
    BY <2>1, <2>2
    DEF Holds, AskedInv, StepOf, WithCandidate, RanInv, StatusInv, DraftInv, JudgedInv
<1>11. CASE LoadQueue(h)
  <2>1. /\ pc[h] = "queueing" /\ pc'[h] = "marking" /\ req'[h] = req[h] /\ copy'[h] = queue
        /\ cand'[h] = IF req[h].kind = "accept" THEN [cand[h] EXCEPT !.status = "accepted"]
                      ELSE cand[h]
    BY <1>11 DEF LoadQueue, Goto, WorldInv
  <2>2. /\ req[h] \in Requests' /\ req[h].kind \in {"accept", "reject", "add"}
        /\ cand[h] \in Candidate
        /\ req[h].kind # "accept" => cand[h].status # "accepted"
    BY <1>1, <1>4, <2>1 DEF Holds, AskedInv, WithCandidate, StepOf, StatusInv
  <2>3. cand'[h] \in Candidate /\ (req[h].kind # "accept" => cand'[h].status # "accepted")
    <3>1. [cand[h] EXCEPT !.status = "accepted"] \in Candidate
      BY <2>2 DEF Candidate
    <3>2. QED
      BY <2>1, <2>2, <3>1
  <2>4. queue \in [Ids -> Candidate \cup {Missing}]
    BY DEF WorldInv
  <2>5. QED
    BY <2>1, <2>2, <2>3, <2>4
    DEF Holds, AskedInv, StepOf, WithCandidate, RanInv, StatusInv, DraftInv, JudgedInv
<1>12. CASE LoadRun(h) /\ pc'[h] # "idle"
  <2>1. /\ pc[h] = "scoring" /\ Latest # 0
        /\ copy' = [copy EXCEPT ![h] = [n |-> Latest, run |-> runs[Latest]]]
        /\ pc' = [pc EXCEPT ![h] = "saving"] /\ req' = req /\ runs' = runs
    BY <1>12, Replied DEF LoadRun, Goto, files
  <2>2. /\ pc'[h] = "saving" /\ req'[h] = req[h]
        /\ copy'[h] = [n |-> Latest, run |-> runs[Latest]]
    BY <2>1 DEF WorldInv
  <2>3. /\ req[h] \in Requests' /\ req[h].kind \in {"resolve", "judge"}
    BY <1>4, <2>1 DEF StepOf
  <2>4. Latest \in DOMAIN runs /\ runs[Latest] \in Run
    BY <2>1 DEF Latest, WorldInv
  <2>5. copy'[h].n = Latest /\ copy'[h].run = runs[Latest]
    BY <2>2
  <2>6. JudgedInv(h)'
    BY <2>1, <2>2, <2>4, <2>5 DEF JudgedInv
  <2>7. QED
    BY <2>2, <2>3, <2>6
    DEF Holds, AskedInv, StepOf, WithCandidate, RanInv, StatusInv, DraftInv
<1>13. CASE SaveRun(h) /\ pc'[h] # "idle"
  <2>1. /\ pc[h] = "saving" /\ copy[h].run.judge[req[h].row] # NoVerdict
        /\ pc' = [pc EXCEPT ![h] = "logging"] /\ req' = req /\ copy' = copy
    BY <1>13, Replied DEF SaveRun, Goto
  <2>2. pc'[h] = "logging" /\ req'[h] = req[h] /\ copy'[h] = copy[h]
    BY <2>1 DEF WorldInv
  <2>3. /\ req[h] \in Requests' /\ req[h].kind \in {"resolve", "judge"}
    BY <1>4, <2>1 DEF StepOf
  <2>4. /\ copy[h] = [n |-> copy[h].n, run |-> copy[h].run]
        /\ copy[h].n \in DOMAIN runs' /\ copy[h].run \in Run
        /\ copy[h].run.judge = runs'[copy[h].n].judge
    BY <1>1, <1>2, <2>1, RunsStay DEF Holds, JudgedInv
  <2>5. JudgedInv(h)'
    BY <2>1, <2>2, <2>4 DEF JudgedInv
  <2>6. QED
    BY <2>2, <2>3, <2>5
    DEF Holds, AskedInv, StepOf, WithCandidate, RanInv, StatusInv, DraftInv
<1>14. CASE SaveQueue(h) \/ LogRuling(h) \/ Kill(h)
  BY <1>3, <1>14, Replied DEF SaveQueue, LogRuling, Kill
<1>15. QED
  BY <1>3, <1>5, <1>6, <1>7, <1>8, <1>9, <1>10, <1>11, <1>12, <1>13, <1>14 DEF Handle

LEMMA HoldsStep ==
  ASSUME WorldInv, \A h \in Handlers : Holds(h), Next, NEW g \in Handlers
  PROVE  Holds(g)'
<1>1. ASSUME NEW h \in Handlers, Handle(h)
      PROVE  Holds(g)'
  <2>1. CASE g = h
    BY <1>1, <2>1, WorldStep, HoldsMoved
  <2>2. CASE g # h
    <3>1. Others(h)
      BY <1>1, Frame
    <3>2. QED
      BY <2>2, <3>1, HoldsStill DEF Others
  <2>3. QED
    BY <2>1, <2>2
<1>2. CASE NewRun \/ HandAdd
  <2>1. UNCHANGED local
    BY <1>2 DEF NewRun, HandAdd
  <2>2. QED
    BY <2>1, HoldsStill DEF local
<1>3. QED
  BY <1>1, <1>2 DEF Next


-----------------------------------------------------------------------------
(* Requests that wait for each other                                       *)

\* An overlap is remembered.
LEMMA OverlapStays ==
  ASSUME Next, ~overlapped'
  PROVE  ~overlapped
BY DEF Next, Handle, NewRun, HandAdd, Arrive, Look, Ground, CheckIds, ReadDev, AppendDev,
  LoadQueue, SaveQueue, LoadRun, SaveRun, LogRuling, Kill, unchangedByHandler

\* As long as nothing overlaps, nobody else is at work when a handler moves.
LEMMA Waiting ==
  ASSUME WorldInv, AloneInv, Next, ~overlapped', NEW h \in Handlers, Handle(h)
  PROVE  \A g \in Handlers \ {h} : pc[g] = "idle" /\ pc'[g] = "idle"
<1>1. ~overlapped
  BY OverlapStays
<1>2. Arrive(h) => \A g \in Handlers : pc[g] = "idle"
  BY DEF Arrive, Busy
<1>3. ~Arrive(h) => pc[h] # "idle"
  BY DEF Handle, Look, Ground, CheckIds, ReadDev, AppendDev, LoadQueue, SaveQueue, LoadRun,
    SaveRun, LogRuling, Kill, Busy
<1>4. \A g \in Handlers \ {h} : pc[g] = "idle"
  BY <1>1, <1>2, <1>3 DEF AloneInv, Busy
<1>5. \A g \in Handlers \ {h} : pc'[g] = pc[g]
  BY Frame DEF Others
<1>6. QED
  BY <1>4, <1>5

\* An eval and an editor leave the handlers alone, and an editor at work with one overlaps it.
LEMMA Apart ==
  ASSUME NewRun \/ HandAdd
  PROVE  /\ UNCHANGED <<pc, req, cand, copy, queue, calibration, kills>>
         /\ HandAdd /\ ~overlapped' => \A h \in Handlers : pc[h] = "idle"
BY DEF NewRun, HandAdd, local, unchangedByHandler, Busy

LEMMA AloneStep ==
  ASSUME WorldInv, AloneInv, Next
  PROVE  AloneInv'
<1> SUFFICES ASSUME ~overlapped'
             PROVE  \A g, h \in Handlers : pc'[g] # "idle" /\ pc'[h] # "idle" => g = h
  BY DEF AloneInv, Busy
<1>1. CASE NewRun \/ HandAdd
  BY <1>1, Apart, OverlapStays DEF AloneInv, Busy
<1>2. ASSUME NEW f \in Handlers, Handle(f)
      PROVE  \A g, h \in Handlers : pc'[g] # "idle" /\ pc'[h] # "idle" => g = h
  BY <1>2, Waiting
<1>3. QED
  BY <1>1, <1>2 DEF Next

-----------------------------------------------------------------------------
(* The golden dev set                                                      *)

\* A question with a new id behind a set of distinct ids.
LEMMA IdsOfAppend ==
  ASSUME NEW s \in Seq(Question), NEW q \in Question
  PROVE  /\ IdsOf(Append(s, q)) = IdsOf(s) \cup {q.id}
         /\ (q.id \notin IdsOf(s) /\ \A i, j \in DOMAIN s : s[i].id = s[j].id => i = j)
              => \A i, j \in DOMAIN Append(s, q) :
                   Append(s, q)[i].id = Append(s, q)[j].id => i = j
<1> DEFINE t == Append(s, q)  n == Len(s)
<1>1. /\ DOMAIN t = 1..(n + 1) /\ DOMAIN s = 1..n /\ n \in Nat
      /\ \A i \in 1..n : t[i] = s[i]
      /\ t[n + 1] = q
  OBVIOUS
<1> HIDE DEF t, n
<1>2. \A i : i \in 1..(n + 1) <=> i \in 1..n \/ i = n + 1
  BY <1>1
<1>3. n + 1 \notin 1..n
  BY <1>1
<1>4. IdsOf(t) = IdsOf(s) \cup {q.id}
  BY <1>1, <1>2 DEF IdsOf
<1>5. ASSUME q.id \notin IdsOf(s), \A i, j \in DOMAIN s : s[i].id = s[j].id => i = j
      PROVE  \A i, j \in DOMAIN t : t[i].id = t[j].id => i = j
  <2>1. \A i \in 1..n : s[i].id # q.id
    BY <1>1, <1>5 DEF IdsOf
  <2>2. QED
    BY <1>1, <1>2, <1>5, <2>1
<1>6. QED
  BY <1>4, <1>5 DEF t

\* The step that writes dev.yaml, and the editor: both append a question with a new id.
LEMMA DevAppends ==
  ASSUME WorldInv, \A h \in Handlers : Holds(h), AloneInv, AlignedInv, Next, ~overlapped'
  PROVE  \/ dev' = dev
         \/ \E q \in Question : dev' = Append(dev, q) /\ q.id \notin IdsOf(dev)
<1>1. CASE HandAdd
  BY <1>1 DEF HandAdd
<1>2. ASSUME NEW h \in Handlers, AppendDev(h)
      PROVE  \E q \in Question : dev' = Append(dev, q) /\ q.id \notin IdsOf(dev)
  <2>1. copy[h] = dev /\ req[h].id \notin IdsOf(dev)
    BY <1>2, OverlapStays DEF AppendDev, AlignedInv, FreshInv
  <2>2. [id |-> req[h].id, sql |-> cand[h].sql] \in Question
    BY <1>2 DEF AppendDev, Holds, RanInv, WorldInv
  <2>3. dev' = Append(dev, [id |-> req[h].id, sql |-> cand[h].sql])
    BY <1>2, <2>1 DEF AppendDev
  <2>4. QED
    BY <2>1, <2>2, <2>3
<1>3. CASE dev' = dev
  BY <1>3
<1>4. QED
  BY <1>1, <1>2, <1>3 DEF Next, Handle, NewRun, Arrive, Look, Ground, CheckIds, ReadDev,
    LoadQueue, SaveQueue, LoadRun, SaveRun, LogRuling, Kill, files

LEMMA DistinctStep ==
  ASSUME WorldInv, \A h \in Handlers : Holds(h), AloneInv, AlignedInv, DistinctInv, Next
  PROVE  DistinctInv'
<1> SUFFICES ASSUME ~overlapped'
             PROVE  \A i, j \in DOMAIN dev' : dev'[i].id = dev'[j].id => i = j
  BY DEF DistinctInv
<1>1. dev \in Seq(Question) /\ \A i, j \in DOMAIN dev : dev[i].id = dev[j].id => i = j
  BY OverlapStays DEF WorldInv, DistinctInv
<1>2. CASE dev' = dev
  BY <1>1, <1>2
<1>3. ASSUME NEW q \in Question, dev' = Append(dev, q), q.id \notin IdsOf(dev)
      PROVE  \A i, j \in DOMAIN dev' : dev'[i].id = dev'[j].id => i = j
  BY <1>1, <1>3, IdsOfAppend
<1>4. QED
  BY <1>2, <1>3, DevAppends

\* The ids of dev.yaml only grow while requests wait for each other.
LEMMA IdsGrow ==
  ASSUME WorldInv, \A h \in Handlers : Holds(h), AloneInv, AlignedInv, Next, ~overlapped'
  PROVE  IdsOf(dev) \subseteq IdsOf(dev')
BY DevAppends, IdsOfAppend DEF WorldInv

LEMMA GoldenStep ==
  ASSUME WorldInv, \A h \in Handlers : Holds(h), AloneInv, AlignedInv, GoldenInv, Next
  PROVE  GoldenInv'
<1> SUFFICES ASSUME ~overlapped', NEW id \in Ids, queue'[id] # Missing,
                    queue'[id].status = "accepted"
             PROVE  id \in IdsOf(dev')
  BY DEF GoldenInv
<1>1. ~overlapped /\ IdsOf(dev) \subseteq IdsOf(dev')
  BY OverlapStays, IdsGrow
<1>2. CASE queue' = queue
  BY <1>1, <1>2 DEF GoldenInv
<1>3. ASSUME NEW h \in Handlers, SaveQueue(h)
      PROVE  id \in IdsOf(dev')
  <2>1. /\ pc[h] = "marking" /\ dev' = dev /\ copy[h] = queue
        /\ queue' = queue \/ queue' = [queue EXCEPT ![req[h].id] = cand[h]]
    BY <1>1, <1>3 DEF SaveQueue, AlignedInv, FreshInv
  <2>2. CASE id = req[h].id /\ queue'[id] = cand[h]
    <3>1. req[h].kind = "accept"
      BY <2>1, <2>2 DEF Holds, StatusInv
    <3>2. QED
      BY <1>1, <2>1, <2>2, <3>1 DEF AlignedInv, FreshInv
  <2>3. CASE queue'[id] = queue[id]
    BY <1>1, <2>1, <2>3 DEF GoldenInv
  <2>4. QED
    BY <2>1, <2>2, <2>3 DEF WorldInv
<1>4. QED
  BY <1>2, <1>3 DEF Next, Handle, HandAdd, NewRun, Arrive, Look, Ground, CheckIds, ReadDev,
    AppendDev, LoadQueue, LoadRun, SaveRun, LogRuling, Kill, files


-----------------------------------------------------------------------------
(* The trail                                                               *)

LEMMA TrailStep ==
  ASSUME WorldInv, \A h \in Handlers : Holds(h), TrailInv, Next
  PROVE  TrailInv'
<1>1. /\ DOMAIN runs \subseteq DOMAIN runs'
      /\ \A n \in DOMAIN runs : runs'[n].judge = runs[n].judge
  BY RunsStay
<1>2. CASE calibration' = calibration
  BY <1>1, <1>2 DEF TrailInv
<1>3. ASSUME NEW h \in Handlers, LogRuling(h)
      PROVE  TrailInv'
  <2>1. PICK x \in Ruling : /\ calibration' = Append(calibration, x) /\ runs' = runs
                            /\ x.run = copy[h].n /\ x.row = req[h].row
                            /\ x.judge = copy[h].run.judge[req[h].row]
    BY <1>3, RulingIsOne DEF LogRuling
  <2>2. x.run \in DOMAIN runs /\ runs[x.run].judge[x.row] = x.judge
    BY <1>3, <2>1 DEF LogRuling, Holds, JudgedInv
  <2>3. calibration \in Seq(Ruling)
    BY DEF WorldInv
  <2>4. QED
    BY <2>1, <2>2, <2>3 DEF TrailInv
<1>4. QED
  BY <1>2, <1>3 DEF Next, Handle, HandAdd, NewRun, Arrive, Look, Ground, CheckIds, ReadDev,
    AppendDev, LoadQueue, SaveQueue, LoadRun, SaveRun, Kill, files


-----------------------------------------------------------------------------
(* What a handler has read is what the files hold                          *)

\* The run a handler writes back has its verdict, and the other rows of the one it read.
LEMMA RunSaved ==
  ASSUME WorldInv, NEW h \in Handlers, Holds(h), SaveRun(h)
  PROVE  \E w \in Run :
           /\ runs' = [runs EXCEPT ![copy[h].n] = w]
           /\ runs' \in Seq(Run) /\ Len(runs') = Len(runs) /\ runs'[copy[h].n] = w
           /\ \A n \in DOMAIN runs \ {copy[h].n} : runs'[n] = runs[n]
           /\ w.judge = runs[copy[h].n].judge
           /\ w.human[req[h].row] = VerdictOf(req[h], copy[h].run)
           /\ \A r \in Rows \ {req[h].row} : w.human[r] = copy[h].run.human[r]
<1> DEFINE w == [copy[h].run EXCEPT !.human[req[h].row] = VerdictOf(req[h], copy[h].run)]
           v == VerdictOf(req[h], copy[h].run)
<1>1. /\ copy[h].n \in DOMAIN runs /\ req[h].row \in Rows
      /\ w \in Run /\ w.judge = runs[copy[h].n].judge
      /\ w.human = [copy[h].run.human EXCEPT ![req[h].row] = v]
  BY RunWithVerdict DEF SaveRun
<1>2. copy[h].run.human \in [Rows -> Verdicts \cup {NoVerdict}]
  BY DEF SaveRun, Holds, JudgedInv, Run
<1>3. runs' = [runs EXCEPT ![copy[h].n] = w] /\ runs \in Seq(Run)
  BY DEF SaveRun, WorldInv
<1> HIDE DEF w, v
<1>4. /\ w.human[req[h].row] = v
      /\ \A r \in Rows \ {req[h].row} : w.human[r] = copy[h].run.human[r]
  BY <1>1, <1>2
<1>5. /\ runs' \in Seq(Run) /\ Len(runs') = Len(runs) /\ runs'[copy[h].n] = w
      /\ \A n \in DOMAIN runs \ {copy[h].n} : runs'[n] = runs[n]
  BY <1>1, <1>3, ExceptSeq
<1>6. QED
  BY <1>1, <1>3, <1>4, <1>5 DEF v

LEMMA FreshMoved ==
  ASSUME WorldInv, \A g \in Handlers : Holds(g), AloneInv, AlignedInv, Next, ~overlapped',
         NEW h \in Handlers, Handle(h)
  PROVE  FreshInv(h)'
<1>1. Holds(h) /\ FreshInv(h)
  BY OverlapStays DEF AlignedInv
<1>2. CASE pc'[h] \in {"idle", "looking", "grounding", "checking", "scoring"}
  BY <1>2 DEF FreshInv
<1>3. CASE Arrive(h)
  <2>1. PICK r \in Requests : req' = [req EXCEPT ![h] = r] /\ pc' = [pc EXCEPT ![h] = FirstStep(r)]
    BY <1>3 DEF Arrive, Goto
  <2>2. pc'[h] = FirstStep(r) /\ req'[h] = r
    BY <2>1 DEF WorldInv
  <2>3. FirstStep(r) \in {"looking", "queueing", "scoring"}
        /\ (FirstStep(r) = "queueing" => r.kind = "add")
    BY RequestHas DEF FirstStep
  <2>4. QED
    BY <2>2, <2>3 DEF FreshInv
<1>4. CASE Look(h) /\ pc'[h] # "idle"
  <2>1. /\ req' = req
        /\ pc' = [pc EXCEPT ![h] = IF req[h].kind = "accept" THEN "grounding" ELSE "queueing"]
    BY <1>4, Replied DEF Look, Goto
  <2>2. /\ req'[h] = req[h]
        /\ pc'[h] = IF req[h].kind = "accept" THEN "grounding" ELSE "queueing"
    BY <2>1 DEF WorldInv
  <2>3. QED
    BY <2>2 DEF FreshInv
<1>5. CASE Ground(h)
  BY <1>2, <1>5, Replied DEF Ground, Goto, WorldInv
<1>6. CASE CheckIds(h)
  <2>1. /\ req'[h] = req[h] /\ dev' = dev
        /\ pc'[h] = IF req[h].id \in IdsOf(dev) THEN "queueing" ELSE "reading"
    BY <1>6 DEF CheckIds, Goto, WorldInv, files
  <2>2. QED
    BY <2>1 DEF FreshInv
<1>7. CASE ReadDev(h)
  <2>1. /\ req'[h] = req[h] /\ dev' = dev /\ copy'[h] = dev
        /\ pc[h] = "reading" /\ pc'[h] = "appending"
    BY <1>7 DEF ReadDev, Goto, WorldInv, files
  <2>2. QED
    BY <1>1, <2>1 DEF FreshInv
<1>8. CASE AppendDev(h)
  <2>1. /\ req'[h] = req[h] /\ pc'[h] = "queueing" /\ pc[h] = "appending"
        /\ dev' = Append(copy[h], [id |-> req[h].id, sql |-> cand[h].sql])
    BY <1>8 DEF AppendDev, Goto, WorldInv
  <2>2. /\ copy[h] \in Seq(Question) /\ [id |-> req[h].id, sql |-> cand[h].sql] \in Question
    BY <1>1, <2>1 DEF Holds, DraftInv, RanInv, WorldInv
  <2>3. req[h].id \in IdsOf(dev')
    BY <2>1, <2>2, IdsOfAppend
  <2>4. QED
    BY <2>1, <2>3 DEF FreshInv
<1>9. CASE LoadQueue(h)
  <2>1. /\ req'[h] = req[h] /\ copy'[h] = queue /\ queue' = queue /\ dev' = dev
        /\ pc[h] = "queueing" /\ pc'[h] = "marking"
    BY <1>9 DEF LoadQueue, Goto, WorldInv, files
  <2>2. QED
    BY <1>1, <2>1 DEF FreshInv
<1>10. CASE LoadRun(h) /\ pc'[h] # "idle"
  <2>1. /\ copy' = [copy EXCEPT ![h] = [n |-> Latest, run |-> runs[Latest]]]
        /\ pc' = [pc EXCEPT ![h] = "saving"] /\ runs' = runs
    BY <1>10, Replied DEF LoadRun, Goto, files
  <2>2. pc'[h] = "saving" /\ copy'[h] = [n |-> Latest, run |-> runs[Latest]]
    BY <2>1 DEF WorldInv
  <2>3. copy'[h].run = runs'[copy'[h].n]
    BY <2>1, <2>2
  <2>4. QED
    BY <2>2, <2>3 DEF FreshInv
<1>11. CASE SaveRun(h) /\ pc'[h] # "idle"
  <2>1. pc' = [pc EXCEPT ![h] = "logging"] /\ req' = req /\ copy' = copy
    BY <1>11, Replied DEF SaveRun, Goto
  <2>2. pc'[h] = "logging" /\ req'[h] = req[h] /\ copy'[h] = copy[h]
    BY <2>1 DEF WorldInv
  <2>3. runs'[copy[h].n].human[req[h].row] = VerdictOf(req[h], copy[h].run)
    BY <1>1, <1>11, RunSaved
  <2>4. QED
    BY <2>2, <2>3 DEF FreshInv
<1>12. CASE SaveQueue(h) \/ LogRuling(h) \/ Kill(h)
  BY <1>2, <1>12, Replied DEF SaveQueue, LogRuling, Kill
<1>13. QED
  BY <1>2, <1>3, <1>4, <1>5, <1>6, <1>7, <1>8, <1>9, <1>10, <1>11, <1>12 DEF Handle

LEMMA AlignedStep ==
  ASSUME WorldInv, \A h \in Handlers : Holds(h), AloneInv, AlignedInv, Next
  PROVE  AlignedInv'
<1> SUFFICES ASSUME ~overlapped', NEW g \in Handlers
             PROVE  FreshInv(g)'
  BY DEF AlignedInv
<1>1. CASE pc'[g] = "idle"
  BY <1>1 DEF FreshInv
<1>2. ASSUME NEW h \in Handlers, Handle(h)
      PROVE  FreshInv(g)'
  <2>1. CASE g = h
    BY <1>2, <2>1, FreshMoved
  <2>2. CASE g # h
    BY <1>1, <1>2, <2>2, Waiting
  <2>3. QED
    BY <2>1, <2>2
<1>3. CASE HandAdd
  BY <1>1, <1>3, Apart
<1>4. CASE NewRun
  <2>1. /\ pc'[g] = pc[g] /\ req'[g] = req[g] /\ cand'[g] = cand[g] /\ copy'[g] = copy[g]
        /\ queue' = queue
    BY <1>4, Apart
  <2>2. PICK new : runs' = Append(runs, new)
    BY <1>4 DEF NewRun
  <2>3. dev' = dev
    BY <1>4 DEF NewRun
  <2>4. \A n \in DOMAIN runs : runs'[n] = runs[n]
    BY <2>2 DEF WorldInv
  <2>5. pc[g] \in {"saving", "logging"} => copy[g].n \in DOMAIN runs
    BY DEF Holds, JudgedInv
  <2>6. FreshInv(g)
    BY OverlapStays DEF AlignedInv
  <2>7. QED
    BY <2>1, <2>3, <2>4, <2>5, <2>6 DEF FreshInv
<1>5. QED
  BY <1>2, <1>3, <1>4 DEF Next


-----------------------------------------------------------------------------
(* The rows left behind                                                    *)

\* Of some numbers under a bound one is the greatest: the interval from it to the bound is
\* the smallest.
LEMMA Greatest ==
  ASSUME NEW N \in SUBSET Nat, N # {}, NEW bound \in Nat, \A i \in N : i <= bound
  PROVE  \E i \in N : \A j \in N : j <= i
<1> DEFINE above == {i..bound : i \in N}
<1>1. above \in SUBSET FiniteSubsetsOf(Nat) /\ above # {}
  <2>1. ASSUME NEW i \in N
        PROVE  IsFiniteSet(i..bound) /\ i..bound \in SUBSET Nat
    BY FS_Interval
  <2>2. QED
    BY <2>1 DEF FiniteSubsetsOf
<1>2. \E s \in above : \A t \in above : ~(<<t, s>> \in StrictSubsetOrdering(Nat))
  <2> HIDE DEF above
  <2>1. QED
    BY <1>1, FS_StrictSubsetOrderingWellFounded, WFMin
<1>3. PICK i \in N : \A j \in N : ~(<<j..bound, i..bound>> \in StrictSubsetOrdering(Nat))
  BY <1>2
<1>4. ASSUME NEW j \in N, i < j
      PROVE  FALSE
  <2>1. j..bound \subseteq i..bound /\ i \in i..bound /\ i \notin j..bound
    BY <1>4
  <2>2. <<j..bound, i..bound>> \in StrictSubsetOrdering(Nat)
    BY <2>1 DEF StrictSubsetOrdering
  <2>3. QED
    BY <1>3, <2>2
<1>5. QED
  BY <1>4

\* The ruling that counts, of any trail.
LastIn(trail, n, row) ==
  LET S == {i \in DOMAIN trail : trail[i].run = n /\ trail[i].row = row}
  IN IF S = {} THEN NoVerdict
     ELSE trail[CHOOSE i \in S : \A j \in S : j <= i].human

\* A ruling behind the trail is the one that counts for its row and leaves the others.
LEMMA LastAppended ==
  ASSUME NEW trail \in Seq(Ruling), NEW x \in Ruling, NEW n, NEW row
  PROVE  LastIn(Append(trail, x), n, row) =
           IF x.run = n /\ x.row = row THEN x.human ELSE LastIn(trail, n, row)
<1> DEFINE long == Append(trail, x)
           size == Len(trail)
           S == {i \in 1..size : trail[i].run = n /\ trail[i].row = row}
           T == {i \in 1..(size + 1) : long[i].run = n /\ long[i].row = row}
<1>1. /\ size \in Nat /\ DOMAIN trail = 1..size /\ DOMAIN long = 1..(size + 1)
      /\ \A i \in 1..size : long[i] = trail[i]
      /\ long[size + 1] = x
  OBVIOUS
<1> HIDE DEF long, size
<1>2. /\ LastIn(trail, n, row) =
           IF S = {} THEN NoVerdict ELSE trail[CHOOSE i \in S : \A j \in S : j <= i].human
      /\ LastIn(long, n, row) =
           IF T = {} THEN NoVerdict ELSE long[CHOOSE i \in T : \A j \in T : j <= i].human
  BY <1>1 DEF LastIn
<1>3. \A i : i \in 1..(size + 1) <=> i \in 1..size \/ i = size + 1
  BY <1>1
<1>4. S \in SUBSET Nat /\ \A i \in S : i <= size
  BY <1>1
<1>5. CASE x.run = n /\ x.row = row
  <2>1. size + 1 \in T /\ \A j \in T : j <= size + 1
    BY <1>1, <1>5
  <2>2. \A i \in T : (\A j \in T : j <= i) => i = size + 1
    BY <1>1, <2>1
  <2> HIDE DEF T
  <2>3. (CHOOSE i \in T : \A j \in T : j <= i) = size + 1
    BY <2>1, <2>2
  <2>4. QED
    BY <1>1, <1>2, <1>5, <2>1, <2>3 DEF long
<1>6. CASE ~(x.run = n /\ x.row = row)
  <2>1. S = T
    BY <1>1, <1>3, <1>6
  <2>2. CASE S = {}
    BY <1>2, <1>6, <2>1, <2>2 DEF long
  <2>3. CASE S # {}
    <3>1. \E i \in S : \A j \in S : j <= i
      BY <1>1, <1>4, <2>3, Greatest
    <3> DEFINE last == CHOOSE i \in S : \A j \in S : j <= i
    <3>2. last \in S
      BY <3>1
    <3>3. last \in 1..size
      BY <3>2
    <3>4. LastIn(trail, n, row) = trail[last].human /\ LastIn(long, n, row) = long[last].human
      BY <1>2, <2>1, <2>3
    <3> HIDE DEF last
    <3>5. QED
      BY <1>1, <1>6, <3>3, <3>4 DEF long
  <2>4. QED
    BY <2>2, <2>3
<1>7. QED
  BY <1>5, <1>6 DEF long

\* A row nobody ruled on has no ruling that counts.
LEMMA NoneYet ==
  ASSUME NEW trail, NEW n, NEW row, \A i \in DOMAIN trail : trail[i].run # n
  PROVE  LastIn(trail, n, row) = NoVerdict
<1>1. {i \in DOMAIN trail : trail[i].run = n /\ trail[i].row = row} = {}
  OBVIOUS
<1>2. QED
  BY <1>1 DEF LastIn

LEMMA UnloggedIs ==
  /\ Unlogged =
       {x \in (DOMAIN runs) \X Rows :
          /\ runs[x[1]].judge[x[2]] # NoVerdict
          /\ runs[x[1]].human[x[2]] # LastIn(calibration, x[1], x[2])}
  /\ Unlogged' =
       {x \in (DOMAIN runs') \X Rows :
          /\ runs'[x[1]].judge[x[2]] # NoVerdict
          /\ runs'[x[1]].human[x[2]] # LastIn(calibration', x[1], x[2])}
BY DEF Unlogged, LastRuling, LastIn

LEMMA FiniteRows ==
  ASSUME WorldInv
  PROVE  IsFiniteSet(Unlogged)
<1>1. DOMAIN runs = 1..Len(runs) /\ Len(runs) \in Nat
  BY DEF WorldInv
<1>2. IsFiniteSet(DOMAIN runs)
  BY <1>1, FS_Interval
<1>3. IsFiniteSet((DOMAIN runs) \X Rows)
  BY <1>2, FS_Product, ReviewConsoleAssumption
<1>4. QED
  BY <1>3, FS_Subset DEF Unlogged


\* While requests wait for each other, the rows about to be logged are those of the handler
\* that moves.
LEMMA PendingIs ==
  ASSUME WorldInv, AloneInv, Next, ~overlapped', NEW h \in Handlers, Handle(h)
  PROVE  /\ pc[h] # "logging" => Pending = {}
         /\ pc[h] = "logging" => Pending = {<<copy[h].n, req[h].row>>}
         /\ pc'[h] # "logging" => Pending' = {}
         /\ pc'[h] = "logging" => Pending' = {<<copy'[h].n, req'[h].row>>}
<1>1. \A g \in Handlers \ {h} : pc[g] = "idle" /\ pc'[g] = "idle"
  BY Waiting
<1>2. /\ pc[h] # "logging" => Logging = {}
      /\ pc[h] = "logging" => Logging = {h}
      /\ pc'[h] # "logging" => Logging' = {}
      /\ pc'[h] = "logging" => Logging' = {h}
  BY <1>1 DEF Logging
<1>3. QED
  BY <1>2 DEF Pending

\* An eval adds a run whose rows nobody has ruled on.
LEMMA EvalLeavesNone ==
  ASSUME WorldInv, TrailInv, NewRun
  PROVE  Unlogged' \subseteq Unlogged /\ Pending' = Pending
<1>1. Pending' = Pending
  BY Apart DEF Pending, Logging
<1>2. PICK judge \in [Rows -> Verdicts \cup {NoVerdict}] :
        runs' = Append(runs, [judge |-> judge, human |-> [r \in Rows |-> NoVerdict]])
  BY DEF NewRun
<1> DEFINE n == Len(runs)
<1>3. /\ DOMAIN runs = 1..n /\ DOMAIN runs' = 1..(n + 1) /\ n \in Nat
      /\ \A i \in 1..n : runs'[i] = runs[i]
      /\ runs'[n + 1].human = [r \in Rows |-> NoVerdict]
  BY <1>2 DEF WorldInv
<1>4. calibration' = calibration
  BY Apart
<1> HIDE DEF n
<1>5. \A row : LastIn(calibration, n + 1, row) = NoVerdict
  <2>1. n + 1 \notin DOMAIN runs
    BY <1>3
  <2>2. \A i \in DOMAIN calibration : calibration[i].run # n + 1
    BY <2>1 DEF TrailInv
  <2>3. QED
    BY <2>2, NoneYet
<1>6. ASSUME NEW x \in Unlogged'
      PROVE  x \in Unlogged
  <2>1. /\ x \in (1..(n + 1)) \X Rows
        /\ runs'[x[1]].judge[x[2]] # NoVerdict
        /\ runs'[x[1]].human[x[2]] # LastIn(calibration, x[1], x[2])
    BY <1>3, <1>4, <1>6, UnloggedIs
  <2>2. x[1] # n + 1
    BY <1>3, <1>5, <2>1
  <2>3. x[1] \in 1..n
    BY <1>3, <2>1, <2>2
  <2>4. runs'[x[1]] = runs[x[1]]
    BY <1>3, <2>3
  <2>5. x \in (DOMAIN runs) \X Rows
    BY <1>3, <2>1, <2>3
  <2>6. QED
    BY <2>1, <2>4, <2>5, UnloggedIs
<1>7. QED
  BY <1>1, <1>6

\* A verdict written into the run read just before is one about to be logged, if its row was
\* judged, and the other rows are as they were.
LEMMA SaveLeavesNone ==
  ASSUME WorldInv, \A g \in Handlers : Holds(g), AloneInv, AlignedInv, Next, ~overlapped',
         NEW h \in Handlers, SaveRun(h)
  PROVE  Unlogged' \ Pending' \subseteq Unlogged \ Pending
<1>1. pc[h] = "saving" /\ Holds(h) /\ copy[h].run = runs[copy[h].n] /\ copy[h].n \in DOMAIN runs
  BY OverlapStays DEF SaveRun, AlignedInv, FreshInv, Holds, JudgedInv
<1>2. Handle(h)
  BY DEF Handle
<1>3. Pending = {}
  BY <1>1, <1>2, PendingIs
<1>4. PICK w \in Run :
        /\ Len(runs') = Len(runs) /\ runs' \in Seq(Run) /\ runs'[copy[h].n] = w
        /\ \A n \in DOMAIN runs \ {copy[h].n} : runs'[n] = runs[n]
        /\ w.judge = runs[copy[h].n].judge
        /\ \A r \in Rows \ {req[h].row} : w.human[r] = copy[h].run.human[r]
  BY <1>1, RunSaved
<1>5. DOMAIN runs' = DOMAIN runs /\ calibration' = calibration
  BY <1>4 DEF SaveRun, WorldInv
<1>6. ASSUME NEW x \in Unlogged', x \notin Pending'
      PROVE  x \in Unlogged
  <2>1. /\ x \in (DOMAIN runs) \X Rows
        /\ runs'[x[1]].judge[x[2]] # NoVerdict
        /\ runs'[x[1]].human[x[2]] # LastIn(calibration, x[1], x[2])
    BY <1>5, <1>6, UnloggedIs
  <2>2. x # <<copy[h].n, req[h].row>>
    <3>1. SUFFICES ASSUME x = <<copy[h].n, req[h].row>>
                   PROVE  FALSE
      OBVIOUS
    <3>2. copy[h].run.judge[req[h].row] # NoVerdict
      BY <1>1, <1>4, <2>1, <3>1
    <3>3. pc' = [pc EXCEPT ![h] = "logging"] /\ req' = req /\ copy' = copy
      BY <3>2 DEF SaveRun, Goto
    <3>4. pc'[h] = "logging" /\ req'[h] = req[h] /\ copy'[h] = copy[h]
      BY <3>3 DEF WorldInv
    <3>5. Pending' = {x}
      BY <1>2, <3>1, <3>4, PendingIs
    <3>6. QED
      BY <1>6, <3>5
  <2>3. runs'[x[1]].judge = runs[x[1]].judge
    BY <1>4, <2>1
  <2>4. runs'[x[1]].human[x[2]] = runs[x[1]].human[x[2]]
    <3>1. CASE x[1] = copy[h].n
      <4>1. x[2] \in Rows \ {req[h].row}
        BY <2>1, <2>2, <3>1
      <4>2. QED
        BY <1>1, <1>4, <3>1, <4>1
    <3>2. CASE x[1] # copy[h].n
      BY <1>4, <2>1, <3>2
    <3>3. QED
      BY <3>1, <3>2
  <2>5. QED
    BY <2>1, <2>3, <2>4, UnloggedIs
<1>7. QED
  BY <1>3, <1>6

\* A ruling that is logged is the verdict in the run.
LEMMA LogLeavesNone ==
  ASSUME WorldInv, \A g \in Handlers : Holds(g), AloneInv, AlignedInv, Next, ~overlapped',
         NEW h \in Handlers, LogRuling(h)
  PROVE  Unlogged' \ Pending' \subseteq Unlogged \ Pending
<1>1. /\ pc[h] = "logging" /\ Holds(h) /\ Handle(h)
      /\ runs[copy[h].n].human[req[h].row] = VerdictOf(req[h], copy[h].run)
  BY OverlapStays DEF LogRuling, AlignedInv, FreshInv, Handle
<1>2. Pending = {<<copy[h].n, req[h].row>>}
  BY <1>1, PendingIs
<1>3. PICK y \in Ruling :
        /\ calibration' = Append(calibration, y) /\ runs' = runs
        /\ y.run = copy[h].n /\ y.row = req[h].row
        /\ y.human = VerdictOf(req[h], copy[h].run)
  BY <1>1, RulingIsOne DEF LogRuling
<1>4. ASSUME NEW x \in Unlogged'
      PROVE  x \in Unlogged \ Pending
  <2>1. /\ x \in (DOMAIN runs) \X Rows
        /\ runs[x[1]].judge[x[2]] # NoVerdict
        /\ runs[x[1]].human[x[2]] # LastIn(calibration', x[1], x[2])
    BY <1>3, <1>4, UnloggedIs
  <2>2. LastIn(calibration', x[1], x[2]) =
          IF y.run = x[1] /\ y.row = x[2] THEN y.human ELSE LastIn(calibration, x[1], x[2])
    BY <1>3, LastAppended DEF WorldInv
  <2>3. ~(y.run = x[1] /\ y.row = x[2])
    BY <1>1, <1>3, <2>1, <2>2
  <2>4. x \notin Pending
    BY <1>2, <1>3, <2>3
  <2>5. QED
    BY <2>1, <2>2, <2>3, <2>4, UnloggedIs
<1>5. QED
  BY <1>4

\* The other steps of a handler have nothing to do with the judged rows.
LEMMA ElsewhereLeavesNone ==
  ASSUME WorldInv, AloneInv, Next, ~overlapped', NEW h \in Handlers, Handle(h),
         ~SaveRun(h), ~LogRuling(h), ~Kill(h)
  PROVE  Unlogged' = Unlogged /\ Pending = {} /\ Pending' = {} /\ kills' = kills
<1>1. runs' = runs /\ calibration' = calibration /\ kills' = kills
  BY DEF Handle, Arrive, Look, Ground, CheckIds, ReadDev, AppendDev, LoadQueue, SaveQueue,
    LoadRun, files, unchangedByHandler
<1>2. pc[h] # "logging"
  BY DEF Handle, Arrive, Busy, Look, Ground, CheckIds, ReadDev, AppendDev, LoadQueue, SaveQueue,
    LoadRun
<1>3. pc'[h] # "logging"
  <2>1. CASE Arrive(h)
    <3>1. PICK r \in Requests : pc' = [pc EXCEPT ![h] = FirstStep(r)]
      BY <2>1 DEF Arrive, Goto
    <3>2. FirstStep(r) # "logging"
      BY RequestHas DEF FirstStep
    <3>3. QED
      BY <3>1, <3>2 DEF WorldInv
  <2>2. CASE Reply(h)
    BY <2>2, Replied
  <2>3. CASE ~Arrive(h) /\ ~Reply(h)
    BY <2>3 DEF Handle, Look, Ground, CheckIds, ReadDev, AppendDev, LoadQueue, SaveQueue,
      LoadRun, Goto, WorldInv
  <2>4. QED
    BY <2>1, <2>2, <2>3
<1>4. QED
  BY <1>1, <1>2, <1>3, PendingIs, UnloggedIs

LEMMA LeftStep ==
  ASSUME WorldInv, \A h \in Handlers : Holds(h), TrailInv, AloneInv, AlignedInv, LeftBehind, Next
  PROVE  LeftBehind'
<1> SUFFICES ASSUME ~overlapped'
             PROVE  Cardinality(Unlogged' \ Pending') <= kills'
  BY DEF LeftBehind
<1>1. /\ IsFiniteSet(Unlogged \ Pending)
      /\ Cardinality(Unlogged \ Pending) <= kills
      /\ Cardinality(Unlogged \ Pending) \in Nat /\ kills \in Nat
  BY FiniteRows, FS_Subset, FS_CardinalityType, OverlapStays DEF LeftBehind, WorldInv
<1>2. CASE Unlogged' \ Pending' \subseteq Unlogged \ Pending /\ kills' = kills
  <2> DEFINE U == Unlogged \ Pending  V == Unlogged' \ Pending'
  <2>1. V \in SUBSET U /\ IsFiniteSet(U)
    BY <1>1, <1>2
  <2> HIDE DEF U, V
  <2>2. /\ IsFiniteSet(V) /\ Cardinality(V) <= Cardinality(U)
        /\ Cardinality(V) \in Nat
    BY <2>1, FS_Subset, FS_CardinalityType
  <2>3. Cardinality(U) <= kills /\ Cardinality(U) \in Nat /\ kills \in Nat
    BY <1>1 DEF U
  <2>4. Cardinality(V) <= kills
    BY <2>2, <2>3
  <2>5. QED
    BY <1>2, <2>4 DEF V
<1>3. ASSUME NEW h \in Handlers, Kill(h)
      PROVE  Cardinality(Unlogged' \ Pending') <= kills'
  <2>1. Handle(h) /\ kills' = kills + 1 /\ runs' = runs /\ calibration' = calibration
    BY <1>3 DEF Kill, Handle, files
  <2>2. Pending' = {} /\ Unlogged' = Unlogged
    BY <1>3, <2>1, Replied, PendingIs, UnloggedIs DEF Kill
  <2>3. PICK p : Pending \subseteq {p}
    BY <2>1, PendingIs
  <2> DEFINE U == Unlogged \ Pending  V == Unlogged' \ Pending'
  <2>4. V \in SUBSET (U \cup {p}) /\ IsFiniteSet(U)
    BY <1>1, <2>2, <2>3
  <2> HIDE DEF U, V
  <2>5. /\ IsFiniteSet(U \cup {p}) /\ Cardinality(U \cup {p}) \in Nat
        /\ Cardinality(U) \in Nat
        /\ Cardinality(U \cup {p}) = IF p \in U THEN Cardinality(U) ELSE Cardinality(U) + 1
    BY <2>4, FS_AddElement, FS_CardinalityType
  <2>6. Cardinality(U \cup {p}) <= Cardinality(U) + 1
    BY <2>5
  <2>7. Cardinality(V) <= Cardinality(U \cup {p}) /\ Cardinality(V) \in Nat
    BY <2>4, <2>5, FS_Subset, FS_CardinalityType
  <2>8. Cardinality(U) <= kills /\ kills \in Nat
    BY <1>1 DEF U
  <2>9. Cardinality(V) <= kills + 1
    BY <2>5, <2>6, <2>7, <2>8
  <2>10. QED
    BY <2>1, <2>9 DEF V
<1>4. CASE NewRun
  <2>1. kills' = kills
    BY <1>4 DEF NewRun, unchangedByHandler
  <2>2. QED
    BY <1>2, <1>4, <2>1, EvalLeavesNone
<1>5. CASE HandAdd
  <2>1. Unlogged' = Unlogged /\ Pending' = Pending /\ kills' = kills
    BY <1>5 DEF HandAdd, local, Unlogged, LastRuling, Pending, Logging
  <2>2. QED
    BY <1>2, <2>1
<1>6. ASSUME NEW h \in Handlers, SaveRun(h) \/ LogRuling(h)
      PROVE  Cardinality(Unlogged' \ Pending') <= kills'
  <2>1. kills' = kills
    BY <1>6 DEF SaveRun, LogRuling, unchangedByHandler
  <2>2. QED
    BY <1>2, <1>6, <2>1, SaveLeavesNone, LogLeavesNone
<1>7. ASSUME NEW h \in Handlers, Handle(h), ~SaveRun(h), ~LogRuling(h), ~Kill(h)
      PROVE  Cardinality(Unlogged' \ Pending') <= kills'
  BY <1>2, <1>7, ElsewhereLeavesNone
<1>8. QED
  BY <1>3, <1>4, <1>5, <1>6, <1>7 DEF Next


-----------------------------------------------------------------------------
(* The theorems                                                            *)

LEMMA Still == Inv /\ UNCHANGED vars => Inv'
<1> SUFFICES ASSUME Inv, UNCHANGED vars
             PROVE  Inv'
  OBVIOUS
<1> USE DEF vars, files, local
<1>1. WorldInv'
  BY DEF Inv, WorldInv
<1>2. \A h \in Handlers : Holds(h)'
  BY DEF Inv, Holds, AskedInv, RanInv, StatusInv, DraftInv, JudgedInv, Requests
<1>3. TrailInv' /\ AloneInv' /\ DistinctInv' /\ GoldenInv'
  BY DEF Inv, TrailInv, AloneInv, Busy, DistinctInv, GoldenInv
<1>4. AlignedInv'
  BY DEF Inv, AlignedInv, FreshInv
<1>5. LeftBehind'
  <2>1. Unlogged' = Unlogged /\ Pending' = Pending
    BY DEF Unlogged, LastRuling, Pending, Logging
  <2>2. QED
    BY <2>1 DEF Inv, LeftBehind
<1>6. QED
  BY <1>1, <1>2, <1>3, <1>4, <1>5 DEF Inv

LEMMA InvStep == Inv /\ [Next]_vars => Inv'
<1>1. ASSUME Inv, Next
      PROVE  Inv'
  <2>1. /\ WorldInv /\ (\A h \in Handlers : Holds(h)) /\ TrailInv /\ AloneInv
        /\ DistinctInv /\ GoldenInv /\ AlignedInv /\ LeftBehind
    BY <1>1 DEF Inv
  <2>2. WorldInv'
    BY <1>1, <2>1, WorldStep
  <2>3. \A h \in Handlers : Holds(h)'
    BY <1>1, <2>1, HoldsStep
  <2>4. TrailInv' /\ AloneInv'
    BY <1>1, <2>1, TrailStep, AloneStep
  <2>5. DistinctInv' /\ GoldenInv' /\ AlignedInv'
    BY <1>1, <2>1, DistinctStep, GoldenStep, AlignedStep
  <2>6. LeftBehind'
    BY <1>1, <2>1, LeftStep
  <2>7. QED
    BY <2>2, <2>3, <2>4, <2>5, <2>6 DEF Inv
<1>2. QED
  BY <1>1, Still

LEMMA SpecInv == Spec => []Inv
BY InvInit, InvStep, PTL DEF Spec

\* Every variable keeps its type, and a handler has the request and the candidate its step
\* works with, whatever overlaps.
THEOREM TypeCorrect == Spec => []TypeOK
<1>1. Inv => TypeOK
  BY DEF Inv, WorldInv, Holds, AskedInv, WithCandidate, TypeOK
<1>2. QED
  BY <1>1, SpecInv, PTL

\* As long as the reviewer waits for each reply, what the queue calls accepted is in the
\* golden set, and the golden set has every id once.
THEOREM AcceptedStaysGolden == Spec => []AcceptedIsGolden
<1>1. Inv => AcceptedIsGolden
  BY DEF Inv, GoldenInv, DistinctInv, AcceptedIsGolden
<1>2. QED
  BY <1>1, SpecInv, PTL

\* The trail tells what was ruled, and on which suggestion; as long as the reviewer waits for
\* each reply, only handlers that were stopped leave a verdict without its ruling.
THEOREM TheTrailHolds == Spec => []TrailIsTrue
<1>1. Inv => TrailIsTrue
  <2> SUFFICES ASSUME Inv
               PROVE  TrailIsTrue
    OBVIOUS
  <2>1. WorldInv /\ TrailInv /\ AloneInv /\ LeftBehind
    BY DEF Inv
  <2>2. ASSUME ~overlapped
        PROVE  Cardinality(Unlogged) <= kills + Cardinality(Logging)
    <3>1. \A g, h \in Logging : g = h
      BY <2>1, <2>2 DEF AloneInv, Busy, Logging
    <3>2. /\ IsFiniteSet(Unlogged) /\ IsFiniteSet(Unlogged \ Pending)
          /\ Cardinality(Unlogged \ Pending) <= kills
          /\ Cardinality(Unlogged \ Pending) \in Nat /\ kills \in Nat
      BY <2>1, <2>2, FiniteRows, FS_Subset, FS_CardinalityType DEF LeftBehind, WorldInv
    <3>3. CASE Logging = {}
      <4>1. Unlogged \ Pending = Unlogged /\ Cardinality(Logging) = 0
        BY <3>3, FS_EmptySet DEF Pending
      <4>2. Cardinality(Unlogged) <= kills
        BY <3>2, <4>1
      <4>3. kills + 0 = kills
        BY <3>2
      <4>4. QED
        BY <4>1, <4>2, <4>3
    <3>4. CASE Logging # {}
      <4>1. PICK h \in Logging : Logging = {h}
        BY <3>1, <3>4
      <4>2. Cardinality(Logging) = 1
        BY <4>1, FS_Singleton
      <4> DEFINE p == <<copy[h].n, req[h].row>>  U == Unlogged \ Pending
      <4>3. Pending = {p}
        BY <4>1 DEF Pending
      <4>4. Unlogged \in SUBSET (U \cup {p}) /\ IsFiniteSet(U)
        BY <3>2, <4>3
      <4>5. Cardinality(U) <= kills /\ kills \in Nat
        BY <3>2
      <4> HIDE DEF p, U
      <4>6. /\ IsFiniteSet(U \cup {p}) /\ Cardinality(U \cup {p}) \in Nat
            /\ Cardinality(U) \in Nat
            /\ Cardinality(U \cup {p}) = IF p \in U THEN Cardinality(U) ELSE Cardinality(U) + 1
        BY <4>4, FS_AddElement, FS_CardinalityType
      <4>7. Cardinality(U \cup {p}) <= Cardinality(U) + 1
        BY <4>6
      <4>8. Cardinality(Unlogged) <= Cardinality(U \cup {p}) /\ Cardinality(Unlogged) \in Nat
        BY <3>2, <4>4, <4>6, FS_Subset, FS_CardinalityType
      <4>9. Cardinality(Unlogged) <= kills + 1
        BY <4>5, <4>6, <4>7, <4>8
      <4>10. QED
        BY <4>2, <4>9
    <3>5. QED
      BY <3>3, <3>4
  <2>3. QED
    BY <2>1, <2>2 DEF TrailIsTrue, TrailInv, Unlogged, Logging
<1>2. QED
  BY <1>1, SpecInv, PTL

\* No step puts a question into dev.yaml whose SQL, as edited, was not executed first or that
\* nobody wrote by hand; and as long as requests wait for each other no step takes one out.
THEOREM DevOnlyGrows == Spec => DevGrowsByWhatRan
<1> DEFINE Grows ==
      /\ \A q \in Question : Contains(dev', q) => Contains(dev, q) \/ q \in ran \cup byHand'
      /\ ~overlapped' => IsPrefix(dev, dev')
<1>1. Inv /\ [Next]_vars => [Grows]_vars
  <2> SUFFICES ASSUME Inv, Next
               PROVE  Grows
    OBVIOUS
  <2>1. WorldInv /\ (\A h \in Handlers : Holds(h)) /\ AloneInv /\ AlignedInv
    BY DEF Inv
  <2>2. ASSUME NEW q \in Question, Contains(dev', q)
        PROVE  Contains(dev, q) \/ q \in ran \cup byHand'
    <3>1. CASE dev' = dev
      BY <2>2, <3>1
    <3>2. CASE ran' = ran
      BY <2>1, <2>2, <3>2, DevChanges
    <3>3. QED
      BY <3>1, <3>2 DEF Next, Handle, NewRun, HandAdd, Arrive, Look, Ground, CheckIds, ReadDev,
        AppendDev, LoadQueue, SaveQueue, LoadRun, SaveRun, LogRuling, Kill, files
  <2>3. ASSUME ~overlapped'
        PROVE  IsPrefix(dev, dev')
    <3>1. dev \in Seq(Question)
      BY <2>1 DEF WorldInv
    <3>2. CASE dev' = dev
      BY <3>1, <3>2 DEF IsPrefix
    <3>3. ASSUME NEW q \in Question, dev' = Append(dev, q)
          PROVE  IsPrefix(dev, dev')
      <4>1. /\ Len(dev') = Len(dev) + 1 /\ Len(dev) \in Nat
            /\ \A i \in 1..Len(dev) : dev'[i] = dev[i]
        BY <3>1, <3>3
      <4>2. SubSeq(dev, 1, Len(dev)) = SubSeq(dev', 1, Len(dev))
        BY <3>1, <4>1
      <4>3. QED
        BY <4>1, <4>2 DEF IsPrefix
    <3>4. QED
      BY <2>1, <2>3, <3>2, <3>3, DevAppends
  <2>4. QED
    BY <2>2, <2>3
<1>2. QED
  BY <1>1, SpecInv, PTL DEF Spec, DevGrowsByWhatRan
=============================================================================
