------------------------------ MODULE CoachDesk ------------------------------
(***************************************************************************)
(* What happens around a Coach report: `sqbyl coach' and `sqbyl coach      *)
(* --from-test-failure' pay for one and save it; `sqbyl coach apply' and a *)
(* coach card of the review console (the same steps with one pick and no   *)
(* --force) write its proposals into context files and stamp them; people  *)
(* edit those files, or put them back with git, at any time.               *)
(*                                                                         *)
(* A context file is a sequence of blocks: 0 is hand-written, a positive   *)
(* block is what the edit of one proposal writes; an absent file and an    *)
(* empty one are the same.  A proposal has one edit, whose `find' is empty *)
(* or any one block, hand-written or of an earlier proposal, and whose     *)
(* `replace' keeps that block or not.  Schema checks of semantics files,   *)
(* edits that only delete, budgets, ranking and printing are left out.     *)
(* Commands run in processes of their own, and one read or one write of a  *)
(* file is atomic.                                                         *)
(***************************************************************************)
EXTENDS Naturals, FiniteSets, Sequences, SequencesExt

CONSTANTS
  Clerks,        \* processes and console threads that run commands
  Files,         \* writable context files
  Listed,        \* those of them that validation lists
  Unsafe,        \* any other target
  Items,         \* questions of the held-out test set
  MaxCommands,   \* bound: commands
  MaxKills,      \* bound: commands that are killed or raise
  MaxRuns,       \* bound: dev evals with failures
  MaxProposals,  \* bound: proposals in one report
  MaxHands       \* bound: edits by hand

ASSUME CoachDeskAssumption ==
  /\ IsFiniteSet(Clerks) /\ Unsafe \notin Files /\ Listed \subseteq Files
  /\ Items \cap Nat = {}
  /\ {MaxCommands, MaxKills, MaxRuns, MaxProposals, MaxHands} \subseteq Nat

Blocks == 0..(MaxCommands * MaxProposals)
Texts  == Seq(Blocks)

\* What the model answers.  Its target may be spelled in another way than the listing has it.
Answer   == [file : Files \cup {Unsafe}, exact : BOOLEAN,
             edit : {"append", "insert", "replace"}, anchor : Blocks]

Proposal == [file : Files \cup {Unsafe}, edit : {"none", "append", "insert", "replace"},
             anchor : Blocks, block : Blocks \ {0}, seen : Texts, applied : BOOLEAN]
Report   == [about : 1..MaxRuns \cup Items, proposals : Seq(Proposal)]

MaxPicks == 2    \* bound: proposals one `coach apply' is given

Commands ==
       [kind : {"coach"}, regenerate : BOOLEAN]
  \cup [kind : {"heldout"}, item : Items]
  \cup [kind : {"apply"}, picks : UNION {[1..k -> 1..MaxProposals] : k \in 1..MaxPicks},
        force : BOOLEAN]

VARIABLES
  text,        \* the context files
  committed,   \* what git would put back
  reports,     \* .sqbyl/coach/*.json, by creation time
  quarantine,  \* .sqbyl/heldout_quarantine.json
  runs,        \* dev evals so far; the latest one is number runs
  clock,       \* creation time of the last report, and how many were drafted
  pc, job,     \* where each clerk stands, and its command
  desk,        \* what it holds in memory
  commands, kills, hands,
  paid,        \* history: Coach calls billed for each dev run
  again,       \* history: --regenerate used
  forced,      \* history: blocks written with --force
  replaced,    \* history: blocks an edit that was written has taken the place of
  touched,     \* history: files edited by hand
  overlapped   \* history: two commands were under way at the same time

disk  == <<text, committed, reports, quarantine, runs>>
local == <<pc, job, desk>>
hist  == <<paid, again, forced, replaced, touched>>
vars  == <<disk, clock, local, commands, kills, hands, hist, overlapped>>

Steps == {"idle", "asking", "calling", "drafting", "saving", "quarantining", "marking",
          "loading", "picking", "writing"}

TypeOK ==
  /\ text \in [Files -> Texts] /\ committed \in [Files -> Texts]
  /\ DOMAIN reports \subseteq 1..clock
  /\ \A n \in DOMAIN reports : reports[n] \in Report
  /\ quarantine \subseteq Items
  /\ runs \in 0..MaxRuns /\ clock \in 0..MaxCommands
  /\ pc \in [Clerks -> Steps]
  /\ \A c \in Clerks : pc[c] # "idle" => job[c] \in Commands
  /\ \A c \in Clerks :
       pc[c] \in {"saving", "picking", "writing"} =>
         desk[c].stamp \in 1..clock /\ desk[c].report \in Report
  /\ commands \in 0..MaxCommands /\ kills \in 0..MaxKills /\ hands \in 0..MaxHands
  /\ paid \in [1..MaxRuns -> Nat]
  /\ again \in Nat /\ forced \subseteq Blocks /\ replaced \subseteq Blocks
  /\ touched \subseteq Files
  /\ overlapped \in BOOLEAN

Busy(c) == pc[c] # "idle"

Goto(c, step) == pc' = [pc EXCEPT ![c] = step]

\* The command ends: nothing of it stays in memory.
Done(c) ==
  /\ Goto(c, "idle")
  /\ job'  = [job EXCEPT ![c] = << >>]
  /\ desk' = [desk EXCEPT ![c] = << >>]

Hold(c, value) == desk' = [desk EXCEPT ![c] = value]

-----------------------------------------------------------------------------
(* Files and edits                                                         *)

Count(b, t) == Cardinality({i \in DOMAIN t : t[i] = b})

\* latest_report
Latest == CHOOSE n \in DOMAIN reports : \A k \in DOMAIN reports : k <= n

\* _try_apply_one: an edit with an anchor needs it exactly once in the text.
Anchored(e) == e.edit \in {"insert", "replace"}
Fits(e, t)  == Anchored(e) => Count(e.anchor, t) = 1

FaultyCanApply(p, t, force) == p.edit # "none" /\ p.file # Unsafe /\ Fits(p, t)

\* apply_proposal: an edit that fits, a writable target, no drift from the recorded text.
\* The empty fingerprint is not compared.
CanApply(p, t, force) ==
  /\ p.edit # "none" /\ p.file # Unsafe
  /\ force \/ p.seen = << >> \/ t = p.seen
  /\ Fits(p, t)

\* _apply_edits
Applied(p, t) ==
  IF p.edit = "append" THEN Append(t, p.block)
  ELSE LET k == CHOOSE i \in DOMAIN t : t[i] = p.anchor
       IN IF p.edit = "replace" THEN [t EXCEPT ![k] = p.block]
                                ELSE InsertAt(t, k + 1, p.block)

\* _validate_proposal: files.get(target, "") knows a file by the name it is listed under,
\* and has nothing for any other target, whatever is in that file.
Named(d)  == IF d.exact /\ d.file \in Listed THEN text[d.file] ELSE << >>
Owners(d) == {f \in Listed : Fits(d, text[f])}

\* An anchor that is not once in the named file, but once in exactly one listed file,
\* moves the proposal there.
Moves(d) == Anchored(d) /\ ~Fits(d, Named(d)) /\ Cardinality(Owners(d)) = 1

\* An edit that still does not fit is dropped.  The fingerprint is that of the text
\* the edit was tried on.
Validated(d, block) ==
  LET file == IF Moves(d) THEN CHOOSE f \in Owners(d) : TRUE ELSE d.file
      now  == IF Moves(d) THEN text[file] ELSE Named(d)
      keep == Fits(d, now)
  IN [file |-> file, edit |-> IF keep THEN d.edit ELSE "none",
      anchor |-> IF keep /\ Anchored(d) THEN d.anchor ELSE 0,
      block |-> block, seen |-> now, applied |-> FALSE]

-----------------------------------------------------------------------------
(* Commands, people, evals                                                 *)

Init ==
  /\ text \in [Files -> {<< >>, <<0>>}]
  /\ committed = text
  /\ reports = << >> /\ quarantine = {}
  /\ runs = 0 /\ clock = 0
  /\ pc = [c \in Clerks |-> "idle"]
  /\ job = [c \in Clerks |-> << >>]
  /\ desk = [c \in Clerks |-> << >>]
  /\ commands = 0 /\ kills = 0 /\ hands = 0
  /\ paid = [n \in 1..MaxRuns |-> 0]
  /\ again = 0 /\ forced = {} /\ replaced = {} /\ touched = {}
  /\ overlapped = FALSE

Start(c) ==
  /\ ~Busy(c)
  /\ commands < MaxCommands
  /\ commands' = commands + 1
  /\ \E cmd \in Commands :
       /\ job' = [job EXCEPT ![c] = cmd]
       /\ Goto(c, IF cmd.kind = "apply" THEN "loading" ELSE "asking")
  /\ overlapped' = (overlapped \/ \E d \in Clerks : Busy(d))
  /\ UNCHANGED <<disk, clock, desk, kills, hands, hist>>

\* Somebody adds a line to a context file, or puts it back with git checkout.
HandEdit(f) ==
  /\ hands < MaxHands
  /\ hands' = hands + 1
  /\ \E t \in {Append(text[f], 0), committed[f]} : text' = [text EXCEPT ![f] = t]
  /\ touched' = touched \cup {f}
  /\ UNCHANGED <<committed, reports, quarantine, runs, clock, local, commands, kills,
                 paid, again, forced, replaced, overlapped>>

\* `sqbyl eval dev' saves a run with failures.
DevEval ==
  /\ runs < MaxRuns
  /\ runs' = runs + 1
  /\ UNCHANGED <<text, committed, reports, quarantine, clock, local, commands, kills, hands,
                 hist, overlapped>>

unchangedByClerk == <<committed, runs, commands, kills, hands, touched, overlapped>>

-----------------------------------------------------------------------------
(* coach, coach --from-test-failure                                        *)

FaultyReuse(c) == FALSE

\* The latest report is about the latest dev run: it is shown and nothing is spent.
Reuse(c) ==
  /\ job[c].kind = "coach" /\ ~job[c].regenerate
  /\ reports # << >> /\ reports[Latest].about = runs

FaultyAsk(c) ==
  /\ pc[c] = "asking"
  /\ IF Reuse(c)
     THEN Done(c)
     ELSE /\ Hold(c, [about |-> IF job[c].kind = "coach" THEN runs ELSE job[c].item])
          /\ Goto(c, "calling")
          /\ UNCHANGED job
  /\ UNCHANGED <<text, reports, quarantine, clock, paid, again, forced, replaced,
                 unchangedByClerk>>

\* No dev run, or a report to reuse; otherwise the prompt is rendered from the
\* files as they are.  (A failing test row to look at is taken to exist.)
Ask(c) ==
  /\ pc[c] = "asking"
  /\ IF job[c].kind = "coach" /\ (runs = 0 \/ Reuse(c))
     THEN Done(c)
     ELSE /\ Hold(c, [about |-> IF job[c].kind = "coach" THEN runs ELSE job[c].item])
          /\ Goto(c, "calling")
          /\ UNCHANGED job
  /\ UNCHANGED <<text, reports, quarantine, clock, paid, again, forced, replaced,
                 unchangedByClerk>>

\* The one paid call.
Call(c) ==
  /\ pc[c] = "calling"
  /\ paid' = IF job[c].kind = "coach"
             THEN [paid EXCEPT ![desk[c].about] = @ + 1] ELSE paid
  /\ again' = IF job[c].kind = "coach" /\ job[c].regenerate THEN again + 1 ELSE again
  /\ Goto(c, "drafting")
  /\ UNCHANGED <<text, reports, quarantine, clock, job, desk, forced, replaced,
                 unchangedByClerk>>

\* The answer becomes a report, validated against the files as they are by now.
Draft(c) ==
  /\ pc[c] = "drafting"
  /\ clock' = clock + 1
  /\ \E n \in 0..MaxProposals :
     \E drafts \in [1..n -> Answer] :
       Hold(c, [stamp |-> clock + 1,
                report |-> [about |-> desk[c].about,
                            proposals |-> [i \in 1..n |->
                              Validated(drafts[i], clock * MaxProposals + i)]]])
  /\ Goto(c, "saving")
  /\ UNCHANGED <<text, reports, quarantine, job, paid, again, forced, replaced,
                 unchangedByClerk>>

\* save_report, after the call was metered; a dev report ends the command.
Save(c) ==
  /\ pc[c] = "saving"
  /\ reports' = [n \in DOMAIN reports \cup {desk[c].stamp} |->
                   IF n = desk[c].stamp THEN desk[c].report ELSE reports[n]]
  /\ IF job[c].kind = "coach" THEN Done(c)
     ELSE Goto(c, "quarantining") /\ UNCHANGED <<job, desk>>
  /\ UNCHANGED <<text, quarantine, clock, paid, again, forced, replaced, unchangedByClerk>>

\* record_quarantine reads the list
LoadQuarantine(c) ==
  /\ pc[c] = "quarantining"
  /\ Hold(c, [ids |-> quarantine])
  /\ Goto(c, "marking")
  /\ UNCHANGED <<text, reports, quarantine, clock, job, paid, again, forced, replaced,
                 unchangedByClerk>>

\* and writes it back with the item.
Quarantine(c) ==
  /\ pc[c] = "marking"
  /\ quarantine' = desk[c].ids \cup {job[c].item}
  /\ Done(c)
  /\ UNCHANGED <<text, reports, clock, paid, again, forced, replaced, unchangedByClerk>>

-----------------------------------------------------------------------------
(* coach apply, a coach card                                               *)

Load(c) ==
  /\ pc[c] = "loading"
  /\ IF reports = << >>
     THEN Done(c)
     ELSE /\ Hold(c, [stamp |-> Latest, report |-> reports[Latest],
                      picks |-> job[c].picks, changed |-> FALSE])
          /\ Goto(c, "picking")
          /\ UNCHANGED job
  /\ UNCHANGED <<text, reports, quarantine, clock, paid, again, forced, replaced,
                 unchangedByClerk>>

Picked(c) == desk[c].report.proposals[Head(desk[c].picks)]

\* A number the report has, and a proposal that is not stamped (or --force).
Wanted(c) ==
  /\ Head(desk[c].picks) <= Len(desk[c].report.proposals)
  /\ job[c].force \/ ~Picked(c).applied

FaultyPick(c) ==
  /\ pc[c] = "picking" /\ desk[c].picks # << >>
  /\ IF Wanted(c) /\ Picked(c).file # Unsafe
     THEN /\ Hold(c, [stamp |-> desk[c].stamp, report |-> desk[c].report,
                      picks |-> desk[c].picks, changed |-> desk[c].changed,
                      after |-> IF CanApply(Picked(c), text[Picked(c).file], job[c].force)
                                THEN Applied(Picked(c), text[Picked(c).file])
                                ELSE text[Picked(c).file]])
          /\ Goto(c, "writing")
     ELSE /\ Hold(c, [desk[c] EXCEPT !.picks = Tail(@)])
          /\ UNCHANGED pc
  /\ UNCHANGED <<text, reports, quarantine, clock, job, paid, again, forced, replaced,
                 unchangedByClerk>>

\* apply_proposal reads its file and computes the new text; what it refuses is
\* reported and the next pick is taken.
Pick(c) ==
  /\ pc[c] = "picking" /\ desk[c].picks # << >>
  /\ IF Wanted(c) /\ Picked(c).file # Unsafe
        /\ CanApply(Picked(c), text[Picked(c).file], job[c].force)
     THEN /\ Hold(c, [stamp |-> desk[c].stamp, report |-> desk[c].report,
                      picks |-> desk[c].picks, changed |-> desk[c].changed,
                      after |-> Applied(Picked(c), text[Picked(c).file])])
          /\ Goto(c, "writing")
     ELSE /\ Hold(c, [desk[c] EXCEPT !.picks = Tail(@)])
          /\ UNCHANGED pc
  /\ UNCHANGED <<text, reports, quarantine, clock, job, paid, again, forced, replaced,
                 unchangedByClerk>>

\* The file is written, and the proposal stamped in memory.
Write(c) ==
  /\ pc[c] = "writing"
  /\ text' = [text EXCEPT ![Picked(c).file] = desk[c].after]
  /\ forced' = IF job[c].force THEN forced \cup {Picked(c).block} ELSE forced
  /\ replaced' = IF Picked(c).edit = "replace" THEN replaced \cup {Picked(c).anchor} ELSE replaced
  /\ Hold(c, [stamp |-> desk[c].stamp, changed |-> TRUE, picks |-> Tail(desk[c].picks),
              report |-> [desk[c].report EXCEPT
                            !.proposals[Head(desk[c].picks)].applied = TRUE]])
  /\ Goto(c, "picking")
  /\ UNCHANGED <<reports, quarantine, clock, job, paid, again, unchangedByClerk>>

\* The stamps are saved once, at the end, over the report that was loaded.
Stamp(c) ==
  /\ pc[c] = "picking" /\ desk[c].picks = << >>
  /\ reports' = IF desk[c].changed
                THEN [reports EXCEPT ![desk[c].stamp] = desk[c].report]
                ELSE reports
  /\ Done(c)
  /\ UNCHANGED <<text, quarantine, clock, paid, again, forced, replaced, unchangedByClerk>>

\* The command is killed, or a call, a parse or a file operation raises.
Kill(c) ==
  /\ Busy(c)
  /\ kills < MaxKills
  /\ kills' = kills + 1
  /\ Done(c)
  /\ UNCHANGED <<disk, clock, commands, hands, hist, overlapped>>

Clerk(c) ==
  \/ Start(c) \/ Ask(c) \/ Call(c) \/ Draft(c) \/ Save(c) \/ LoadQuarantine(c)
  \/ Quarantine(c) \/ Load(c) \/ Pick(c) \/ Write(c) \/ Stamp(c) \/ Kill(c)

Next == DevEval \/ (\E f \in Files : HandEdit(f)) \/ (\E c \in Clerks : Clerk(c))

Spec == Init /\ [][Next]_vars

-----------------------------------------------------------------------------
(* Properties                                                              *)

Saved == UNION {Range(reports[n].proposals) : n \in DOMAIN reports}

\* However commands overlap, repeat or die between the write and the stamp, an edit
\* whose fingerprint is on record (its file was found and had content) lands in that
\* file at most once, unless it was forced.
AppliedOnce ==
  \A p \in Saved :
    p.seen # << >> /\ p.file # Unsafe /\ p.block \notin forced => Count(p.block, text[p.file]) <= 1

Diagnosed == {reports[n].about : n \in DOMAIN reports} \cap Items

\* What is in its file although no report says that it was applied.
Unstamped == {p \in Saved : /\ ~p.applied /\ p.file # Unsafe
                            /\ Count(p.block, text[p.file]) >= 1}

Applying == {c \in Clerks : pc[c] \in {"picking", "writing"}}

\* As long as commands do not overlap, what the desk has on record is what happened.  What
\* is stamped as applied was written: it is in its file, unless somebody has edited that file
\* by hand or the edit of another proposal has taken its place.  What is in its file without
\* a stamp is about to be stamped by the command at work, unless a command has died.  And
\* a held-out question that a saved report was derived from is in quarantine, but for one
\* per command that died, and the one being recorded.
RecordsAreTrue ==
  ~overlapped =>
    /\ \A p \in Saved : p.applied =>
         /\ p.file # Unsafe
         /\ p.file \in touched \/ p.block \in replaced \/ Count(p.block, text[p.file]) >= 1
    /\ kills = 0 =>
         \A p \in Unstamped : \E c \in Applying :
           [p EXCEPT !.applied = TRUE] \in Range(desk[c].report.proposals)
    /\ Cardinality(Diagnosed \ quarantine)
         <= kills + Cardinality({c \in Clerks : pc[c] \in {"quarantining", "marking"}})

\* A dev run is coached once: more calls are paid for it only by --regenerate, after a
\* command that died, or when a held-out diagnosis has taken the place of its report.
PaidOncePerRun ==
  ~overlapped =>
    \A n \in 1..MaxRuns :
      paid[n] <= 1 + again + kills
                   + Cardinality({k \in DOMAIN reports : reports[k].about \in Items})
=============================================================================
