----------------------------- MODULE MCCoachDesk -----------------------------
(* CoachDesk for TLC: clerks and files are interchangeable.                *)
EXTENDS CoachDesk, TLC

Symmetry == Permutations(Clerks) \cup Permutations(Files)

AtWork(kinds) == \E c \in Clerks : Busy(c) /\ job[c].kind \in kinds

\* Four commands are enough to write an edit and then another one over it: the fourth is
\* an apply, with no held-out report and nothing edited by hand before it.  Some file has a
\* text.  Mishaps come one at a time, an edit that was dropped is followed under one
\* fingerprint, and a held-out report without proposals: what is applied comes from a coach.
\* Once commands overlap three are followed, and only those that touch files: what is asked
\* of the others is about commands that wait for each other.
Focus ==
  /\ kills + hands <= 1
  /\ \E f \in Files : committed[f] # << >>
  /\ commands = 4 => ~AtWork({"coach", "heldout"}) /\ hands = 0 /\ Diagnosed = {}
  /\ \A c \in Clerks : pc[c] = "saving" => \A p \in Range(desk[c].report.proposals) :
       p.edit = "none" => p.file # Unsafe /\ p.seen = << >>
  /\ \A c \in Clerks : pc[c] = "saving" /\ desk[c].report.about \in Items =>
       desk[c].report.proposals = << >>
  /\ overlapped => /\ commands <= 3 /\ Diagnosed = {} /\ ~AtWork({"heldout"})
                   /\ \A c \in Clerks : Busy(c) /\ job[c].kind = "coach" => ~job[c].regenerate
=============================================================================
