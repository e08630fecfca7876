--------------------------- MODULE MCReviewConsole ---------------------------
(* ReviewConsole for TLC: handlers, ids, SQL and rows are interchangeable. *)
EXTENDS ReviewConsole, TLC

Symmetry == Permutations(Handlers) \cup Permutations(Ids) \cup Permutations(Sqls)
              \cup Permutations(Rows)

\* The candidate handlers and the row handlers have no file in common: once there is
\* a run, only the latter are followed.
HalvesApart ==
  Latest > 0 =>
    ran = {} /\ byHand = {} /\ \A h \in Handlers : Busy(h) => req[h].kind \in {"resolve", "judge"}
=============================================================================
