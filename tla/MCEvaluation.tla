---------------------------- MODULE MCEvaluation ----------------------------
(* Evaluation for TLC: the columns and their types. *)
EXTENDS Evaluation

CONSTANTS c1, c2

\* text and varchar are one family.
MCFamily        == [t \in Types |-> IF t = "varchar" THEN "text" ELSE t]
MCFirstSchema   == [c \in Columns |-> IF c = c1 THEN "text" ELSE Missing]
MCPossible      == [c \in Columns |-> IF c = c1 THEN Types \cup {Missing} ELSE {"int"}]
MCLimits        == [eval |-> 2, release |-> 1, load |-> 1]
MCFirstDeclared == {c1}
=============================================================================
