---------------------------- MODULE MCProjectInit ----------------------------
(* ProjectInit for TLC: which column has which words, comments and values. *)
EXTENDS ProjectInit

CONSTANTS c1, c2

MCColumns      == {c1, c2}
MCNameWords    == [c \in {c1, c2} |-> IF c = c1 THEN {"cost"} ELSE {}]
MCFirstColumns == [t \in Tables |-> IF t = 1 THEN {c1, c2} ELSE {}]
MCLaterColumns == [t \in Tables |-> IF t = 1 THEN {} ELSE {c2}]
MCSelections   == {{"annotate"}, {"annotate", "synth", "eval"}}
=============================================================================
