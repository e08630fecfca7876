----------------------------- MODULE MCScoring -----------------------------
(* Scoring for TLC: the results statements give, and what cells compare as. *)
EXTENDS Scoring

CONSTANTS one, oneFloat, two, nan

\* 1 and 1.0 are the same number, NaN none.
MCCells == {one, oneFloat, two, nan}
MCCanon == [c \in MCCells |-> IF c = oneFloat THEN one ELSE IF c = nan THEN Raises ELSE c]

Results(widths, heights, cells) ==
  UNION {[width : {w}, rows : [1..h -> [1..w -> cells]]] : w \in widths, h \in heights}

\* Two rows of up to three columns, a value per column missing or repeated; and small ones
\* with every cell.
MCGoldResults == Results(0..2, 0..2, {one, two}) \cup Results({1}, {1}, MCCells)
MCGenResults  == Results(0..3, 0..2, {one, two}) \cup Results({1}, {1}, MCCells)
=============================================================================
