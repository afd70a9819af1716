--------------------------- MODULE MCHistorianFlush ---------------------------
(* HistorianFlush with what TLC needs: the symmetry of the readings and of   *)
(* the tables, which the specification never tells apart.                    *)
EXTENDS HistorianFlush, TLC

Symmetry == Permutations(Rows) \cup Permutations(Tables)
===============================================================================
