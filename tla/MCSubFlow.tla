------------------------------- MODULE MCSubFlow -------------------------------
(* The tabs the sub-flow loop is checked on.                                  *)
EXTENDS SubFlow, TabFamilies
===============================================================================
