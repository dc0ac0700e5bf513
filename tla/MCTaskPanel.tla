----------------------------- MODULE MCTaskPanel -----------------------------
(* TaskSteps and TaskPanel for TLC: titles are model values and             *)
(* interchangeable.                                                         *)
EXTENDS TaskPanel, TLC

Symmetry == Permutations(Titles)
=============================================================================
