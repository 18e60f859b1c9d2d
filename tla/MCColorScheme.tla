---------------------------- MODULE MCColorScheme ----------------------------
(* Model-checking instance of ColorScheme: two panes, so that a report to   *)
(* one can wait while the other acts.                                       *)
EXTENDS ColorScheme, TLC

PaneSymmetry == Permutations(Panes)
==============================================================================
