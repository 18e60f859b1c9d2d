----------------------------- MODULE MCInputGate -----------------------------
(* Model-checking instance of InputGate: three calls of two bytes each, and *)
(* a line discipline that holds three bytes, so that a call can block with  *)
(* the writer locked.  The run checks liveness too, so it takes no symmetry.*)
EXTENDS InputGate
=============================================================================
