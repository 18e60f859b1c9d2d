---------------------------- MODULE MCOutputSpill ----------------------------
(* Model-checking instance of OutputSpill: a head of three bytes, a ceiling *)
(* of six, pieces of up to three, ten bytes in all: each cap is met on, and *)
(* inside, a piece.                                                         *)
EXTENDS OutputSpill
=============================================================================
