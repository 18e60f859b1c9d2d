------------------------------ MODULE MCPtyPump ------------------------------
(* Model-checking instance of PtyPump: a few bytes, reads of up to two, a   *)
(* batch that is full at three, frames held for two ticks.                  *)
EXTENDS PtyPump
=============================================================================
