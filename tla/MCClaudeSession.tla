-------------------------- MODULE MCClaudeSession --------------------------
(* The Claude session for TLC: a launch, a mode change and a tool call. *)
EXTENDS ClaudeSession
=============================================================================
