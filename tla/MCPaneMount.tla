----------------------------- MODULE MCPaneMount -----------------------------
(* Model-checking instance of PaneMount: two calls of pty_spawn from one    *)
(* mount, the fewest that can race each other.                              *)
EXTENDS PaneMount
==============================================================================
