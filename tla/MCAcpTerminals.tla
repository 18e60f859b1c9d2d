--------------------------- MODULE MCAcpTerminals ---------------------------
(* An agent's terminals for TLC: two commands. *)
EXTENDS AcpTerminals
=============================================================================
