---------------------------- MODULE MCAcpSession ----------------------------
(* The ACP session for TLC: two prompts, one mode change. *)
EXTENDS AcpSession
=============================================================================
