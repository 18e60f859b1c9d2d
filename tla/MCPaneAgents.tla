---------------------------- MODULE MCPaneAgents ----------------------------
(* Observed agents for TLC: a session that runs two commands, the second     *)
(* before the first is answered, and one that only talks.                    *)
EXTENDS PaneAgents

CONSTANTS s1, s2, c1, c2

Unit(kind, c, part) ==
    [line |-> IF kind = "call" THEN [kind |-> kind, of |-> c] ELSE [kind |-> kind, of |-> c, code |-> "1"],
     part |-> part]

TwoCalls == [s \in Sessions |->
    IF s = s1 THEN <<Unit("call", c1, "head"), Unit("call", c1, "tail"), Unit("call", c2, "whole"),
                     Unit("result", c2, "whole")>>
              ELSE <<>>]
=============================================================================
