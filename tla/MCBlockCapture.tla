--------------------------- MODULE MCBlockCapture ----------------------------
(***************************************************************************)
(* Model-checking instance of BlockCapture: a program that starts a        *)
(* command, writes two things of eight kinds and goes on (or, after text, a*)
(* redraw, a cut sequence or another command, finishes it); one that starts*)
(* two commands after marks of any kind; and one that moves between        *)
(* machines.                                                               *)
(***************************************************************************)
EXTENDS BlockCapture

Osc(letter) == <<"ESC", "]", letter, "BEL">>

Items == {<<"t">>, <<"ESC", "[", "h">>, <<"ESC", "[", "l">>, <<"ESC", "]", "CAN">>,
          <<"ESC", "]", "D", "ESC", "\\">>, <<"ESC", "]", "u">>, Osc("C"), Osc("u")}

Running == {Osc("C") \o a \o b \o <<"t">> : a, b \in Items}
Ended == {Osc("C") \o a \o b \o Osc("D") : a \in Items,
            b \in {<<"t">>, <<"ESC", "[", "h">>, <<"ESC", "]", "CAN">>, Osc("C")}}
Outputs == Running \cup Ended
Sessions == {Osc(a) \o Osc("C") \o Osc(b) \o Osc("C") : a \in {"A", "E"}, b \in {"B", "E"}}
            \cup {Osc("C") \o <<"t">> \o Osc("A") \o Osc("L")}
MCStreams == Outputs \cup Sessions

Reports == {Osc("L"), Osc("R"), Osc("C"), Osc("A"), <<"t">>}
MCHostStreams == {FlattenSeq(items) : items \in [1..4 -> Reports]}
=============================================================================
