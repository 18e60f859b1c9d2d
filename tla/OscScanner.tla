----------------------------- MODULE OscScanner ------------------------------
(***************************************************************************)
(* The escape-state machine that finds shell-integration markers in a      *)
(* pane's output without altering it (terminal-core, osc.rs), and what the *)
(* payloads Tervin consumes mean (signals.rs).                             *)
(*                                                                         *)
(* Bytes are tokens: "ESC", "BEL", "CAN", the introducers "]" "[" and "P", *)
(* the terminator "\\" of ST, "h"/"l" for the finals of a CSI sequence     *)
(* about the alternate screen, one letter per OSC payload ("u" for one     *)
(* Tervin does not consume), "t" for text.                                 *)
(***************************************************************************)
EXTENDS Naturals, Integers, Sequences, SequencesExt

CONSTANT MaxPayload   \* MAX_OSC_PAYLOAD: longer payloads are dropped whole

ASSUME MaxPayloadPositive == MaxPayload \in Nat \ {0}

None == -1            \* an absent offset

(***************************************************************************)
(* signals::parse: the letters whose sequence Tervin consumes.             *)
(***************************************************************************)
Signal == [A |-> "PromptStart", B |-> "PromptEnd", C |-> "CommandExecuted",
           D |-> "CommandFinished", E |-> "Meta", L |-> "CwdLocal", R |-> "CwdRemote"]

Tokens == {"ESC", "BEL", "CAN", "]", "[", "P", "\\", "h", "l", "t", "u"} \cup DOMAIN Signal

Recognised(payload) == Len(payload) = 1 /\ payload[1] \in DOMAIN Signal

(***************************************************************************)
(* OscScanner.  `at` is the offset, in the slice being fed, of the byte    *)
(* the machine is looking at; hits and modes are those of this feed.       *)
(***************************************************************************)
NewScanner == [state |-> "Ground", payload |-> <<>>, overflowed |-> FALSE,
               start |-> None, hits |-> <<>>, modes |-> <<>>]

Goto(s, state) == [s EXCEPT !.state = state]

PushPayload(s, b) ==
  IF Len(s.payload) >= MaxPayload
    THEN [s EXCEPT !.overflowed = TRUE]
    ELSE [s EXCEPT !.payload = Append(@, b)]

FinishOsc(s, end) ==
  [s EXCEPT !.hits = IF s.overflowed \/ s.payload = <<>> THEN @
                     ELSE Append(@, [start |-> s.start, end |-> end, payload |-> s.payload]),
            !.payload = <<>>, !.overflowed = FALSE, !.start = None, !.state = "Ground"]

InGround(s, b) == IF b = "ESC" THEN Goto(s, "Escape") ELSE s

InEscape(s, at, b) ==
  CASE b = "]"   -> [s EXCEPT !.payload = <<>>, !.overflowed = FALSE, !.state = "Osc",
                              !.start = IF at = 0 THEN None ELSE at - 1]
    [] b = "["   -> Goto(s, "Csi")
    [] b = "P"   -> Goto(s, "String")
    [] b = "ESC" -> s
    [] OTHER     -> Goto(s, "Ground")

InCsi(s, at, b) ==
  CASE b \in {"h", "l"} -> [s EXCEPT !.modes = Append(@, [enabled |-> b = "h", end |-> at + 1]),
                                     !.state = "Ground"]
    [] b = "ESC" -> Goto(s, "Escape")
    [] b = "BEL" -> s
    [] OTHER     -> Goto(s, "Ground")

InOsc(s, at, b) ==
  CASE b = "BEL" -> FinishOsc(s, at + 1)
    [] b = "ESC" -> Goto(s, "OscEscape")
    [] b = "CAN" -> [s EXCEPT !.payload = <<>>, !.state = "Ground"]
    [] OTHER     -> PushPayload(s, b)

InOscEscape(s, at, b) ==
  CASE b = "\\"  -> FinishOsc(s, at + 1)
    [] b = "ESC" -> s
    [] OTHER     -> Goto(PushPayload(PushPayload(s, "ESC"), b), "Osc")

InString(s, b) ==
  CASE b = "BEL" -> Goto(s, "Ground")
    [] b = "ESC" -> Goto(s, "StringEscape")
    [] OTHER     -> s

InStringEscape(s, b) ==
  CASE b = "\\"  -> Goto(s, "Ground")
    [] b = "ESC" -> s
    [] OTHER     -> Goto(s, "String")

Scan(s, at, b) ==
  CASE s.state = "Ground"       -> InGround(s, b)
    [] s.state = "Escape"       -> InEscape(s, at, b)
    [] s.state = "Csi"          -> InCsi(s, at, b)
    [] s.state = "Osc"          -> InOsc(s, at, b)
    [] s.state = "OscEscape"    -> InOscEscape(s, at, b)
    [] s.state = "String"       -> InString(s, b)
    [] s.state = "StringEscape" -> InStringEscape(s, b)

InsideOsc(s) == s.state \in {"Osc", "OscEscape"}

(* feed_indexed: a sequence already in progress has no start in this slice. *)
FeedIndexed(s, bytes) ==
  LET fresh == [s EXCEPT !.hits = <<>>, !.modes = <<>>,
                         !.start = IF InsideOsc(s) THEN None ELSE @]
      upTo[i \in 0..Len(bytes)] ==
        IF i = 0 THEN fresh ELSE Scan(upTo[i - 1], i - 1, bytes[i])
  IN upTo[Len(bytes)]

(* pending_marker, right after a feed. *)
PendingMarker(s) ==
  IF ~InsideOsc(s) THEN [kind |-> "None", at |-> None]
  ELSE IF s.start = None THEN [kind |-> "Earlier", at |-> None]
  ELSE [kind |-> "StartedAt", at |-> s.start]
=============================================================================
