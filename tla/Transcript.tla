----------------------------- MODULE Transcript -----------------------------
(***************************************************************************)
(* Following an agent's own log (agent-runtime/src/claude/transcript.rs).  *)
(* The file is a sequence of units, of which one line takes one ("whole")  *)
(* or two ("head", "tail"); the last unit of a line is its newline, so a   *)
(* file that ends in a "head" ends in a line the agent has not finished.   *)
(***************************************************************************)
EXTENDS Naturals, Sequences, SequencesExt, FiniteSetsExt

CONSTANTS
    Shell,      \* the shell commands a log may hold
    Outcomes,   \* how they end: codes "0", "1" and "130" stand for
    MaxRead,    \* MAX_READ_BYTES, in units
    MaxCalls    \* ShellCalls::MAX

ASSUME ReaderAssumption == MaxRead \in Nat \ {0} /\ MaxCalls \in Nat \ {0}

LogLines == [kind : {"call"}, of : Shell] \cup [kind : {"result"}, of : Shell, code : Outcomes]
Units == [line : LogLines, part : {"whole", "head", "tail"}]

NoReader == [offset |-> 0, from |-> 0, calls |-> <<>>, opened |-> FALSE]
ReaderAt(o) == [offset |-> o, from |-> o, calls |-> <<>>, opened |-> TRUE]

(* TranscriptReader::new and ::from_end. *)
FromStart == ReaderAt(0)
FromEnd(log) == ReaderAt(Len(log))

Ends(u) == u.part # "head"

(* The lines that parse in a run of units: those whose beginning is in it. *)
Parses(buf, i) == buf[i].part = "whole" \/ (buf[i].part = "tail" /\ i > 1)
LinesIn(buf) == FlattenSeq([i \in DOMAIN buf |-> IF Parses(buf, i) THEN <<buf[i].line>> ELSE <<>>])

(* A shorter log than last time was replaced, and is read from its start. *)
Start(r, log) == IF Len(log) < r.offset THEN 0 ELSE r.offset

Buffer(r, log) == SubSeq(log, Start(r, log) + 1, Min({Len(log), Start(r, log) + MaxRead}))

(* Mutant: all that was read counts as consumed. *)
KeptAll(r, log) == Buffer(r, log)

(* What read_new keeps of the buffer: up to its last newline. *)
Kept(r, log) == LET buf == Buffer(r, log)
                    newlines == {i \in DOMAIN buf : Ends(buf[i])}
                IN SubSeq(buf, 1, IF newlines = {} THEN 0 ELSE Max(newlines))

(* ShellCalls: calls awaiting a result, the oldest forgotten at the limit. *)
CallStarted(calls, c) == Append(IF Len(calls) >= MaxCalls THEN Tail(calls) ELSE calls, c)
CallFinished(calls, c) ==
    LET i == Min({k \in DOMAIN calls : calls[k] = c}) IN RemoveAt(calls, i)

(* push_into, for one line: the calls still open and the payloads it becomes. *)
PushInto(acc, line) ==
    CASE line.kind = "call" ->
           [calls |-> CallStarted(acc.calls, line.of),
            out |-> Append(acc.out, [kind |-> "started", of |-> line.of])]
      [] line.kind = "result" /\ line.of \in Range(acc.calls) ->
           [calls |-> CallFinished(acc.calls, line.of),
            out |-> acc.out \o
                    <<[kind |-> "output", of |-> line.of],
                      [kind |-> "completed", of |-> line.of, code |-> line.code, reported |-> FALSE]>>]
      [] OTHER -> [acc EXCEPT !.out = Append(@, [kind |-> "note"])]

(* read_new: the reader moved on, the lines it consumed, their payloads.      *)
ReadNew(r, log) ==
    LET kept == Kept(r, log)
        lines == LinesIn(kept)
        told == FoldLeft(PushInto, [calls |-> r.calls, out |-> <<>>], lines)
    IN [reader |-> [r EXCEPT !.offset = Start(r, log) + Len(kept), !.calls = told.calls],
        lines |-> lines, out |-> told.out]
=============================================================================
