----------------------------- MODULE OutputSpill -----------------------------
(***************************************************************************)
(* Where a Block's output goes (block-engine, builder.rs): the head stays  *)
(* in the row, all of it goes to a spill file once it outgrows the head,   *)
(* up to a ceiling, and the store reads it back.                           *)
(*                                                                         *)
(* The command's bytes are numbered from 1; the number after the last is   *)
(* the note that the capture was cut there.  The disk may refuse any call, *)
(* or part of a write: every such error is ignored.                        *)
(***************************************************************************)
EXTENDS Naturals, Sequences, SequencesExt

CONSTANTS
  MaxInline,  \* MAX_INLINE_OUTPUT
  MaxSpill,   \* max_spill
  MaxChunk,   \* bound: the largest piece handed to append_output
  MaxWritten  \* bound: how much the command writes

ASSUME CapsNat == {MaxInline, MaxSpill, MaxChunk, MaxWritten} \subseteq Nat \ {0}
ASSUME SpillHoldsInline == MaxInline <= MaxSpill

VARIABLES
  written,    \* flight.written
  inline,     \* flight.inline
  spill,      \* whether flight.spill is open
  file,       \* what the spill file holds
  truncated,  \* flight.truncated
  finished,   \* whether finish_command has taken the flight
  lost        \* history: the bytes, or the note, the disk refused for good

spillVars == <<written, inline, spill, file, truncated, finished, lost>>

SpillInit ==
  /\ written = 0 /\ inline = <<>> /\ spill = FALSE /\ file = <<>>
  /\ truncated = FALSE /\ finished = FALSE /\ lost = {}

Span(from, to) == [i \in 1..(to - from) |-> from + i]
CutNote == MaxWritten + 1

Room == MaxInline - Len(inline)

\* Mutant: the file holds the overflow only.
SeedNothing(head) == <<>>

Seed(head) == head

\* Mutant: the ceiling is not looked at.
UnderCeilingAlways(total) == TRUE

UnderCeiling(total) == total <= MaxSpill

(* write_all: the disk takes the first k of the bytes, all of them unless   *)
(* it fails, and the error is dropped.                                      *)
WriteAll(held, bytes, k) == held \o SubSeq(bytes, 1, k)
Refused(bytes, k) == {bytes[i] : i \in (k + 1)..Len(bytes)}

(* The open file, holding held, takes the piece under the ceiling; the first*)
(* piece over it leaves the note that says so.  gone is what of the head    *)
(* the disk refused before.                                                 *)
Mirror(held, gone) ==
  \/ /\ UnderCeiling(written')
     /\ \E k \in 0..(written' - written) :
          /\ file' = WriteAll(held, Span(written, written'), k)
          /\ lost' = lost \cup gone \cup Refused(Span(written, written'), k)
     /\ UNCHANGED truncated
  \/ /\ ~UnderCeiling(written') /\ ~truncated /\ truncated' = TRUE
     /\ \/ file' = Append(held, CutNote) /\ lost' = lost \cup gone
        \/ file' = held /\ lost' = lost \cup gone \cup {CutNote}
  \/ /\ ~UnderCeiling(written') /\ truncated /\ file' = held
     /\ lost' = lost \cup gone /\ UNCHANGED truncated

(* The output has outgrown the head.  Without a file one is opened and      *)
(* seeded with the head; if it cannot be, what the head has no room for is  *)
(* nowhere, and the next piece tries again.                                 *)
SpillPiece ==
  \/ spill /\ Mirror(file, {}) /\ UNCHANGED spill
  \/ /\ ~spill /\ spill' = TRUE
     /\ \E k \in 0..Len(Seed(inline')) :
          Mirror(WriteAll(<<>>, Seed(inline'), k), Refused(Seed(inline'), k))
  \/ /\ ~spill /\ UNCHANGED <<spill, file, truncated>>
     /\ lost' = lost \cup {b \in (written + 1)..written' : MaxInline < b}

(* append_output of n bytes while the normal screen is shown.               *)
AppendOutput(n) ==
  /\ ~finished /\ written + n <= MaxWritten
  /\ written' = written + n
  /\ inline' = inline \o SubSeq(Span(written, written + n), 1, IF Room < n THEN Room ELSE n)
  /\ IF written' > MaxInline THEN SpillPiece ELSE UNCHANGED <<spill, file, truncated, lost>>
  /\ UNCHANGED finished

FinishCommand ==
  /\ ~finished /\ finished' = TRUE
  /\ UNCHANGED <<written, inline, spill, file, truncated, lost>>

SpillNext == (\E n \in 1..MaxChunk : AppendOutput(n)) \/ FinishCommand

SpillSpec == SpillInit /\ [][SpillNext]_spillVars
-----------------------------------------------------------------------------
(* read_full_output: the spill file if the Block has one, or the row's head.*)
ReadFullOutput == IF spill THEN file ELSE inline

Output == Span(0, written)

SpillTypeOK ==
  /\ written \in 0..MaxWritten
  /\ inline = Span(0, IF written < MaxInline THEN written ELSE MaxInline)
  /\ file \in Seq(1..CutNote)
  /\ lost \subseteq 1..CutNote
  /\ {spill, truncated, finished} \subseteq BOOLEAN
  /\ ~spill => file = <<>> /\ ~truncated

(* The first h bytes, and after them bytes of the output in its order, each *)
(* once, the note last.                                                     *)
Ordered(s, h) ==
  /\ h <= Len(s) /\ \A i \in 1..h : s[i] = i
  /\ \A i, j \in (h + 1)..Len(s) : i < j => s[i] < s[j]

(* Nothing goes missing unnoticed, and nothing is put out of order, at      *)
(* whatever byte and piece the head fills, the file opens, the ceiling is   *)
(* met or the disk fails.  Every byte of the command is read back, or the   *)
(* disk refused it, or the capture was cut before it, which the Block says, *)
(* and so does the file unless the disk refused the note.  What is read     *)
(* back goes back at most once, to bytes of the head: the piece in which    *)
(* the output outgrew the head is written whole after the head, so that a   *)
(* byte beyond the head is never there twice.                               *)
ReadsBack ==
  LET full == ReadFullOutput
  IN /\ \A b \in 1..written :
          \/ b \in ToSet(full) \cup lost
          \/ truncated /\ \A c \in ToSet(full) \ {CutNote} : c < b
     /\ truncated => CutNote \in ToSet(full) \cup lost
     /\ \E h \in 0..MaxInline : Ordered(full, h)

(* One runaway process does not fill the disk, whatever the disk refuses    *)
(* and however its output is cut into pieces.                               *)
DiskBounded == Len(file) <= MaxSpill + MaxInline + 1

(* builder.rs: the spill holds the whole stream.  The piece that crosses    *)
(* the inline cap is written again after the head that already holds it.    *)
SpillHoldsWholeStream == finished /\ lost = {} /\ ~truncated => ReadFullOutput = Output

(* model.rs: truncated is what keeps a cut log from being taken for the     *)
(* whole story.  A spill file that cannot be opened cuts it and says nothing.*)
CutIsSaid == finished /\ Len(ReadFullOutput) < written => truncated
=============================================================================
