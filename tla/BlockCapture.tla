---------------------------- MODULE BlockCapture ----------------------------
(***************************************************************************)
(* From a pane's bytes to Blocks: the pump taps each read for markers and  *)
(* rebases them onto its batch (terminal-core, pty.rs), and the builder    *)
(* cuts each batch at them (block-engine, builder.rs).                     *)
(*                                                                         *)
(* The stream is fixed at the start; how it is cut into reads and batches  *)
(* is not.  A byte is known by its position, so what a Block captured is a *)
(* sequence of positions.  PtyPump models when a batch is flushed; here it *)
(* may be at any time.                                                     *)
(***************************************************************************)
EXTENDS OscScanner, FiniteSets

CONSTANT Streams    \* the byte streams a program may write

ASSUME StreamsAssumption == \A s \in Streams : s \in Seq(Tokens)

(***************************************************************************)
(* What a stream says, whoever cuts it up: its markers m from one scan of   *)
(* the whole, a Block from each execute mark to the next mark that ends it. *)
(***************************************************************************)
Chosen(s, S) == FlattenSeq([i \in DOMAIN s |-> IF i \in S THEN <<s[i]>> ELSE <<>>])

Markers(hits) == Chosen(hits, {i \in DOMAIN hits : Recognised(hits[i].payload)})
Kind(m, i) == Signal[m[i].payload[1]]

Executes(m) == {i \in DOMAIN m : Kind(m, i) = "CommandExecuted"}
EndsBlock == {"CommandExecuted", "CommandFinished", "PromptStart"}
Enders(m, i) == {j \in DOMAIN m : j > i /\ Kind(m, j) \in EndsBlock}

Named(m, i) ==
  \E j \in 1..(i - 1) : Kind(m, j) = "Meta" /\ \A e \in Executes(m) : e < j \/ e >= i
ExitOf(m, i) ==
  IF Enders(m, i) = {} \/ Kind(m, Min(Enders(m, i))) = "CommandFinished"
    THEN "code" ELSE "unknown"
HostOf(m, i) ==
  LET reports == {j \in 1..(i - 1) : Kind(m, j) \in {"CwdLocal", "CwdRemote"}}
  IN IF reports # {} /\ Kind(m, Max(reports)) = "CwdRemote" THEN "remote" ELSE "local"

OnAlternate(scan, p) ==
  LET earlier == {i \in DOMAIN scan.modes : scan.modes[i].end < p}
  IN earlier # {} /\ scan.modes[Max(earlier)].enabled

MarkedBlocks(s) ==
  LET scan == FeedIndexed(NewScanner, s)
      m    == Markers(scan.hits)
      cut  == PendingMarker(scan)
      text == {p \in DOMAIN s : /\ \A i \in DOMAIN m : p <= m[i].start \/ p > m[i].end
                                /\ cut.kind = "StartedAt" => p <= cut.at}
      screen == {p \in text : OnAlternate(scan, p)}
      order  == Chosen([i \in DOMAIN m |-> i], Executes(m))
      region(i) == {p \in DOMAIN s : /\ p > m[i].end
                                     /\ Enders(m, i) # {} => p <= m[Min(Enders(m, i))].start}
  IN [k \in DOMAIN order |->
        LET i == order[k] IN
        [named |-> Named(m, i), exit |-> ExitOf(m, i), host |-> HostOf(m, i), region |-> region(i),
         output |-> region(i) \cap (text \ screen), redrawn |-> region(i) \cap screen]]

VARIABLES
  stream,     \* the one this program writes
  marked,     \* history: the Blocks it marks
  fed,        \* how many of its bytes the pump has read
  flushed,    \* how many of them went to the builder
  scanner,    \* the pump's OscScanner
  signals,    \* PositionedSignals of the batch
  pending,    \* its PendingMarker
  alternate,  \* the pump's alternate_screen
  builder,    \* the BlockBuilder, with the Blocks it has started
  ended,      \* whether on_session_end was called
  seam,       \* history: a marker of the batch continues over two of its reads
  switched,   \* history: the batch changes screens
  excused     \* history: the positions settled by batches of these two kinds,
              \* and of an ESC a batch ended on

batchVars == <<scanner, signals, pending, alternate, seam, switched>>
vars == <<stream, marked, fed, flushed, batchVars, builder, ended, excused>>

NewBuilder == [phase |-> "Unsynced", meta |-> FALSE, host |-> "local",
               blocks |-> <<>>, running |-> FALSE,
               alternate |-> FALSE, redraws |-> 0, carry |-> <<>>]

Init ==
  /\ stream \in Streams /\ marked = MarkedBlocks(stream)
  /\ fed = 0 /\ flushed = 0
  /\ scanner = NewScanner /\ signals = <<>> /\ alternate = FALSE
  /\ pending = PendingMarker(NewScanner)
  /\ builder = NewBuilder /\ ended = FALSE
  /\ seam = FALSE /\ switched = FALSE
  /\ excused = [seams |-> {}, switches |-> {}, splits |-> {}]

(***************************************************************************)
(* The pump: tap a read, rebase what it holds onto the batch.              *)
(***************************************************************************)
Offset(base, at) == IF at = None THEN None ELSE base + at

Rebased(base, hits) ==
  LET recognised == Markers(hits)
  IN [i \in DOMAIN recognised |->
        [start  |-> Offset(base, recognised[i].start),
         end    |-> base + recognised[i].end,
         signal |-> Kind(recognised, i)]]

Read(n) ==
  /\ n \in 1..(Len(stream) - fed)
  /\ fed' = fed + n
  /\ LET base == fed - flushed
         s    == FeedIndexed(scanner, SubSeq(stream, fed + 1, fed + n))
         mark == PendingMarker(s)
     IN /\ scanner' = [s EXCEPT !.hits = <<>>, !.modes = <<>>]
        /\ signals' = signals \o Rebased(base, s.hits)
        /\ pending' = [mark EXCEPT !.at = Offset(base, @)]
        /\ alternate' = IF s.modes = <<>> THEN alternate ELSE Last(s.modes).enabled
        /\ seam' = (seam \/ (base > 0 /\ scanner.state \in {"Escape", "Osc", "OscEscape"}))
        /\ switched' = (switched \/ s.modes # <<>>)
  /\ UNCHANGED <<stream, marked, flushed, builder, ended, excused>>

(***************************************************************************)
(* The builder: handle_signal and what it calls                            *)
(***************************************************************************)
AppendOutput(b, bytes) ==
  IF bytes = <<>> \/ ~b.running THEN b
  ELSE IF b.alternate THEN [b EXCEPT !.redraws = @ + Len(bytes)]
  ELSE [b EXCEPT !.blocks[Len(b.blocks)].output = @ \o bytes]

FinishCommand(b, exit) ==
  IF ~b.running THEN b
  ELSE [b EXCEPT !.blocks[Len(b.blocks)] = [@ EXCEPT !.exit = exit, !.redraws = b.redraws],
                 !.redraws = 0, !.running = FALSE, !.phase = "AtPrompt"]

StartCommand(b) ==
  LET closed == FinishCommand(b, "unknown")
  IN [closed EXCEPT !.blocks = Append(@, [named |-> b.meta, host |-> b.host, exit |-> "running",
                                          output |-> <<>>, redraws |-> 0]),
                    !.meta = FALSE, !.running = TRUE, !.phase = "Executing"]

Synced(b) == [b EXCEPT !.phase = IF @ = "Unsynced" THEN "AtPrompt" ELSE @]

HandleSignal(b, signal) ==
  CASE signal = "PromptStart"     -> [FinishCommand(b, "unknown") EXCEPT !.phase = "AtPrompt"]
    [] signal = "PromptEnd"       -> [b EXCEPT !.phase = "AtPrompt"]
    [] signal = "CommandExecuted" -> StartCommand(b)
    [] signal = "CommandFinished" -> [FinishCommand(b, "code") EXCEPT !.phase = "AtPrompt"]
    [] signal = "CwdLocal"        -> Synced(b)
    [] signal = "CwdRemote"       -> Synced([b EXCEPT !.host = "remote"])
    [] signal = "Meta"            -> Synced([b EXCEPT !.meta = TRUE])

(***************************************************************************)
(* consume: output between markers is captured, marker bytes are not, and  *)
(* the head of a sequence the batch cuts off is carried to the next one.   *)
(* Offsets are relative to the batch, as the pump reports them.            *)
(***************************************************************************)
Slice(from, to) == [i \in 1..(to - from) |-> flushed + from + i]

\* Mutant: carried bytes that were output after all are forgotten.
FlushCarryForgets(b) == [b EXCEPT !.carry = <<>>]

FlushCarry(b) == [AppendOutput(b, b.carry) EXCEPT !.carry = <<>>]

\* Mutant: the signal is handled before the output it follows is captured.
ConsumeSignalFirst(at, sig) ==
  LET boundary == IF sig.start < at.cursor THEN at.cursor ELSE sig.start
      handled  == HandleSignal(FlushCarry(at.builder), sig.signal)
  IN [builder |-> IF sig.start = None THEN handled
                  ELSE AppendOutput(handled, Slice(at.cursor, boundary)),
      cursor |-> sig.end]

ConsumeSignal(at, sig) ==
  LET boundary == IF sig.start < at.cursor THEN at.cursor ELSE sig.start
      before   == IF sig.start = None
                    THEN [at.builder EXCEPT !.carry = <<>>]
                    ELSE AppendOutput(FlushCarry(at.builder), Slice(at.cursor, boundary))
  IN [builder |-> HandleSignal(before, sig.signal), cursor |-> sig.end]

ConsumeTail(b, cursor, len) ==
  CASE pending.kind = "StartedAt" /\ pending.at >= cursor ->
         [AppendOutput(FlushCarry(b), Slice(cursor, pending.at))
            EXCEPT !.carry = Slice(pending.at, len)]
    [] pending.kind = "Earlier" -> [b EXCEPT !.carry = @ \o Slice(cursor, len)]
    [] OTHER -> AppendOutput(FlushCarry(b), Slice(cursor, len))

Consume(b, len) ==
  LET start == [builder |-> [b EXCEPT !.alternate = alternate], cursor |-> 0]
      after[i \in 0..Len(signals)] ==
        IF i = 0 THEN start ELSE ConsumeSignal(after[i - 1], signals[i])
      tail  == after[Len(signals)]
  IN ConsumeTail(tail.builder, tail.cursor, len)

Batch == (flushed + 1)..fed

Flush ==
  /\ fed > flushed
  /\ builder' = Consume(builder, fed - flushed)
  /\ flushed' = fed
  /\ signals' = <<>> /\ seam' = FALSE /\ switched' = FALSE
  /\ LET settled == Batch \cup ToSet(builder.carry)
     IN excused' = [seams    |-> excused.seams \cup IF seam THEN settled ELSE {},
                    switches |-> excused.switches \cup IF switched THEN settled ELSE {},
                    splits   |-> excused.splits \cup
                                   IF scanner.state = "Escape" THEN {fed} ELSE {}]
  /\ pending' = PendingMarker(NewScanner)
  /\ UNCHANGED <<stream, marked, fed, scanner, alternate, ended>>

\* Mutant: the session ends with its Block still running.
SessionEndsLeavesOpen ==
  /\ flushed = Len(stream) /\ ~ended
  /\ ended' = TRUE
  /\ builder' = [builder EXCEPT !.phase = "Unsynced"]
  /\ UNCHANGED <<stream, marked, fed, flushed, batchVars, excused>>

\* The pump's Exited event, after its last chunk: on_session_end.
SessionEnds ==
  /\ flushed = Len(stream) /\ ~ended
  /\ ended' = TRUE
  /\ builder' = [FinishCommand(builder, "code") EXCEPT !.phase = "Unsynced"]
  /\ UNCHANGED <<stream, marked, fed, flushed, batchVars, excused>>

Next == (\E n \in 1..Len(stream) : Read(n)) \/ Flush \/ SessionEnds

Spec == Init /\ [][Next]_vars
-----------------------------------------------------------------------------
Captured(k) == ToSet(builder.blocks[k].output)

TypeOK ==
  /\ fed \in 0..Len(stream) /\ flushed \in 0..fed
  /\ scanner.state \in {"Ground", "Escape", "Csi", "Osc", "OscEscape", "String", "StringEscape"}
  /\ \A i \in DOMAIN signals : signals[i].end \in 1..(fed - flushed)
  /\ builder.phase \in {"Unsynced", "AtPrompt", "Executing"}
  /\ builder.phase = "Executing" => builder.running
  /\ builder.running => builder.blocks # <<>> /\ Last(builder.blocks).exit = "running"
  /\ {alternate, ended, seam, switched, builder.running, builder.meta} \subseteq BOOLEAN

(* Which Blocks there are does not depend on how the stream was cut up: one *)
(* for each execute mark, named by the metadata since the last one, ended   *)
(* with the status the stream gives it, and none left running at the end.   *)
BlocksAsMarked ==
  ended =>
    /\ Len(builder.blocks) = Len(marked)
    /\ \A k \in DOMAIN builder.blocks :
         /\ builder.blocks[k].named = marked[k].named
         /\ builder.blocks[k].exit = marked[k].exit

(* Bytes are never moved: what the Blocks captured is, Block after Block,   *)
(* a subsequence of the stream, each byte from its own command's region (or *)
(* the ESC that a batch cut off the marker ending it).                      *)
InItsOwnBlock ==
  /\ \A k \in DOMAIN builder.blocks : Captured(k) \subseteq marked[k].region \cup excused.splits
  /\ LET all == FlattenSeq([k \in DOMAIN builder.blocks |-> builder.blocks[k].output])
     IN \A i \in 1..(Len(all) - 1) : all[i] < all[i + 1]

(* A Block captures its command's output, all of it and nothing else (no    *)
(* marker, no redraw), except in the batches the findings are about.        *)
Exact(except) ==
  ended => \A k \in DOMAIN builder.blocks :
             Captured(k) \ except = marked[k].output \ except

OutputExact == Exact(excused.seams \cup excused.switches \cup excused.splits)

(* A Block says when a full-screen program used the terminal, and only then.*)
RedrawsNoted ==
  ended => \A k \in DOMAIN builder.blocks :
    LET settled == marked[k].redrawn \ (excused.seams \cup excused.switches)
    IN /\ settled # {} => builder.blocks[k].redraws > 0
       /\ builder.blocks[k].redraws > 0 =>
            \/ marked[k].redrawn # {} \/ excused.splits # {}
            \/ excused.switches \cap marked[k].region # {}

(* The three ways a batch's cut shows, each as the code's comments have it. *)
(* A marker without a start in its chunk started in an earlier one:         *)
SeamsLoseNothing == Exact(excused.switches \cup excused.splits)
(* Mid-chunk screen changes are handled by the offsets:                     *)
ScreensSplitByOffset == Exact(excused.seams \cup excused.splits)
(* Trailing bytes that are the head of a sequence are not output:           *)
NoMarkerFragments == Exact(excused.seams \cup excused.switches)

(* A Block's host is where its command ran: remote when the last directory  *)
(* report before it named another machine, local when it did not.           *)
HostAsReported ==
  \A k \in DOMAIN builder.blocks : builder.blocks[k].host = marked[k].host
=============================================================================
