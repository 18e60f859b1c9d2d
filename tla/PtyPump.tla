------------------------------- MODULE PtyPump -------------------------------
(***************************************************************************)
(* One pane's output, from the child to the sink (terminal-core, pty.rs):  *)
(* the reader thread, the channel, the pump that coalesces reads into      *)
(* batches under DEC 2026 holds, the reaping of the child, and kill().     *)
(*                                                                         *)
(* A byte is "text", or the end of the sequence that sets or resets        *)
(* synchronized output.  Time advances in ticks: the pump is fast beside   *)
(* them, so a tick waits for whatever the pump has due.                    *)
(***************************************************************************)
EXTENDS Naturals, Sequences, FiniteSets, SequencesExt

CONSTANTS
  MaxBytes,       \* bound: how much the program ever writes
  ReadBuf,        \* READ_BUF
  FlushBytes,     \* FLUSH_BYTES
  FlushInterval,  \* FLUSH_INTERVAL, in ticks
  MaxSyncHold     \* MAX_SYNC_HOLD, in ticks

ASSUME SizesPositive == {ReadBuf, FlushBytes, FlushInterval, MaxSyncHold} \subseteq Nat \ {0}
ASSUME MaxBytesNat == MaxBytes \in Nat

VARIABLES
  produced,   \* history: everything the program wrote
  kernel,     \* written and not read yet
  tty,        \* whether anything still holds the child side open
  child,      \* "running", "exited"
  reader,     \* "reading", "done" (the sender is dropped and alive is false)
  channel,    \* reads on their way to the pump
  batch,      \* bytes accumulated since the last flush
  age,        \* ticks since first_byte_at
  synced,     \* the program asked for no repaint
  syncAge,    \* ticks since sync_started_at
  pump,       \* "pumping", "reaping", "waiting" (child.lock().wait()), "done"
  emitted,    \* the chunks handed to the sink, in order
  exited,     \* whether the sink was told the child exited
  killer      \* a thread in kill(): "idle", "locking", "killing", "done"

progVars == <<produced, tty, child>>
readVars == <<kernel, reader, channel>>
holdVars == <<age, synced, syncAge>>
sinkVars == <<emitted, exited>>
vars == <<progVars, readVars, batch, holdVars, pump, sinkVars, killer>>

Byte == {"text", "on", "off"}
Bytes(chunks) == FlattenSeq(chunks)

Init ==
  /\ produced = <<>> /\ kernel = <<>> /\ tty = TRUE /\ child = "running"
  /\ reader = "reading" /\ channel = <<>>
  /\ batch = <<>> /\ age = 0 /\ synced = FALSE /\ syncAge = 0
  /\ pump = "pumping" /\ emitted = <<>> /\ exited = FALSE
  /\ killer = "idle"

(***************************************************************************)
(* The child.  When it exits the kernel hangs its terminal up; it may also *)
(* let go of the terminal and live on.                                     *)
(***************************************************************************)
ProgramWrites(b) ==
  /\ child = "running" /\ tty /\ Len(produced) < MaxBytes
  /\ produced' = Append(produced, b)
  /\ kernel' = Append(kernel, b)
  /\ UNCHANGED <<tty, child, reader, channel, batch, holdVars, pump, sinkVars, killer>>

ChildClosesTty ==
  /\ tty /\ tty' = FALSE
  /\ UNCHANGED <<produced, child, readVars, batch, holdVars, pump, sinkVars, killer>>

ChildExits ==
  /\ child = "running"
  /\ child' = "exited" /\ tty' = FALSE
  /\ UNCHANGED <<produced, readVars, batch, holdVars, pump, sinkVars, killer>>

(***************************************************************************)
(* The reader thread: blocking reads, forwarded as they come.              *)
(***************************************************************************)

ReaderReads(n) ==
  /\ reader = "reading" /\ n \in 1..ReadBuf /\ n <= Len(kernel)
  /\ channel' = Append(channel, SubSeq(kernel, 1, n))
  /\ kernel' = SubSeq(kernel, n + 1, Len(kernel))
  /\ UNCHANGED <<reader, progVars, batch, holdVars, pump, sinkVars, killer>>

\* Mutant: the end of the stream is taken for an empty read, and retried.
ReaderEofRetried ==
  /\ reader = "reading" /\ ~tty /\ kernel = <<>>
  /\ UNCHANGED vars

ReaderEof ==
  /\ reader = "reading" /\ ~tty /\ kernel = <<>>
  /\ reader' = "done"
  /\ UNCHANGED <<kernel, channel, progVars, batch, holdVars, pump, sinkVars, killer>>

(***************************************************************************)
(* The pump                                                                *)
(***************************************************************************)

\* Mutant: a frame holds for as long as the program likes.
HoldingUnbounded(s, a) == s

Holding(s, a) == s /\ a < MaxSyncHold

\* flush!: nothing at all for an empty batch.
Flush(bytes) ==
  IF bytes = <<>>
    THEN UNCHANGED emitted /\ batch' = bytes /\ age' = age
    ELSE emitted' = Append(emitted, bytes) /\ batch' = <<>> /\ age' = 0

SyncMarks(data) == {i \in 1..Len(data) : data[i] # "text"}

\* A read is scanned for mode changes, the last of which decides, and joins
\* the batch.  Size flushes it at once unless a frame is held.
PumpReceives ==
  /\ pump = "pumping" /\ channel # <<>>
  /\ channel' = Tail(channel)
  /\ LET data  == Head(channel)
         marks == SyncMarks(data)
         last  == CHOOSE i \in marks : \A j \in marks : j <= i
         all   == batch \o data
     IN /\ synced' = IF marks = {} THEN synced ELSE data[last] = "on"
        /\ syncAge' = IF marks = {} THEN syncAge ELSE 0
        /\ IF ~Holding(synced', syncAge') /\ Len(all) >= FlushBytes
             THEN Flush(all)
             ELSE batch' = all /\ UNCHANGED <<emitted, age>>
  /\ UNCHANGED <<kernel, reader, progVars, pump, exited, killer>>

\* recv_timeout ran out: no read is there and the batch is old enough.
TimeoutDue == pump = "pumping" /\ channel = <<>> /\ reader = "reading"
              /\ batch # <<>> /\ age >= FlushInterval

PumpTimesOut ==
  /\ TimeoutDue /\ ~Holding(synced, syncAge)
  /\ Flush(batch)
  /\ UNCHANGED <<synced, syncAge, exited, pump, progVars, readVars, killer>>

\* Mutant: the last flush is left out.
PumpDisconnectsUnflushed ==
  /\ pump = "pumping" /\ channel = <<>> /\ reader = "done"
  /\ batch' = <<>> /\ UNCHANGED <<emitted, age>>
  /\ pump' = "reaping"
  /\ UNCHANGED <<synced, syncAge, exited, progVars, readVars, killer>>

\* The channel is drained and its sender gone: the last flush, whatever is held,
\* and then child.lock().wait(), which keeps the lock until the child is reaped.
PumpDisconnects ==
  /\ pump = "pumping" /\ channel = <<>> /\ reader = "done"
  /\ Flush(batch)
  /\ pump' = "reaping"
  /\ UNCHANGED <<synced, syncAge, exited, progVars, readVars, killer>>

PumpLocksChild ==
  /\ pump = "reaping" /\ killer # "killing"
  /\ pump' = "waiting"
  /\ UNCHANGED <<progVars, readVars, batch, holdVars, sinkVars, killer>>

\* Mutant: the exit is reported without reaping the child.
PumpReapsNothing ==
  /\ pump = "waiting"
  /\ exited' = TRUE /\ pump' = "done"
  /\ UNCHANGED <<emitted, progVars, readVars, batch, holdVars, killer>>

PumpReaps ==
  /\ pump = "waiting" /\ child = "exited"
  /\ exited' = TRUE /\ pump' = "done"
  /\ UNCHANGED <<emitted, progVars, readVars, batch, holdVars, killer>>

(***************************************************************************)
(* PtySession::kill, from close() or Drop: lock the child, signal it until *)
(* it is gone, unlock.                                                     *)
(***************************************************************************)
KillCalled ==
  /\ killer = "idle" /\ killer' = "locking"
  /\ UNCHANGED <<progVars, readVars, batch, holdVars, pump, sinkVars>>

KillLocks ==
  /\ killer = "locking" /\ pump # "waiting"
  /\ killer' = "killing"
  /\ UNCHANGED <<progVars, readVars, batch, holdVars, pump, sinkVars>>

KillEnds ==
  /\ killer = "killing" /\ killer' = "done"
  /\ child' = "exited" /\ tty' = FALSE
  /\ UNCHANGED <<produced, readVars, batch, holdVars, pump, sinkVars>>

(***************************************************************************)
(* The clock.  Ages count up to the hold and no further than is told apart.*)
(***************************************************************************)
PumpDue ==
  \/ pump = "pumping" /\ (channel # <<>> \/ reader = "done")
  \/ TimeoutDue /\ ~Holding(synced, syncAge)

AgeCap == FlushInterval + MaxSyncHold * (MaxBytes + 2)

Older(a) == IF a < AgeCap THEN a + 1 ELSE a

Tick ==
  /\ ~PumpDue
  /\ age' = IF batch = <<>> THEN 0 ELSE Older(age)
  /\ syncAge' = IF synced THEN Older(syncAge) ELSE 0
  /\ <<age', syncAge'>> # <<age, syncAge>>
  /\ UNCHANGED <<synced, progVars, readVars, batch, pump, sinkVars, killer>>

Pump == PumpReceives \/ PumpTimesOut \/ PumpDisconnects \/ PumpLocksChild \/ PumpReaps
Reader == ReaderEof \/ \E n \in 1..ReadBuf : ReaderReads(n)

Next ==
  \/ \E b \in Byte : ProgramWrites(b)
  \/ ChildClosesTty \/ ChildExits
  \/ Reader \/ Pump
  \/ KillCalled \/ KillLocks \/ KillEnds
  \/ Tick

Spec == Init /\ [][Next]_vars

(***************************************************************************)
(* Fairness: the three threads run and time passes.  The child owes us     *)
(* nothing: it may stay silent, or run, for ever.                          *)
(***************************************************************************)
Fairness ==
  /\ WF_vars(Reader) /\ WF_vars(Pump) /\ WF_vars(Tick)
  /\ SF_vars(KillLocks) /\ WF_vars(KillEnds)

FairSpec == Spec /\ Fairness
-----------------------------------------------------------------------------

TypeOK ==
  /\ produced \in Seq(Byte) /\ kernel \in Seq(Byte) /\ batch \in Seq(Byte)
  /\ tty \in BOOLEAN /\ child \in {"running", "exited"}
  /\ reader \in {"reading", "done"}
  /\ channel \in Seq(Seq(Byte)) /\ emitted \in Seq(Seq(Byte))
  /\ age \in 0..AgeCap /\ syncAge \in 0..AgeCap /\ synced \in BOOLEAN
  /\ pump \in {"pumping", "reaping", "waiting", "done"}
  /\ exited \in BOOLEAN
  /\ killer \in {"idle", "locking", "killing", "done"}

(* Bytes reach the renderer exactly as the program wrote them: what was     *)
(* emitted, what is batched, what is in the channel and what is unread are  *)
(* together, in that order, what the program wrote.                         *)
Verbatim == produced = Bytes(emitted) \o batch \o Bytes(channel) \o kernel

(* The exit event ends the stream: by then the child is reaped, and all it  *)
(* wrote has been handed over.                                              *)
ExitIsLast ==
  exited => child = "exited" /\ Bytes(emitted) = produced

(* A held batch waits MAX_SYNC_HOLD for the frame that was open when it     *)
(* began and once more for every frame begun within it: each one starts the *)
(* clock again, so it is the program that decides how long nothing is drawn.*)
FramesIn(bytes) == Cardinality({i \in 1..Len(bytes) : bytes[i] = "on"})

HeldPerFrame ==
  pump = "pumping" => age <= FlushInterval + MaxSyncHold * (1 + FramesIn(batch))

(* A program that sets 2026 and then blocks does not freeze the pane: what  *)
(* it wrote is drawn in the end, and so is what it wrote before it exited.  *)
EverythingDrawn ==
  \A n \in 1..MaxBytes : Len(produced) >= n ~> Len(Bytes(emitted)) >= n

(* The end of a child is reported.                                          *)
ExitReported == child = "exited" ~> exited

(* The comment on MAX_SYNC_HOLD: past this the batch is released regardless.*)
ReleasedRegardless == pump = "pumping" => age <= MaxSyncHold + FlushInterval

(* TerminalRegistry::close: terminate and forget a session.                 *)
CloseTerminates == killer = "locking" ~> child = "exited"
=============================================================================
