----------------------------- MODULE PaneProofs -----------------------------
(***************************************************************************)
(* Proofs about panes: what goes on around the shell of one - the pump     *)
(* that hands its output on (PtyPump), the spilled output of its Blocks    *)
(* (OutputSpill), the colour-scheme reports its program asks for           *)
(* (ColorScheme) and its life from mount to exit (PaneMount) - and the     *)
(* layout all of them are in: its trees (PaneTree), the store's operations *)
(* on it (Workspace), and what is saved of it and of their output          *)
(* (SavedSession).                                                         *)
(***************************************************************************)
EXTENDS PtyPump, OutputSpill, ColorScheme, PaneMount, SavedSession, FiniteSetTheorems,
        SequenceInduction

(* PtyPump: its type invariant, that bytes reach the sink in the order they  *)
(* were written with none lost or doubled, and that the exit is the last     *)
(* thing told.  SequenceInduction says what the Flatten of what was read and *)
(* told is.                                                                  *)

(* The parts of what was written, as one more byte is written, ...           *)
LEMMA WritingKeeps ==
  ASSUME NEW S, NEW l \in Seq(S), NEW k \in Seq(S), NEW x \in S
  PROVE  Append(Cat(l, k), x) = Cat(l, Append(k, x))
<1>1. Cat(l, k) \in Seq(S)
  BY CatSeq
<1>2. <<x>> \in Seq(S)
  OBVIOUS
<1>3. PICK y \in Seq(S) : y = <<x>>
  BY <1>2, Zenon
<1>4. Append(Cat(l, k), x) = Cat(Cat(l, k), <<x>>) /\ Append(k, x) = Cat(k, <<x>>)
  BY <1>1, CatAppend
<1>5. Cat(Cat(l, k), y) = Cat(l, Cat(k, y))
  BY CatAssoc
<1> QED BY <1>3, <1>4, <1>5, Zenon

(* ... as a read takes some out of the kernel, ...                           *)
LEMMA ReadingKeeps ==
  ASSUME NEW S, NEW l \in Seq(S), NEW c \in Seq(S), NEW x \in Seq(S), NEW y \in Seq(S)
  PROVE  Cat(Cat(l, Cat(c, x)), y) = Cat(Cat(l, c), Cat(x, y))
<1>1. Cat(l, c) \in Seq(S)
  BY CatSeq
<1>2. Cat(Cat(l, c), x) = Cat(l, Cat(c, x))
  BY CatAssoc
<1>3. Cat(Cat(Cat(l, c), x), y) = Cat(Cat(l, c), Cat(x, y))
  BY <1>1, CatAssoc
<1>4. Cat(Cat(l, Cat(c, x)), y) = Cat(Cat(Cat(l, c), x), y)
  BY <1>2, Zenon
<1> QED BY <1>3, <1>4, Zenon

(* ... and as the pump takes a read in.                                      *)
LEMMA ReceivingKeeps ==
  ASSUME NEW S, NEW e \in Seq(S), NEW b \in Seq(S), NEW d \in Seq(S), NEW c \in Seq(S),
         NEW k \in Seq(S)
  PROVE  Cat(Cat(Cat(e, Cat(b, d)), c), k) = Cat(Cat(Cat(e, b), Cat(d, c)), k)
<1>1. Cat(e, b) \in Seq(S)
  BY CatSeq
<1>2. Cat(Cat(e, b), d) = Cat(e, Cat(b, d))
  BY CatAssoc
<1>3. Cat(Cat(Cat(e, b), d), c) = Cat(Cat(e, b), Cat(d, c))
  BY <1>1, CatAssoc
<1> QED BY <1>1, <1>2, <1>3, CatAssoc

-----------------------------------------------------------------------------
(* The parts hold bytes, in reads and chunks.                                *)
Streams == /\ produced \in Seq(Byte) /\ kernel \in Seq(Byte) /\ batch \in Seq(Byte)
           /\ channel \in Seq(Seq(Byte)) /\ emitted \in Seq(Seq(Byte))

(* A flush hands the bytes to the sink, or leaves none.                      *)
LEMMA Flushes ==
  ASSUME NEW bytes \in Seq(Byte), emitted \in Seq(Seq(Byte)), Flush(bytes)
  PROVE  /\ emitted' \in Seq(Seq(Byte)) /\ batch' = <<>>
         /\ Bytes(emitted)' = Bytes(emitted) \o bytes
         /\ age' \in {age, 0}
<1>1. Bytes(emitted) \in Seq(Byte)
  BY FlattenTyped DEF Bytes
<1>2. CASE bytes = <<>>
  <2>1. emitted' = emitted /\ batch' = <<>> /\ age' = age
    BY <1>2 DEF Flush
  <2>2. Bytes(emitted) \o <<>> = Bytes(emitted)
    BY <1>1, ConcatEmptySeq
  <2>3. Bytes(emitted)' = Bytes(emitted)
    BY <2>1
  <2> QED BY <1>2, <2>1, <2>2, <2>3
<1>3. CASE bytes # <<>>
  <2>1. emitted' = Append(emitted, bytes) /\ batch' = <<>> /\ age' = 0
    BY <1>3 DEF Flush
  <2>2. emitted' \in Seq(Seq(Byte))
    BY <2>1, AppendProperties
  <2>3. Bytes(emitted)' = Bytes(emitted) \o bytes
    BY <2>1, FlattenAppend DEF Bytes
  <2> QED BY <2>1, <2>2, <2>3
<1> QED BY <1>2, <1>3

(* A read leaves the kernel for the channel, cut where it ends.              *)
LEMMA Reads ==
  ASSUME Streams, NEW n \in 1..ReadBuf, ReaderReads(n)
  PROVE  \E x \in Seq(Byte) : /\ channel' = Append(channel, x) /\ kernel' \in Seq(Byte)
                              /\ x \o kernel' = kernel
<1> DEFINE x == SubSeq(kernel, 1, n)
<1>1. /\ n \in 1..Len(kernel) /\ Len(kernel) \in Nat /\ kernel \in Seq(Byte)
      /\ channel' = Append(channel, x) /\ kernel' = SubSeq(kernel, n + 1, Len(kernel))
  BY DEF ReaderReads, Streams
<1>2. x \in Seq(Byte) /\ kernel' \in Seq(Byte)
  BY <1>1, SubSeqProperties
<1>3. x \o SubSeq(kernel, n + 1, Len(kernel)) = SubSeq(kernel, 1, Len(kernel))
  <2>1. 1 \in 1..(Len(kernel) + 1) /\ n \in (1 - 1)..Len(kernel) /\ Len(kernel) \in n..Len(kernel)
    BY <1>1
  <2> QED BY <1>1, <2>1, ConcatAdjacentSubSeq
<1>4. SubSeq(kernel, 1, Len(kernel)) = kernel
  BY <1>1, SubSeqFull
<1> HIDE DEF x
<1> QED BY <1>1, <1>2, <1>3, <1>4

(* Where each byte is while it is on its way, and that every step keeps it.  *)
LEMMA StepStreams == Streams /\ Verbatim /\ [Next]_vars => Streams' /\ Verbatim'
<1> SUFFICES ASSUME Streams, Verbatim, [Next]_vars PROVE Streams' /\ Verbatim'
  OBVIOUS
<1> DEFINE E == Bytes(emitted)
           C == Bytes(channel)
           Goal == Streams' /\ Verbatim'
<1>a. /\ produced \in Seq(Byte) /\ kernel \in Seq(Byte) /\ batch \in Seq(Byte)
      /\ channel \in Seq(Seq(Byte)) /\ emitted \in Seq(Seq(Byte))
  BY DEF Streams
<1>b. E \in Seq(Byte) /\ C \in Seq(Byte)
  BY <1>a, FlattenTyped DEF Bytes
<1>c. E \o batch \in Seq(Byte) /\ E \o batch \o C \in Seq(Byte)
  BY <1>a, <1>b, CatSeq DEF Cat
<1>f. Cat(E, batch) \in Seq(Byte) /\ Cat(Cat(E, batch), C) \in Seq(Byte)
  BY <1>c, Zenon DEF Cat
<1>d. produced = E \o batch \o C \o kernel
  BY DEF Verbatim
<1>e. UNCHANGED <<produced, kernel, batch, channel, emitted>> => Goal
  BY <1>a, <1>d DEF Streams, Verbatim
<1> HIDE DEF E, C
<1> USE DEF progVars, readVars, holdVars, sinkVars
<1>1. ASSUME NEW x \in Byte, ProgramWrites(x) PROVE Goal
  <2>1. /\ produced' = Append(produced, x) /\ kernel' = Append(kernel, x)
        /\ UNCHANGED <<batch, channel, emitted>>
    BY <1>1 DEF ProgramWrites
  <2>2. Append(produced, x) = E \o batch \o C \o Append(kernel, x)
    <3>1. Append(Cat(Cat(Cat(E, batch), C), kernel), x) = Cat(Cat(Cat(E, batch), C), Append(kernel, x))
      BY <1>a, <1>f, WritingKeeps
    <3> QED BY <1>d, <3>1, Zenon DEF Cat
  <2>3. Verbatim'
    BY <2>1, <2>2 DEF Verbatim, E, C
  <2>4. Streams'
    BY <1>a, <2>1, AppendProperties DEF Streams
  <2> QED BY <2>3, <2>4
<1>2. ASSUME NEW n \in 1..ReadBuf, ReaderReads(n) PROVE Goal
  <2>1. UNCHANGED <<produced, batch, emitted>>
    BY <1>2 DEF ReaderReads
  <2>2. PICK x \in Seq(Byte) : /\ channel' = Append(channel, x) /\ kernel' \in Seq(Byte)
                               /\ x \o kernel' = kernel
    BY <1>2, Reads
  <2>3. E \o batch \o (C \o x) \o kernel' = E \o batch \o C \o kernel
    <3>1. Cat(Cat(Cat(E, batch), Cat(C, x)), kernel') = Cat(Cat(Cat(E, batch), C), Cat(x, kernel'))
      BY <1>b, <1>f, <2>2, ReadingKeeps
    <3> QED BY <2>2, <3>1, Zenon DEF Cat
  <2>4. Bytes(channel)' = C \o x
    BY <1>a, <2>2, FlattenAppend DEF Bytes, C
  <2>5. Verbatim'
    BY <1>d, <2>1, <2>3, <2>4, Zenon DEF Verbatim, E
  <2>6. Streams'
    BY <1>a, <2>1, <2>2, AppendProperties DEF Streams
  <2> QED BY <2>5, <2>6
<1>3. CASE PumpReceives
  <2> DEFINE d == Head(channel)
             R == Bytes(channel)'
  <2>1. /\ channel # <<>> /\ channel' = Tail(channel) /\ UNCHANGED <<produced, kernel>>
        /\ Flush(batch \o d) \/ (batch' = batch \o d /\ emitted' = emitted)
    BY <1>3 DEF PumpReceives
  <2>2. d \in Seq(Byte) /\ channel' \in Seq(Seq(Byte))
    BY <1>a, <2>1, HeadTailProperties
  <2>3. C = d \o R /\ R \in Seq(Byte)
    <3>1. C = d \o FlattenSeq(Tail(channel))
      BY <1>a, <2>1, FlattenHead, Zenon DEF C, Bytes
    <3>2. R = FlattenSeq(Tail(channel))
      BY <2>1 DEF Bytes
    <3>3. R \in Seq(Byte)
      BY <2>2, FlattenTyped DEF Bytes
    <3> QED BY <3>1, <3>2, <3>3, Zenon
  <2> HIDE DEF d, R
  <2>4. batch \o d \in Seq(Byte)
    BY <1>a, <2>2, CatSeq DEF Cat
  <2>5. /\ emitted' \in Seq(Seq(Byte)) /\ batch' \in Seq(Byte)
        /\ Bytes(emitted)' \o batch' = E \o (batch \o d)
    <3>1. CASE Flush(batch \o d)
      <4>1. emitted' \in Seq(Seq(Byte)) /\ batch' = <<>> /\ Bytes(emitted)' = E \o (batch \o d)
        BY <1>a, <2>4, <3>1, Flushes DEF E
      <4>2. E \o (batch \o d) \in Seq(Byte)
        BY <1>b, <2>4, CatSeq DEF Cat
      <4>3. (E \o (batch \o d)) \o <<>> = E \o (batch \o d)
        BY <4>2, ConcatEmptySeq
      <4>4. <<>> \in Seq(Byte)
        OBVIOUS
      <4> QED BY <4>1, <4>3, <4>4, Zenon
    <3>2. CASE batch' = batch \o d /\ emitted' = emitted
      BY <1>a, <2>4, <3>2, Zenon DEF E, Bytes
    <3> QED BY <2>1, <3>1, <3>2
  <2>6. (E \o (batch \o d)) \o R \o kernel = E \o batch \o (d \o R) \o kernel
    <3>1. /\ Cat(Cat(Cat(E, Cat(batch, d)), R), kernel)
             = Cat(Cat(Cat(E, batch), Cat(d, R)), kernel)
      BY <1>a, <1>b, <2>2, <2>3, ReceivingKeeps
    <3> QED BY <3>1, Zenon DEF Cat
  <2>7. Verbatim'
    BY <1>d, <2>1, <2>3, <2>5, <2>6, Zenon DEF Verbatim, R
  <2>8. Streams'
    BY <1>a, <2>1, <2>2, <2>5 DEF Streams
  <2> QED BY <2>7, <2>8
<1>4. CASE PumpTimesOut \/ PumpDisconnects
  <2>1. Flush(batch) /\ UNCHANGED <<produced, kernel, channel>>
    BY <1>4 DEF PumpTimesOut, PumpDisconnects
  <2>2. emitted' \in Seq(Seq(Byte)) /\ batch' = <<>> /\ Bytes(emitted)' = E \o batch
    BY <1>a, <2>1, Flushes DEF E
  <2>3. (E \o batch) \o <<>> = E \o batch
    BY <1>c, ConcatEmptySeq
  <2>4. Bytes(channel)' = C
    BY <2>1 DEF C
  <2>5. Verbatim'
    BY <1>d, <2>1, <2>2, <2>3, <2>4, Zenon DEF Verbatim
  <2>6. Streams'
    BY <1>a, <2>1, <2>2 DEF Streams
  <2> QED BY <2>5, <2>6
<1>5. CASE ChildClosesTty \/ ChildExits \/ ReaderEof
  BY <1>5, <1>e DEF ChildClosesTty, ChildExits, ReaderEof
<1>6. CASE PumpLocksChild \/ PumpReaps
  BY <1>6, <1>e DEF PumpLocksChild, PumpReaps
<1>7. CASE KillCalled \/ KillLocks \/ KillEnds
  BY <1>7, <1>e DEF KillCalled, KillLocks, KillEnds
<1>8. CASE Tick
  BY <1>8, <1>e DEF Tick
<1>9. CASE UNCHANGED vars
  BY <1>9, <1>e DEF vars
<1> QED
  BY <1>1, <1>2, <1>3, <1>4, <1>5, <1>6, <1>7, <1>8, <1>9 DEF Next, Reader, Pump

-----------------------------------------------------------------------------
(* The bound of the clocks is a number, whatever the sizes.                  *)
LEMMA AgeCapTyped == AgeCap \in Nat
<1>1. FlushInterval \in Nat /\ MaxSyncHold \in Nat /\ MaxBytes + 2 \in Nat
  BY SizesPositive, MaxBytesNat
<1>2. \A m, n \in Nat : m * n \in Nat
  OBVIOUS
<1>3. MaxSyncHold * (MaxBytes + 2) \in Nat
  BY <1>1, <1>2
<1> QED BY <1>1, <1>3 DEF AgeCap

(* The threads, the child and the clocks.                                    *)
Threads == /\ tty \in BOOLEAN /\ child \in {"running", "exited"}
           /\ reader \in {"reading", "done"}
           /\ pump \in {"pumping", "reaping", "waiting", "done"}
           /\ exited \in BOOLEAN
           /\ killer \in {"idle", "locking", "killing", "done"}

Clocks == age \in 0..AgeCap /\ syncAge \in 0..AgeCap /\ synced \in BOOLEAN

(* Every step keeps the threads where they can be, ...                       *)
LEMMA StepThreads == Threads /\ [Next]_vars => Threads'
<1> SUFFICES ASSUME Threads, [Next]_vars PROVE Threads'
  OBVIOUS
<1> USE DEF Threads, progVars, readVars, holdVars, sinkVars
<1>1. ASSUME NEW x \in Byte, ProgramWrites(x) PROVE Threads'
  BY <1>1 DEF ProgramWrites
<1>2. ASSUME NEW n \in 1..ReadBuf, ReaderReads(n) PROVE Threads'
  BY <1>2 DEF ReaderReads
<1>3. CASE PumpReceives
  BY <1>3 DEF PumpReceives
<1>4. CASE PumpTimesOut \/ PumpDisconnects
  BY <1>4 DEF PumpTimesOut, PumpDisconnects
<1>5. CASE ChildClosesTty \/ ChildExits \/ ReaderEof
  BY <1>5 DEF ChildClosesTty, ChildExits, ReaderEof
<1>6. CASE PumpLocksChild \/ PumpReaps
  BY <1>6 DEF PumpLocksChild, PumpReaps
<1>7. CASE KillCalled \/ KillLocks \/ KillEnds
  BY <1>7 DEF KillCalled, KillLocks, KillEnds
<1>8. CASE Tick
  BY <1>8 DEF Tick
<1>9. CASE UNCHANGED vars
  BY <1>9 DEF vars
<1> QED
  BY <1>1, <1>2, <1>3, <1>4, <1>5, <1>6, <1>7, <1>8, <1>9 DEF Next, Reader, Pump

(* ... and the clocks under their bound.                                     *)
LEMMA StepClocks == Clocks /\ Streams /\ [Next]_vars => Clocks'
<1> SUFFICES ASSUME Clocks, Streams, [Next]_vars PROVE Clocks'
  OBVIOUS
<1>a. AgeCap \in Nat /\ 0 \in 0..AgeCap
  BY AgeCapTyped
<1>b. UNCHANGED <<age, syncAge, synced>> => Clocks'
  BY DEF Clocks
<1>f. ASSUME NEW bytes, Flush(bytes) PROVE age' \in 0..AgeCap
  BY <1>a, <1>f DEF Flush, Clocks
<1> USE DEF progVars, readVars, holdVars, sinkVars
<1>1. ASSUME NEW x \in Byte, ProgramWrites(x) PROVE Clocks'
  BY <1>1, <1>b DEF ProgramWrites
<1>2. ASSUME NEW n \in 1..ReadBuf, ReaderReads(n) PROVE Clocks'
  BY <1>2, <1>b DEF ReaderReads
<1>3. CASE PumpReceives
  <2> DEFINE data == Head(channel)
             last == CHOOSE i \in SyncMarks(data) : \A j \in SyncMarks(data) : j <= i
  <2>1. synced' \in BOOLEAN
    <3>1. synced' = IF SyncMarks(data) = {} THEN synced ELSE data[last] = "on"
      BY <1>3, Zenon DEF PumpReceives
    <3>2. CASE SyncMarks(data) = {}
      BY <3>1, <3>2 DEF Clocks
    <3>3. CASE SyncMarks(data) # {}
      <4>1. (data[last] = "on") \in BOOLEAN
        BY Zenon
      <4> QED BY <3>1, <3>3, <4>1, Zenon
    <3> QED BY <3>2, <3>3
  <2>2. syncAge' \in 0..AgeCap
    <3>1. syncAge' = IF SyncMarks(data) = {} THEN syncAge ELSE 0
      BY <1>3, Zenon DEF PumpReceives
    <3> QED BY <1>a, <3>1 DEF Clocks
  <2>3. Flush(batch \o data) \/ age' = age
    BY <1>3, Zenon DEF PumpReceives
  <2>4. age' \in 0..AgeCap
    BY <1>f, <2>3 DEF Clocks
  <2> QED BY <2>1, <2>2, <2>4 DEF Clocks
<1>4. CASE PumpTimesOut \/ PumpDisconnects
  <2>1. Flush(batch) /\ UNCHANGED <<synced, syncAge>>
    BY <1>4 DEF PumpTimesOut, PumpDisconnects
  <2> QED BY <1>f, <2>1 DEF Clocks
<1>5. CASE ChildClosesTty \/ ChildExits \/ ReaderEof
  BY <1>5, <1>b DEF ChildClosesTty, ChildExits, ReaderEof
<1>6. CASE PumpLocksChild \/ PumpReaps
  BY <1>6, <1>b DEF PumpLocksChild, PumpReaps
<1>7. CASE KillCalled \/ KillLocks \/ KillEnds
  BY <1>7, <1>b DEF KillCalled, KillLocks, KillEnds
<1>8. CASE Tick
  <2>1. \A a \in 0..AgeCap : Older(a) \in 0..AgeCap
    BY <1>a DEF Older
  <2> QED BY <1>8, <1>a, <2>1 DEF Tick, Clocks
<1>9. CASE UNCHANGED vars
  BY <1>9, <1>b DEF vars
<1> QED
  BY <1>1, <1>2, <1>3, <1>4, <1>5, <1>6, <1>7, <1>8, <1>9 DEF Next, Reader, Pump

-----------------------------------------------------------------------------
(* How far the end has got: the reader stops at a hung-up and empty terminal,*)
(* the pump at a drained channel, and the exit is told of a reaped child.    *)
Ending == /\ reader = "done" => ~tty /\ kernel = <<>>
          /\ pump # "pumping" => reader = "done" /\ channel = <<>> /\ batch = <<>>
          /\ exited => child = "exited" /\ pump = "done"

(* Every step keeps it: nothing is written to a terminal hung up, and       *)
(* nothing is read once the reader has left.                                 *)
LEMMA StepEnding == Streams /\ Ending /\ [Next]_vars => Ending'
<1> SUFFICES ASSUME Streams, Ending, [Next]_vars PROVE Ending'
  OBVIOUS
<1>a. /\ kernel \in Seq(Byte) /\ batch \in Seq(Byte)
      /\ reader = "done" => ~tty /\ kernel = <<>>
      /\ pump # "pumping" => reader = "done" /\ channel = <<>> /\ batch = <<>>
      /\ exited => child = "exited" /\ pump = "done"
  BY DEF Streams, Ending
<1> USE DEF progVars, readVars, holdVars, sinkVars
<1>1. ASSUME NEW x \in Byte, ProgramWrites(x) PROVE Ending'
  <2>1. tty /\ UNCHANGED <<tty, child, reader, channel, batch, pump, exited>>
    BY <1>1 DEF ProgramWrites
  <2> QED BY <1>a, <2>1 DEF Ending
<1>2. ASSUME NEW n \in 1..ReadBuf, ReaderReads(n) PROVE Ending'
  <2>1. reader = "reading" /\ UNCHANGED <<tty, child, reader, batch, pump, exited>>
    BY <1>2 DEF ReaderReads
  <2> QED BY <1>a, <2>1 DEF Ending
<1>3. CASE PumpReceives
  <2>1. pump = "pumping" /\ UNCHANGED <<kernel, tty, child, reader, pump, exited>>
    BY <1>3 DEF PumpReceives
  <2> QED BY <1>a, <2>1 DEF Ending
<1>4. CASE PumpTimesOut
  <2>1. pump = "pumping" /\ UNCHANGED <<kernel, tty, child, reader, pump, exited>>
    BY <1>4 DEF PumpTimesOut, TimeoutDue
  <2> QED BY <1>a, <2>1 DEF Ending
<1>5. CASE PumpDisconnects
  <2>1. /\ pump = "pumping" /\ channel = <<>> /\ reader = "done"
        /\ UNCHANGED <<kernel, tty, child, reader, channel, exited>>
    BY <1>5 DEF PumpDisconnects
  <2>2. batch' = <<>>
    BY <1>5 DEF PumpDisconnects, Flush
  <2> QED BY <1>a, <2>1, <2>2 DEF Ending
<1>6. CASE ChildClosesTty \/ ChildExits \/ KillEnds
  <2>1. ~tty' /\ UNCHANGED <<kernel, reader, channel, batch, pump, exited>>
        /\ child' \in {child, "exited"}
    BY <1>6 DEF ChildClosesTty, ChildExits, KillEnds
  <2> QED BY <1>a, <2>1 DEF Ending
<1>7. CASE ReaderEof
  <2>1. /\ ~tty /\ kernel = <<>> /\ reader' = "done"
        /\ UNCHANGED <<kernel, tty, child, channel, batch, pump, exited>>
    BY <1>7 DEF ReaderEof
  <2> QED BY <1>a, <2>1 DEF Ending
<1>8. CASE PumpLocksChild \/ PumpReaps
  <2>1. /\ pump \in {"reaping", "waiting"}
        /\ UNCHANGED <<kernel, tty, child, reader, channel, batch>>
        /\ \/ pump = "reaping" /\ exited' = exited
           \/ child = "exited" /\ pump' = "done"
    BY <1>8 DEF PumpLocksChild, PumpReaps
  <2> QED BY <1>a, <2>1 DEF Ending
<1>9. CASE KillCalled \/ KillLocks \/ Tick \/ UNCHANGED vars
  <2>1. UNCHANGED <<kernel, tty, child, reader, channel, batch, pump, exited>>
    BY <1>9 DEF KillCalled, KillLocks, Tick, vars
  <2> QED BY <1>a, <2>1 DEF Ending
<1> QED
  BY <1>1, <1>2, <1>3, <1>4, <1>5, <1>6, <1>7, <1>8, <1>9 DEF Next, Reader, Pump

-----------------------------------------------------------------------------
(* All of it together is inductive.                                          *)
IInv == Streams /\ Verbatim /\ Threads /\ Clocks /\ Ending

(* It holds at the start, ...                                                *)
LEMMA Starts == Init => IInv
<1> SUFFICES ASSUME Init PROVE IInv
  OBVIOUS
<1>1. Streams
  BY DEF Init, Streams
<1>2. Verbatim
  <2>1. produced = <<>> /\ kernel = <<>> /\ channel = <<>> /\ batch = <<>> /\ emitted = <<>>
    BY DEF Init
  <2>2. <<>> \o <<>> \o <<>> \o <<>> = <<>>
    BY ConcatEmptySeq
  <2> QED BY <2>1, <2>2, FlattenEmpty, Zenon DEF Verbatim, Bytes
<1>3. Threads /\ Ending
  BY DEF Init, Threads, Ending
<1>4. Clocks
  <2>1. AgeCap \in Nat => 0 \in 0..AgeCap
    OBVIOUS
  <2> QED BY <2>1, AgeCapTyped DEF Init, Clocks
<1> QED BY <1>1, <1>2, <1>3, <1>4 DEF IInv

(* ... and every step keeps it.                                              *)
LEMMA Keeps == Spec => []IInv
<1>1. IInv /\ [Next]_vars => IInv'
  BY StepStreams, StepThreads, StepClocks, StepEnding DEF IInv
<1> QED BY Starts, <1>1, PTL DEF Spec

(* The variables of the pump keep their types, for every buffer, interval and*)
(* amount written.                                                           *)
THEOREM TypeCorrect == Spec => []TypeOK
<1>1. IInv => TypeOK
  BY DEF IInv, Streams, Threads, Clocks, TypeOK
<1> QED BY <1>1, Keeps, PTL

(* Reader, channel and pump pass the bytes on as the program wrote them:     *)
(* emitted, batched, in the channel and unread they are, in order, all of    *)
(* what it wrote.                                                            *)
THEOREM OutputVerbatim == Spec => []Verbatim
<1>1. IInv => Verbatim
  BY DEF IInv
<1> QED BY <1>1, Keeps, PTL

(* When the sink is told of the exit the child is reaped and all it wrote    *)
(* handed over, although reaping and reading are the work of two threads.    *)
THEOREM ExitLast == Spec => []ExitIsLast
<1>1. IInv => ExitIsLast
  <2> SUFFICES ASSUME IInv, exited PROVE child = "exited" /\ Bytes(emitted) = produced
    BY DEF ExitIsLast
  <2>1. child = "exited" /\ kernel = <<>> /\ channel = <<>> /\ batch = <<>>
    BY DEF IInv, Ending
  <2>2. Bytes(emitted) \in Seq(Byte)
    BY FlattenTyped DEF IInv, Streams, Bytes
  <2>3. Bytes(emitted) \o <<>> = Bytes(emitted)
    BY <2>2, ConcatEmptySeq
  <2>4. produced = Bytes(emitted) \o <<>> \o <<>> \o <<>>
    BY <2>1, FlattenEmpty, Zenon DEF IInv, Verbatim, Bytes
  <2>5. produced = Bytes(emitted)
    BY <2>3, <2>4, Zenon
  <2> QED BY <2>1, <2>5
<1> QED BY <1>1, Keeps, PTL

-----------------------------------------------------------------------------
(* OutputSpill, for any caps, pieces and disk.  That no command fills the    *)
(* disk, and that what the store reads accounts for every byte, in order,    *)
(* are not inductive: the bound needs how much of the ceiling the command    *)
(* has used (Bounded), and the reading back what an open file holds at every *)
(* moment (Holds): bytes up to the cut only, all those the disk took, and    *)
(* nothing but the note after them.                                          *)

Opened == spill => MaxInline < written

Bounded ==
  /\ ~truncated /\ spill => Len(file) <= MaxInline + written /\ written <= MaxSpill
  /\ truncated => Len(file) <= MaxInline + MaxSpill + 1 /\ MaxSpill < written

Has(s, b) == \E i \in 1..Len(s) : s[i] = b

Holds(s, h, c) ==
  /\ Ordered(s, h)
  /\ \A i \in 1..Len(s) : s[i] \in 1..c \/ (truncated /\ s[i] = CutNote)
  /\ \A b \in 1..c : b \in lost \/ Has(s, b)
  /\ truncated => CutNote \in lost \/ Has(s, CutNote)

Filed == \E h \in 0..MaxInline, c \in 0..written : Holds(file, h, c) /\ (~truncated => c = written)

Faithful ==
  /\ ~spill => \A b \in 1..written : MaxInline < b => b \in lost
  /\ spill => Filed

SpillInv == SpillTypeOK /\ Opened /\ Bounded /\ Faithful

-----------------------------------------------------------------------------
(* Runs of the command's bytes.                                             *)

LEMMA BytesShape ==
  ASSUME NEW a \in Nat, NEW b \in Nat, a <= b
  PROVE  /\ Len(Span(a, b)) = b - a
         /\ \A i \in 1..(b - a) : Span(a, b)[i] = a + i
         /\ Span(a, b) \in Seq(1..b)
BY DEF Span

Run(s, a, b) == s \in Seq(Nat) /\ Len(s) = b - a /\ \A i \in 1..(b - a) : s[i] = a + i

LEMMA RunsJoin ==
  ASSUME NEW a \in Nat, NEW b \in Nat, NEW c \in Nat, a <= b, b <= c,
         NEW s \in Seq(Nat), NEW t \in Seq(Nat), NEW u \in Seq(Nat),
         Run(s, a, b), Run(t, b, c), Run(u, a, c)
  PROVE  s \o t = u
<1>1. /\ s \o t \in Seq(Nat) /\ Len(s \o t) = Len(s) + Len(t)
      /\ \A i \in 1..(Len(s) + Len(t)) :
            (s \o t)[i] = IF i <= Len(s) THEN s[i] ELSE t[i - Len(s)]
  BY ConcatProperties
<1>2. Len(s \o t) = Len(u)
  BY <1>1 DEF Run
<1>3. ASSUME NEW i \in 1..Len(s \o t) PROVE (s \o t)[i] = u[i]
  <2>1. CASE i <= Len(s)
    BY <1>1, <2>1 DEF Run
  <2>2. CASE Len(s) < i
    <3>1. i - Len(s) \in 1..Len(t)
      BY <1>1, <2>2 DEF Run
    <3>2. i \in 1..(Len(s) + Len(t)) /\ ~(i <= Len(s))
      BY <1>1, <2>2
    <3>3. (s \o t)[i] = t[i - Len(s)]
      BY <1>1, <3>2
    <3>4. t[i - Len(s)] = b + (i - (b - a)) /\ i - Len(s) = i - (b - a)
      BY <3>1 DEF Run
    <3>5. u[i] = a + i
      BY <3>2 DEF Run
    <3> QED
      BY <3>3, <3>4, <3>5
  <2>3. i \in Int /\ Len(s) \in Int
    OBVIOUS
  <2> QED
    BY <2>1, <2>2, <2>3
<1> QED
  BY <1>1, <1>2, <1>3, SeqEqual

LEMMA BytesJoin ==
  ASSUME NEW a \in Nat, NEW b \in Nat, NEW c \in Nat, a <= b, b <= c
  PROVE  Span(a, b) \o Span(b, c) = Span(a, c)
<1>1. Run(Span(a, b), a, b) /\ Run(Span(b, c), b, c) /\ Run(Span(a, c), a, c)
  BY DEF Run, Span
<1>2. /\ Span(a, b) \in Seq(Nat) /\ Span(b, c) \in Seq(Nat) /\ Span(a, c) \in Seq(Nat)
  BY <1>1 DEF Run
<1> QED
  BY <1>1, <1>2, RunsJoin

LEMMA BytesHead ==
  ASSUME NEW a \in Nat, NEW b \in Nat, a <= b, NEW k \in 0..(b - a)
  PROVE  SubSeq(Span(a, b), 1, k) = Span(a, a + k)
BY DEF Span

(* The head kept in the row is the first MaxInline bytes, before and after  *)
(* every piece.                                                             *)
Smaller(a, b) == IF a < b THEN a ELSE b

LEMMA HeadGrows ==
  ASSUME NEW a \in Nat, NEW n \in Nat, NEW c \in Nat
  PROVE  LET w    == Smaller(a, c)
             room == c - w
         IN Span(0, w) \o SubSeq(Span(a, a + n), 1, IF room < n THEN room ELSE n)
              = Span(0, Smaller(a + n, c))
<1>1. CASE a < c
  <2>1. PICK k \in 0..n : k = (IF c - a < n THEN c - a ELSE n)
    BY <1>1
  <2>2. SubSeq(Span(a, a + n), 1, k) = Span(a, a + k)
    <3>1. a + n \in Nat /\ a <= a + n /\ k \in 0..((a + n) - a)
      OBVIOUS
    <3> QED
      BY <3>1, BytesHead
  <2>3. Span(0, a) \o Span(a, a + k) = Span(0, a + k)
    <3>1. 0 \in Nat /\ a + k \in Nat /\ 0 <= a /\ a <= a + k
      OBVIOUS
    <3> QED
      BY <3>1, BytesJoin
  <2>4. Smaller(a, c) = a /\ Smaller(a + n, c) = a + k
    BY <1>1, <2>1 DEF Smaller
  <2> QED
    BY <2>1, <2>2, <2>3, <2>4
<1>2. CASE c <= a
  <2>1. Smaller(a, c) = c /\ Smaller(a + n, c) = c
    BY <1>2 DEF Smaller
  <2>2. (IF c - c < n THEN c - c ELSE n) = 0
    OBVIOUS
  <2>3. SubSeq(Span(a, a + n), 1, 0) = <<>>
    BY DEF Span
  <2>4. Span(0, c) \o <<>> = Span(0, c)
    <3>1. Span(0, c) \in Seq(Nat)
      BY DEF Span
    <3> QED
      BY <3>1, ConcatEmptySeq
  <2> QED
    BY <2>1, <2>2, <2>3, <2>4
<1>3. a < c \/ c <= a
  OBVIOUS
<1> QED
  BY <1>1, <1>2, <1>3

LEMMA HeadKept ==
  ASSUME SpillTypeOK, NEW n \in 1..MaxChunk, AppendOutput(n)
  PROVE  /\ inline' = Span(0, Smaller(written', MaxInline))
         /\ Room = MaxInline - Smaller(written, MaxInline)
<1>1. /\ n \in Nat \ {0} /\ written \in Nat /\ MaxInline \in Nat \ {0}
      /\ written' = written + n
  BY CapsNat DEF SpillTypeOK, AppendOutput
<1>2. inline = Span(0, Smaller(written, MaxInline))
  BY DEF SpillTypeOK, Smaller
<1>3. Room = MaxInline - Smaller(written, MaxInline)
  <2>1. Smaller(written, MaxInline) \in Nat
    BY <1>1 DEF Smaller
  <2>2. Len(inline) = Smaller(written, MaxInline)
    BY <1>2, <2>1 DEF Span
  <2> QED
    BY <2>2 DEF Room
<1>4. inline' = inline \o SubSeq(Span(written, written + n), 1, IF Room < n THEN Room ELSE n)
  BY <1>1 DEF AppendOutput
<1> QED
  BY <1>1, <1>2, <1>3, <1>4, HeadGrows

-----------------------------------------------------------------------------
(* What the calls of a piece leave, in numbers.  The piece's and the head's  *)
(* bytes are runs, and so is what the disk takes of them.                    *)
LEMMA Counts ==
  ASSUME SpillTypeOK, NEW n \in 1..MaxChunk, AppendOutput(n)
  PROVE  /\ n \in Nat \ {0} /\ written \in Nat
         /\ written' = written + n /\ written' \in 0..MaxWritten
         /\ MaxInline \in Nat \ {0} /\ MaxSpill \in Nat \ {0} /\ MaxWritten \in Nat
         /\ MaxInline <= MaxSpill
BY CapsNat, SpillHoldsInline DEF SpillTypeOK, AppendOutput

LEMMA Taken ==
  ASSUME NEW a \in Nat, NEW b \in Nat, a <= b, NEW k \in 0..(b - a)
  PROVE  /\ SubSeq(Span(a, b), 1, k) = Span(a, a + k)
         /\ Refused(Span(a, b), k) = (a + k + 1)..b
<1>1. SubSeq(Span(a, b), 1, k) = Span(a, a + k)
  BY BytesHead
<1>2. Len(Span(a, b)) = b - a /\ \A i \in 1..(b - a) : Span(a, b)[i] = a + i
  BY BytesShape
<1>3. ASSUME NEW x \in (a + k + 1)..b PROVE x \in Refused(Span(a, b), k)
  <2>1. x - a \in (k + 1)..Len(Span(a, b)) /\ Span(a, b)[x - a] = x
    BY <1>2
  <2> QED
    BY <2>1 DEF Refused
<1>4. ASSUME NEW x \in Refused(Span(a, b), k) PROVE x \in (a + k + 1)..b
  <2>1. PICK i \in (k + 1)..Len(Span(a, b)) : x = Span(a, b)[i]
    BY <1>4 DEF Refused
  <2> QED
    BY <1>2, <2>1
<1> QED
  BY <1>1, <1>3, <1>4

Mirrored(held, gone) ==
  \/ /\ UnderCeiling(written') /\ truncated' = truncated
     /\ \E k \in Nat :
          /\ written + k <= written'
          /\ file' = held \o Span(written, written + k)
          /\ lost' = lost \cup gone \cup ((written + k + 1)..written')
  \/ /\ ~UnderCeiling(written') /\ ~truncated /\ truncated' = TRUE
     /\ \/ file' = Append(held, CutNote) /\ lost' = lost \cup gone
        \/ file' = held /\ lost' = lost \cup gone \cup {CutNote}
  \/ /\ ~UnderCeiling(written') /\ truncated /\ truncated' = truncated /\ file' = held
     /\ lost' = lost \cup gone

(* Nothing to spill yet; a file to write after; one just opened; and none.   *)
HeadTakes == /\ written' <= MaxInline
             /\ spill' = spill /\ file' = file /\ truncated' = truncated /\ lost' = lost
PieceGoes == spill /\ spill' /\ Mirrored(file, {})
FileOpens == ~spill /\ spill' /\ \E k \in 0..MaxInline : Mirrored(Span(0, k), (k + 1)..MaxInline)
PieceMisses == /\ ~spill /\ spill' = spill /\ file' = file /\ truncated' = truncated
               /\ lost' = lost \cup {b \in (written + 1)..written' : MaxInline < b}

LEMMA Pieces ==
  ASSUME SpillTypeOK, NEW n \in 1..MaxChunk, AppendOutput(n)
  PROVE  /\ HeadTakes \/ PieceGoes \/ FileOpens \/ PieceMisses
         /\ ~HeadTakes => MaxInline < written'
<1>1. /\ n \in Nat \ {0} /\ written \in Nat /\ written' = written + n /\ written' \in Nat
      /\ MaxInline \in Nat \ {0}
  BY Counts
<1>2. ASSUME NEW held, NEW gone, Mirror(held, gone) PROVE Mirrored(held, gone)
  <2>1. CASE UnderCeiling(written')
    <3>1. PICK k \in 0..(written' - written) :
            /\ file' = WriteAll(held, Span(written, written'), k)
            /\ lost' = lost \cup gone \cup Refused(Span(written, written'), k)
      BY <1>2, <2>1 DEF Mirror
    <3>2. written <= written'
      BY <1>1
    <3>3. /\ SubSeq(Span(written, written'), 1, k) = Span(written, written + k)
          /\ Refused(Span(written, written'), k) = (written + k + 1)..written'
      BY <1>1, <3>2, Taken
    <3>4. truncated' = truncated
      BY <1>2, <2>1 DEF Mirror
    <3>5. k \in Nat /\ written + k <= written'
      BY <1>1
    <3> QED
      BY <2>1, <3>1, <3>3, <3>4, <3>5 DEF Mirrored, WriteAll
  <2>2. CASE ~UnderCeiling(written')
    BY <1>2, <2>2 DEF Mirror, Mirrored
  <2> QED
    BY <2>1, <2>2
<1>3. CASE MaxInline < written'
  <2>1. inline' = Span(0, MaxInline)
    <3>1. Smaller(written', MaxInline) = MaxInline
      BY <1>1, <1>3 DEF Smaller
    <3> QED
      BY <3>1, HeadKept
  <2>2. SpillPiece
    BY <1>1, <1>3 DEF AppendOutput
  <2>3. CASE spill /\ Mirror(file, {}) /\ UNCHANGED spill
    BY <1>2, <1>3, <2>3 DEF PieceGoes
  <2>4. CASE /\ ~spill /\ spill' = TRUE
             /\ \E k \in 0..Len(Seed(inline')) :
                  Mirror(WriteAll(<<>>, Seed(inline'), k), Refused(Seed(inline'), k))
    <3>1. Len(inline') = MaxInline
      BY <1>1, <2>1, BytesShape
    <3>2. PICK k \in 0..MaxInline : Mirror(WriteAll(<<>>, inline', k), Refused(inline', k))
      BY <2>4, <3>1 DEF Seed
    <3>3. /\ SubSeq(inline', 1, k) = Span(0, k)
          /\ Refused(inline', k) = (k + 1)..MaxInline
      <4>1. 0 \in Nat /\ MaxInline \in Nat /\ 0 <= MaxInline /\ k \in 0..(MaxInline - 0)
            /\ 0 + k = k /\ 0 + k + 1 = k + 1
        BY <1>1
      <4> QED
        BY <2>1, <4>1, Taken
    <3>4. WriteAll(<<>>, inline', k) = Span(0, k)
      <4>1. Span(0, k) \in Seq(Nat)
        BY <1>1 DEF Span
      <4>2. <<>> \o Span(0, k) = Span(0, k)
        BY <4>1, ConcatEmptySeq
      <4> QED
        BY <3>3, <4>2 DEF WriteAll
    <3>5. Mirrored(Span(0, k), (k + 1)..MaxInline)
      BY <1>2, <3>2, <3>3, <3>4
    <3> QED
      BY <1>3, <2>4, <3>5 DEF FileOpens
  <2>5. CASE /\ ~spill /\ UNCHANGED <<spill, file, truncated>>
             /\ lost' = lost \cup {b \in (written + 1)..written' : MaxInline < b}
    BY <1>3, <2>5 DEF PieceMisses
  <2> QED
    BY <2>2, <2>3, <2>4, <2>5 DEF SpillPiece
<1>4. CASE ~(MaxInline < written')
  BY <1>1, <1>4 DEF AppendOutput, HeadTakes
<1> QED
  BY <1>3, <1>4

-----------------------------------------------------------------------------
(* Types.                                                                   *)
LEMMA MirroredTyped ==
  ASSUME SpillTypeOK, NEW n \in 1..MaxChunk, AppendOutput(n),
         NEW held \in Seq(1..CutNote), NEW gone \in SUBSET (1..CutNote), Mirrored(held, gone)
  PROVE  file' \in Seq(1..CutNote) /\ lost' \subseteq 1..CutNote /\ truncated' \in BOOLEAN
<1>1. /\ written \in Nat /\ written' \in 0..MaxWritten /\ MaxWritten \in Nat
      /\ CutNote = MaxWritten + 1
  BY Counts DEF CutNote
<1>2. CutNote \in 1..CutNote /\ lost \subseteq 1..CutNote /\ truncated \in BOOLEAN
  BY <1>1 DEF SpillTypeOK
<1>3. Append(held, CutNote) \in Seq(1..CutNote)
  BY <1>2, AppendProperties
<1>4. ASSUME NEW k \in Nat, written + k <= written'
      PROVE  /\ held \o Span(written, written + k) \in Seq(1..CutNote)
             /\ (written + k + 1)..written' \subseteq 1..CutNote
  <2>1. written + k \in Nat /\ written <= written + k /\ written + k <= CutNote
    BY <1>1, <1>4
  <2>2. Span(written, written + k) \in Seq(1..CutNote)
    BY <1>1, <2>1 DEF Span
  <2> QED
    BY <1>1, <2>1, <2>2, ConcatProperties
<1> QED
  BY <1>2, <1>3, <1>4, Zenon DEF Mirrored

LEMMA SpillTypes ==
  ASSUME SpillTypeOK, [SpillNext]_spillVars
  PROVE  SpillTypeOK'
<1>1. ASSUME NEW n \in 1..MaxChunk, AppendOutput(n) PROVE SpillTypeOK'
  <2>1. written' \in 0..MaxWritten /\ finished' = finished
    BY <1>1, Counts DEF AppendOutput
  <2>2. inline' = Span(0, IF written' < MaxInline THEN written' ELSE MaxInline)
    BY <1>1, HeadKept DEF Smaller
  <2>3. /\ written \in Nat /\ written' \in Nat /\ MaxInline \in Nat \ {0} /\ MaxWritten \in Nat
        /\ written' <= MaxWritten /\ CutNote = MaxWritten + 1
    BY <1>1, Counts DEF CutNote
  <2>4. CASE HeadTakes
    BY <2>1, <2>2, <2>4 DEF HeadTakes, SpillTypeOK
  <2>5. CASE PieceGoes
    <3>1. file' \in Seq(1..CutNote) /\ lost' \subseteq 1..CutNote /\ truncated' \in BOOLEAN
      <4>1. file \in Seq(1..CutNote) /\ {} \in SUBSET (1..CutNote)
        BY DEF SpillTypeOK
      <4> QED
        BY <1>1, <2>5, <4>1, MirroredTyped DEF PieceGoes
    <3> QED
      BY <2>1, <2>2, <2>5, <3>1 DEF PieceGoes, SpillTypeOK
  <2>6. CASE FileOpens /\ MaxInline < written'
    <3>1. PICK k \in 0..MaxInline : Mirrored(Span(0, k), (k + 1)..MaxInline)
      BY <2>6 DEF FileOpens
    <3>2. Span(0, k) \in Seq(1..CutNote) /\ (k + 1)..MaxInline \in SUBSET (1..CutNote)
      BY <2>3, <2>6 DEF Span
    <3>3. file' \in Seq(1..CutNote) /\ lost' \subseteq 1..CutNote /\ truncated' \in BOOLEAN
      BY <1>1, <3>1, <3>2, MirroredTyped
    <3> QED
      BY <2>1, <2>2, <2>6, <3>3 DEF FileOpens, SpillTypeOK
  <2>7. CASE PieceMisses
    <3>1. {b \in (written + 1)..written' : MaxInline < b} \subseteq 1..CutNote
      BY <2>3
    <3>2. lost' \subseteq 1..CutNote
      BY <2>7, <3>1 DEF PieceMisses, SpillTypeOK
    <3>3. /\ file' \in Seq(1..CutNote) /\ truncated' \in BOOLEAN
          /\ file' = <<>> /\ ~truncated' /\ finished' \in BOOLEAN
      BY <2>1, <2>7 DEF PieceMisses, SpillTypeOK
    <3>4. spill' \in BOOLEAN
      BY <2>7 DEF PieceMisses, SpillTypeOK
    <3> QED
      BY <2>1, <2>2, <3>2, <3>3, <3>4 DEF SpillTypeOK
  <2> QED
    BY <1>1, <2>4, <2>5, <2>6, <2>7, Pieces
<1>2. CASE FinishCommand
  BY <1>2 DEF SpillTypeOK, FinishCommand
<1>3. CASE UNCHANGED spillVars
  BY <1>3 DEF SpillTypeOK, spillVars
<1> QED
  BY <1>1, <1>2, <1>3 DEF SpillNext

LEMMA SpillTypesStart == SpillInit => SpillTypeOK
<1> SUFFICES ASSUME SpillInit PROVE SpillTypeOK
  OBVIOUS
<1>1. inline = Span(0, IF written < MaxInline THEN written ELSE MaxInline)
  <2>1. Span(0, 0) = <<>>
    BY DEF Span
  <2>2. (IF 0 < MaxInline THEN 0 ELSE MaxInline) = 0
    BY CapsNat
  <2> QED
    BY <2>1, <2>2 DEF SpillInit
<1>2. written \in 0..MaxWritten
  BY CapsNat DEF SpillInit
<1>3. file \in Seq(1..CutNote)
  BY DEF SpillInit
<1> QED
  BY <1>1, <1>2, <1>3 DEF SpillInit, SpillTypeOK

(* The row's head, the file, the flags and what the disk refused keep their  *)
(* types, for any caps.                                                      *)
THEOREM SpillTypeCorrect == SpillSpec => []SpillTypeOK
<1>1. SpillTypeOK /\ [SpillNext]_spillVars => SpillTypeOK'
  BY SpillTypes
<1> QED
  BY <1>1, SpillTypesStart, PTL DEF SpillSpec

-----------------------------------------------------------------------------
(* The ceiling.                                                             *)
LEMMA OpenedStep ==
  ASSUME SpillTypeOK, Opened, [SpillNext]_spillVars
  PROVE  Opened'
<1>1. ASSUME NEW n \in 1..MaxChunk, AppendOutput(n) PROVE Opened'
  <2>1. /\ written' = written + n /\ n \in Nat \ {0} /\ written \in Nat /\ written' \in Nat
        /\ MaxInline \in Nat
    BY <1>1, Counts
  <2>2. spill' => spill \/ MaxInline < written'
    BY <1>1, Pieces DEF HeadTakes
  <2> QED
    BY <2>1, <2>2 DEF Opened
<1>2. CASE FinishCommand \/ UNCHANGED spillVars
  BY <1>2 DEF Opened, FinishCommand, spillVars
<1> QED
  BY <1>1, <1>2 DEF SpillNext

LEMMA MirroredBounded ==
  ASSUME SpillTypeOK, NEW n \in 1..MaxChunk, AppendOutput(n),
         NEW held \in Seq(1..CutNote), NEW gone, Mirrored(held, gone), ~truncated,
         Len(held) <= MaxInline + written, Len(held) <= MaxInline + MaxSpill
  PROVE  /\ ~truncated' => Len(file') <= MaxInline + written' /\ written' <= MaxSpill
         /\ truncated' => Len(file') <= MaxInline + MaxSpill + 1 /\ MaxSpill < written'
<1>1. /\ n \in Nat \ {0} /\ written \in Nat /\ written' = written + n /\ written' \in Nat
      /\ MaxInline \in Nat /\ MaxSpill \in Nat /\ Len(held) \in Nat
  BY Counts
<1>2. CASE UnderCeiling(written')
  <2>1. PICK k \in Nat : written + k <= written' /\ file' = held \o Span(written, written + k)
    BY <1>2 DEF Mirrored
  <2>2. /\ Span(written, written + k) \in Seq(Nat) /\ Len(Span(written, written + k)) = k
        /\ held \in Seq(Nat)
    BY <1>1, Counts DEF Span, CutNote
  <2>3. Len(file') = Len(held) + k
    BY <2>1, <2>2, ConcatProperties
  <2> QED
    BY <1>1, <1>2, <2>1, <2>3 DEF Mirrored, UnderCeiling
<1>3. CASE ~UnderCeiling(written')
  <2>1. Len(Append(held, CutNote)) = Len(held) + 1
    BY AppendProperties
  <2>2. MaxSpill < written' /\ truncated' /\ (file' = held \/ file' = Append(held, CutNote))
    BY <1>1, <1>3 DEF Mirrored, UnderCeiling
  <2> QED
    BY <1>1, <2>1, <2>2
<1> QED
  BY <1>2, <1>3

LEMMA BoundedStep ==
  ASSUME SpillTypeOK, Opened, Bounded, [SpillNext]_spillVars
  PROVE  Bounded'
<1>1. ASSUME NEW n \in 1..MaxChunk, AppendOutput(n) PROVE Bounded'
  <2>1. /\ n \in Nat \ {0} /\ written \in Nat /\ written' = written + n /\ written' \in Nat
        /\ MaxInline \in Nat \ {0} /\ MaxSpill \in Nat \ {0} /\ MaxInline <= MaxSpill
        /\ MaxWritten \in Nat
    BY <1>1, Counts
  <2>2. CASE HeadTakes \/ PieceMisses
    <3>1. (spill' => spill) /\ file' = file /\ truncated' = truncated
      BY <2>2 DEF HeadTakes, PieceMisses
    <3>2. ~spill
      BY <2>1, <2>2 DEF HeadTakes, PieceMisses, Opened
    <3> QED
      BY <3>1, <3>2 DEF Bounded, SpillTypeOK
  <2>3. CASE PieceGoes /\ truncated
    <3>1. ~UnderCeiling(written') /\ MaxSpill < written'
      BY <2>1, <2>3 DEF Bounded, UnderCeiling
    <3>2. file' = file /\ truncated' = truncated
      BY <2>3, <3>1 DEF PieceGoes, Mirrored
    <3> QED
      BY <2>3, <3>1, <3>2 DEF Bounded
  <2>4. CASE PieceGoes /\ ~truncated
    <3>1. /\ file \in Seq(1..CutNote) /\ Len(file) \in Nat
          /\ Len(file) <= MaxInline + written /\ written <= MaxSpill
      BY <2>4 DEF PieceGoes, SpillTypeOK, Bounded
    <3>2. Len(file) <= MaxInline + MaxSpill
      BY <2>1, <3>1
    <3> QED
      BY <1>1, <2>4, <3>1, <3>2, MirroredBounded DEF PieceGoes, Bounded
  <2>5. CASE FileOpens
    <3>1. PICK k \in 0..MaxInline : Mirrored(Span(0, k), (k + 1)..MaxInline)
      BY <2>5 DEF FileOpens
    <3>2. k \in Nat /\ Len(Span(0, k)) = k /\ ~truncated
      BY <2>1, <2>5 DEF FileOpens, SpillTypeOK, Span
    <3>3. MaxInline < written' /\ written' <= MaxWritten
      <4>1. ~HeadTakes
        BY <2>5 DEF FileOpens, HeadTakes
      <4>2. MaxInline < written'
        BY <1>1, <4>1, Pieces
      <4> QED
        BY <1>1, <4>2, Counts
    <3>4. Span(0, k) \in Seq(1..CutNote)
      BY <2>1, <3>3 DEF Span, CutNote
    <3>5. Len(Span(0, k)) <= MaxInline + written /\ Len(Span(0, k)) <= MaxInline + MaxSpill
      BY <2>1, <3>2
    <3>6. spill'
      BY <2>5 DEF FileOpens
    <3> QED
      BY <1>1, <3>1, <3>2, <3>4, <3>5, <3>6, MirroredBounded DEF Bounded
  <2> QED
    BY <1>1, <2>2, <2>3, <2>4, <2>5, Pieces
<1>2. CASE FinishCommand \/ UNCHANGED spillVars
  BY <1>2 DEF Bounded, FinishCommand, spillVars
<1> QED
  BY <1>1, <1>2 DEF SpillNext

LEMMA BoundAlways == SpillSpec => [](SpillTypeOK /\ Opened /\ Bounded)
<1>1. SpillInit => SpillTypeOK /\ Opened /\ Bounded
  BY SpillTypesStart DEF SpillInit, Opened, Bounded
<1>2. SpillTypeOK /\ Opened /\ Bounded /\ [SpillNext]_spillVars => (SpillTypeOK /\ Opened /\ Bounded)'
  BY SpillTypes, OpenedStep, BoundedStep
<1> QED
  BY <1>1, <1>2, PTL DEF SpillSpec

(* append_output's max_spill: no command leaves more on disk than the       *)
(* ceiling, the head seeded before it and the note, whatever the caps, the  *)
(* pieces and the calls the disk refuses.                                   *)
THEOREM SpillBounded == SpillSpec => []DiskBounded
<1>1. SpillTypeOK /\ Opened /\ Bounded => DiskBounded
  <2> SUFFICES ASSUME SpillTypeOK, Opened, Bounded PROVE DiskBounded
    OBVIOUS
  <2>1. MaxInline \in Nat /\ MaxSpill \in Nat /\ written \in Nat /\ Len(file) \in Nat
    BY CapsNat DEF SpillTypeOK
  <2>2. CASE truncated
    BY <2>1, <2>2 DEF Bounded, DiskBounded
  <2>3. CASE ~truncated /\ spill
    BY <2>1, <2>3 DEF Bounded, DiskBounded
  <2>4. CASE ~spill
    <3>1. Len(file) = 0
      BY <2>4 DEF SpillTypeOK
    <3> QED
      BY <2>1, <3>1 DEF DiskBounded
  <2> QED
    BY <2>2, <2>3, <2>4
<1> QED
  BY <1>1, BoundAlways, PTL

-----------------------------------------------------------------------------
(* Reading back.                                                            *)

LEMMA RunJoined ==
  ASSUME NEW s \in Seq(Nat), NEW u \in Seq(Nat)
  PROVE  /\ s \o u \in Seq(Nat) /\ Len(s \o u) = Len(s) + Len(u) /\ Len(s) \in Nat
         /\ \A i \in 1..(Len(s) + Len(u)) : (s \o u)[i] = IF i <= Len(s) THEN s[i] ELSE u[i - Len(s)]
BY ConcatProperties

(* A run written after what holds nothing from there on ...                 *)
LEMMA Longer ==
  ASSUME NEW s \in Seq(Nat), NEW h \in Nat, NEW a \in Nat, NEW k \in Nat,
         Ordered(s, h), \A i \in (h + 1)..Len(s) : s[i] <= a
  PROVE  LET t == s \o Span(a, a + k)
         IN /\ Ordered(t, h)
            /\ \A i \in 1..Len(t) : (i \in 1..Len(s) /\ t[i] = s[i]) \/ t[i] \in (a + 1)..(a + k)
            /\ \A b \in (a + 1)..(a + k) : Has(t, b)
            /\ \A b : Has(s, b) => Has(t, b)
<1> DEFINE u == Span(a, a + k)
           t == s \o u
<1>1. u \in Seq(Nat) /\ Len(u) = k /\ \A i \in 1..k : u[i] = a + i
  BY DEF Span
<1> HIDE DEF u
<1>2. /\ t \in Seq(Nat) /\ Len(t) = Len(s) + k /\ Len(s) \in Nat
      /\ \A i \in 1..(Len(s) + k) : t[i] = IF i <= Len(s) THEN s[i] ELSE u[i - Len(s)]
  <2>1. /\ t \in Seq(Nat) /\ Len(t) = Len(s) + Len(u) /\ Len(s) \in Nat
        /\ \A i \in 1..(Len(s) + Len(u)) : t[i] = IF i <= Len(s) THEN s[i] ELSE u[i - Len(s)]
    BY <1>1, RunJoined
  <2> QED
    BY <1>1, <2>1
<1> HIDE DEF t
<1>3. \A i \in 1..Len(s) : i \in 1..Len(t) /\ t[i] = s[i] /\ s[i] \in Nat
  BY <1>2
<1>4. ASSUME NEW i \in (Len(s) + 1)..Len(t) PROVE i - Len(s) \in 1..k /\ t[i] = a + (i - Len(s))
  <2>1. i - Len(s) \in 1..k /\ ~(i <= Len(s)) /\ i \in 1..(Len(s) + k)
    BY <1>2
  <2>2. t[i] = u[i - Len(s)]
    BY <1>2, <2>1
  <2> QED
    BY <1>1, <2>1, <2>2
<1>5. Ordered(t, h)
  <2>1. h <= Len(s) /\ \A i \in 1..h : i \in 1..Len(s) /\ s[i] = i
    BY <1>2 DEF Ordered
  <2>2. ASSUME NEW i \in (h + 1)..Len(t), NEW j \in (h + 1)..Len(t), i < j PROVE t[i] < t[j]
    <3>1. CASE j <= Len(s)
      <4>1. i \in (h + 1)..Len(s) /\ j \in (h + 1)..Len(s) /\ i \in 1..Len(s) /\ j \in 1..Len(s)
        BY <1>2, <2>2, <3>1
      <4> QED
        BY <1>3, <2>2, <4>1 DEF Ordered
    <3>2. CASE i <= Len(s) /\ Len(s) < j
      <4>1. i \in 1..Len(s) /\ i \in (h + 1)..Len(s) /\ j \in (Len(s) + 1)..Len(t)
        BY <1>2, <2>2, <3>2
      <4>2. t[i] \in Nat /\ t[i] <= a /\ j - Len(s) \in 1..k /\ t[j] = a + (j - Len(s))
        BY <1>3, <1>4, <4>1
      <4> QED
        BY <4>2
    <3>3. CASE Len(s) < i
      <4>1. i \in (Len(s) + 1)..Len(t) /\ j \in (Len(s) + 1)..Len(t)
        BY <1>2, <2>2, <3>3
      <4>2. t[i] = a + (i - Len(s)) /\ t[j] = a + (j - Len(s))
        BY <1>4, <4>1
      <4> QED
        BY <1>2, <2>2, <4>2
    <3> QED
      BY <1>2, <3>1, <3>2, <3>3
  <2>3. h <= Len(t)
    BY <1>2, <2>1
  <2>4. ASSUME NEW i \in 1..h PROVE t[i] = i
    BY <1>3, <2>1
  <2> QED
    BY <2>2, <2>3, <2>4 DEF Ordered
<1>6. ASSUME NEW i \in 1..Len(t)
      PROVE  (i \in 1..Len(s) /\ t[i] = s[i]) \/ t[i] \in (a + 1)..(a + k)
  <2>1. CASE i <= Len(s)
    BY <1>3, <2>1
  <2>2. CASE ~(i <= Len(s))
    <3>1. i \in (Len(s) + 1)..Len(t)
      BY <1>2, <2>2
    <3> QED
      BY <1>4, <3>1
  <2> QED
    BY <2>1, <2>2
<1>7. ASSUME NEW b \in (a + 1)..(a + k) PROVE Has(t, b)
  <2>1. (b - a) + Len(s) \in (Len(s) + 1)..Len(t) /\ ((b - a) + Len(s)) - Len(s) = b - a
    BY <1>2
  <2>2. t[(b - a) + Len(s)] = a + (b - a)
    BY <1>4, <2>1
  <2>3. a + (b - a) = b /\ (b - a) + Len(s) \in 1..Len(t)
    BY <1>2
  <2> QED
    BY <2>2, <2>3 DEF Has
<1>8. \A b : Has(s, b) => Has(t, b)
  BY <1>3 DEF Has
<1> QED
  BY <1>5, <1>6, <1>7, <1>8 DEF t, u

(* ... and the note after it.                                               *)
LEMMA Noted ==
  ASSUME NEW s \in Seq(Nat), NEW h \in Nat, NEW m \in Nat,
         Ordered(s, h), \A i \in 1..Len(s) : s[i] < m
  PROVE  LET t == Append(s, m)
         IN /\ Ordered(t, h)
            /\ \A i \in 1..Len(t) : (i \in 1..Len(s) /\ t[i] = s[i]) \/ t[i] = m
            /\ Has(t, m)
            /\ \A b : Has(s, b) => Has(t, b)
<1> DEFINE t == Append(s, m)
<1>1. /\ Len(t) = Len(s) + 1 /\ Len(s) \in Nat /\ t[Len(s) + 1] = m
      /\ \A i \in 1..Len(s) : t[i] = s[i] /\ s[i] \in Nat
  BY AppendProperties
<1> HIDE DEF t
<1>2. h <= Len(t) /\ \A i \in 1..h : t[i] = i
  BY <1>1 DEF Ordered
<1>3. ASSUME NEW i \in (h + 1)..Len(t), NEW j \in (h + 1)..Len(t), i < j PROVE t[i] < t[j]
  <2>1. CASE j <= Len(s)
    <3>1. i \in (h + 1)..Len(s) /\ j \in (h + 1)..Len(s) /\ i \in 1..Len(s) /\ j \in 1..Len(s)
      BY <1>1, <1>3, <2>1
    <3> QED
      BY <1>1, <1>3, <3>1 DEF Ordered
  <2>2. CASE j = Len(s) + 1
    <3>1. i \in 1..Len(s)
      BY <1>1, <1>3, <2>2
    <3> QED
      BY <1>1, <2>2, <3>1
  <2> QED
    BY <1>1, <2>1, <2>2
<1>4. \A i \in 1..Len(t) : (i \in 1..Len(s) /\ t[i] = s[i]) \/ t[i] = m
  BY <1>1
<1>5. Has(t, m) /\ \A b : Has(s, b) => Has(t, b)
  BY <1>1 DEF Has
<1> QED
  BY <1>2, <1>3, <1>4, <1>5 DEF t, Ordered

(* What the file held before a piece: bytes up to c, all of them but what is *)
(* gone, and after the head only bytes from before the piece.               *)
Behind(held, h, c, gone) ==
  /\ held \in Seq(Nat) /\ h \in 0..MaxInline /\ c \in written..written'
  /\ Ordered(held, h)
  /\ \A i \in (h + 1)..Len(held) : held[i] <= written
  /\ \A i \in 1..Len(held) : held[i] \in 1..c
  /\ \A b \in 1..c : b \in lost \cup gone \/ Has(held, b)

LEMMA MirroredFiled ==
  ASSUME SpillTypeOK, NEW n \in 1..MaxChunk, AppendOutput(n), NEW held, NEW gone,
         NEW h, NEW c, Behind(held, h, c, gone), Mirrored(held, gone), ~truncated
  PROVE  Filed'
<1>1. /\ written \in Nat /\ written' \in Nat /\ written <= written' /\ written' <= MaxWritten
      /\ MaxInline \in Nat /\ MaxWritten \in Nat /\ CutNote = MaxWritten + 1
  BY Counts DEF CutNote
<1>2. /\ held \in Seq(Nat) /\ h \in Nat /\ h \in 0..MaxInline /\ c \in Nat
      /\ written <= c /\ c <= written' /\ Ordered(held, h) /\ Len(held) \in Nat
  BY <1>1 DEF Behind
<1>3. CASE UnderCeiling(written')
  <2>1. PICK k \in Nat :
          /\ written + k <= written'
          /\ file' = held \o Span(written, written + k)
          /\ lost' = lost \cup gone \cup ((written + k + 1)..written')
    BY <1>3 DEF Mirrored
  <2>2. ~truncated'
    BY <1>3 DEF Mirrored
  <2>3. k \in Nat /\ \A i \in (h + 1)..Len(held) : held[i] <= written
    BY <1>1 DEF Behind
  <2>4. /\ Ordered(file', h)
        /\ \A i \in 1..Len(file') : \/ i \in 1..Len(held) /\ file'[i] = held[i]
                                   \/ file'[i] \in (written + 1)..(written + k)
        /\ \A b \in (written + 1)..(written + k) : Has(file', b)
        /\ \A b : Has(held, b) => Has(file', b)
    BY <1>1, <1>2, <2>1, <2>3, Longer
  <2>5. \A i \in 1..Len(file') : file'[i] \in 1..written'
    <3>1. ASSUME NEW i \in 1..Len(file') PROVE file'[i] \in 1..written'
      <4>1. CASE i \in 1..Len(held) /\ file'[i] = held[i]
        BY <1>1, <1>2, <4>1 DEF Behind
      <4>2. CASE file'[i] \in (written + 1)..(written + k)
        <5>1. PICK x \in (written + 1)..(written + k) : x = file'[i]
          BY <4>2
        <5>2. x \in 1..written'
          BY <1>1, <2>1
        <5> QED
          BY <5>1, <5>2
      <4> QED
        BY <2>4, <4>1, <4>2
    <3> QED
      BY <3>1
  <2>6. ASSUME NEW b \in 1..written' PROVE b \in lost' \/ Has(file', b)
    <3>1. CASE b \in 1..c
      BY <2>1, <2>4, <3>1 DEF Behind
    <3>2. CASE b \in (written + 1)..(written + k)
      BY <2>4, <3>2
    <3>3. CASE b \in (written + k + 1)..written'
      BY <2>1, <3>3
    <3> QED
      BY <1>1, <1>2, <2>1, <3>1, <3>2, <3>3
  <2>7. Holds(file, h, written)'
    BY <2>2, <2>4, <2>5, <2>6 DEF Holds
  <2>8. written' \in 0..written'
    BY <1>1
  <2> QED
    BY <1>2, <2>7, <2>8 DEF Filed
<1>4. CASE ~UnderCeiling(written')
  <2>1. truncated'
    BY <1>4 DEF Mirrored
  <2>2. \A i \in 1..Len(held) : held[i] < CutNote
    BY <1>1, <1>2 DEF Behind
  <2>3. c \in 0..written' /\ CutNote \in Nat
    BY <1>1, <1>2
  <2>4. CASE file' = Append(held, CutNote) /\ lost' = lost \cup gone
    <3>1. /\ Ordered(file', h)
          /\ \A i \in 1..Len(file') : (i \in 1..Len(held) /\ file'[i] = held[i]) \/ file'[i] = CutNote
          /\ Has(file', CutNote)
          /\ \A b : Has(held, b) => Has(file', b)
      BY <1>2, <2>2, <2>3, <2>4, Noted
    <3>2. \A i \in 1..Len(file') : file'[i] \in 1..c \/ file'[i] = CutNote
      BY <3>1 DEF Behind
    <3>3. \A b \in 1..c : b \in lost' \/ Has(file', b)
      BY <2>4, <3>1 DEF Behind
    <3>4. ASSUME NEW g, NEW d, g = h, d = c PROVE Holds(file, g, d)'
      BY <2>1, <3>1, <3>2, <3>3, <3>4 DEF Holds, CutNote
    <3> QED
      BY <1>2, <2>1, <2>3, <3>4 DEF Filed
  <2>5. CASE file' = held /\ lost' = lost \cup gone \cup {CutNote}
    <3>1. \A i \in 1..Len(file') : file'[i] \in 1..c
      BY <2>5 DEF Behind
    <3>2. \A b \in 1..c : b \in lost' \/ Has(file', b)
      BY <2>5 DEF Behind
    <3>3. CutNote \in lost' /\ Ordered(file', h)
      BY <1>2, <2>5
    <3>4. ASSUME NEW g, NEW d, g = h, d = c PROVE Holds(file, g, d)'
      BY <2>1, <3>1, <3>2, <3>3, <3>4 DEF Holds, CutNote
    <3> QED
      BY <1>2, <2>1, <2>3, <3>4 DEF Filed
  <2> QED
    BY <1>4, <2>4, <2>5 DEF Mirrored
<1> QED
  BY <1>3, <1>4

(* A file that is just opened holds a beginning of the head, ...             *)
LEMMA Opening ==
  ASSUME SpillTypeOK, Faithful, NEW n \in 1..MaxChunk, AppendOutput(n), ~spill,
         MaxInline < written', NEW k \in 0..MaxInline
  PROVE  \E c : Behind(Span(0, k), k, c, (k + 1)..MaxInline)
<1>1. /\ written \in Nat /\ written' \in Nat /\ written <= written' /\ MaxInline \in Nat /\ k \in Nat
  BY Counts
<1>2. PICK c \in written..written' : c = IF written < MaxInline THEN MaxInline ELSE written
  BY <1>1
<1>3. /\ Span(0, k) \in Seq(Nat) /\ Len(Span(0, k)) = k
      /\ \A i \in 1..k : Span(0, k)[i] = i
  BY <1>1 DEF Span
<1>4. MaxInline <= c /\ c \in Nat
  BY <1>1, <1>2
<1>5. Ordered(Span(0, k), k)
  BY <1>1, <1>3 DEF Ordered
<1>6. \A i \in 1..k : Span(0, k)[i] \in 1..c
  BY <1>1, <1>3, <1>4
<1>7. \A i \in (k + 1)..Len(Span(0, k)) : Span(0, k)[i] <= written
  BY <1>1, <1>3
<1>8. ASSUME NEW b \in 1..c PROVE b \in lost \cup ((k + 1)..MaxInline) \/ Has(Span(0, k), b)
  <2>1. CASE b <= k
    <3>1. b \in 1..Len(Span(0, k)) /\ Span(0, k)[b] = b
      BY <1>1, <1>3, <2>1
    <3> QED
      BY <3>1 DEF Has
  <2>2. CASE k < b /\ b <= MaxInline
    BY <1>1, <2>2
  <2>3. CASE MaxInline < b
    <3>1. b \in 1..written
      BY <1>1, <1>2, <2>3
    <3> QED
      BY <2>3, <3>1 DEF Faithful
  <2> QED
    BY <1>1, <1>4, <2>1, <2>2, <2>3
<1>9. Behind(Span(0, k), k, c, (k + 1)..MaxInline)
  BY <1>2, <1>3, <1>5, <1>6, <1>7, <1>8 DEF Behind
<1> QED
  BY <1>9

LEMMA FaithfulStep ==
  ASSUME SpillInv, [SpillNext]_spillVars
  PROVE  Faithful'
<1> USE DEF SpillInv
<1>1. ASSUME NEW n \in 1..MaxChunk, AppendOutput(n) PROVE Faithful'
  <2>1. /\ written \in Nat /\ written' \in Nat /\ written <= written' /\ written' <= MaxWritten
        /\ MaxInline \in Nat /\ MaxSpill \in Nat /\ MaxWritten \in Nat
        /\ CutNote = MaxWritten + 1
    BY <1>1, Counts DEF CutNote
  <2>2. CASE HeadTakes
    <3>1. ~spill /\ ~spill'
      BY <2>1, <2>2 DEF HeadTakes, Opened
    <3>2. \A b \in 1..written' : ~(MaxInline < b)
      BY <2>1, <2>2 DEF HeadTakes
    <3> QED
      BY <3>1, <3>2 DEF Faithful
  <2>3. CASE PieceMisses
    <3>1. ~spill'
      BY <2>3 DEF PieceMisses
    <3>2. ASSUME NEW b \in 1..written', MaxInline < b PROVE b \in lost'
      <4>1. CASE b <= written
        <5>1. b \in 1..written
          BY <2>1, <4>1
        <5>2. b \in lost
          BY <2>3, <3>2, <5>1 DEF PieceMisses, Faithful
        <5> QED
          BY <2>3, <5>2 DEF PieceMisses
      <4>2. CASE written < b
        <5>1. b \in (written + 1)..written'
          BY <2>1, <4>2
        <5> QED
          BY <2>3, <3>2, <5>1 DEF PieceMisses
      <4> QED
        BY <2>1, <4>1, <4>2
    <3> QED
      BY <3>1, <3>2 DEF Faithful
  <2>4. CASE PieceGoes /\ truncated
    <3>1. ~UnderCeiling(written')
      BY <2>1, <2>4 DEF Bounded, UnderCeiling
    <3>2. file' = file /\ truncated' = truncated /\ lost' = lost
      BY <2>4, <3>1 DEF PieceGoes, Mirrored
    <3>3. PICK h \in 0..MaxInline, c \in 0..written : Holds(file, h, c)
      BY <2>4 DEF PieceGoes, Faithful, Filed
    <3>4. Holds(file, h, c)' /\ c \in 0..written'
      BY <2>1, <3>2, <3>3 DEF Holds, Ordered, Has, CutNote
    <3>5. Filed'
      BY <2>4, <3>2, <3>4 DEF Filed
    <3> QED
      BY <2>4, <3>5 DEF Faithful, PieceGoes
  <2>5. CASE PieceGoes /\ ~truncated
    <3>1. PICK h \in 0..MaxInline : Holds(file, h, written)
      BY <2>5 DEF PieceGoes, Faithful, Filed
    <3>2. file \in Seq(Nat) /\ written \in written..written'
      BY <2>1 DEF SpillTypeOK
    <3>3. \A i \in 1..Len(file) : file[i] \in 1..written
      BY <2>5, <3>1 DEF Holds
    <3>4. \A i \in (h + 1)..Len(file) : file[i] <= written
      BY <2>1, <3>2, <3>3
    <3>5. Behind(file, h, written, {})
      BY <3>1, <3>2, <3>3, <3>4 DEF Holds, Behind
    <3>6. Filed'
      BY <1>1, <2>5, <3>5, MirroredFiled DEF PieceGoes
    <3> QED
      BY <2>5, <3>6 DEF Faithful, PieceGoes
  <2>6. CASE FileOpens
    <3>1. MaxInline < written'
      BY <1>1, <2>6, Pieces DEF FileOpens, HeadTakes
    <3>2. PICK k \in 0..MaxInline : Mirrored(Span(0, k), (k + 1)..MaxInline)
      BY <2>6 DEF FileOpens
    <3>3. PICK c : Behind(Span(0, k), k, c, (k + 1)..MaxInline)
      BY <1>1, <2>6, <3>1, Opening DEF FileOpens
    <3>4. Filed'
      BY <1>1, <2>6, <3>2, <3>3, MirroredFiled DEF FileOpens, SpillTypeOK
    <3> QED
      BY <2>6, <3>4 DEF Faithful, FileOpens
  <2> QED
    BY <1>1, <2>2, <2>3, <2>4, <2>5, <2>6, Pieces
<1>2. CASE FinishCommand \/ UNCHANGED spillVars
  BY <1>2 DEF Faithful, Filed, Holds, Ordered, Has, CutNote, FinishCommand, spillVars
<1> QED
  BY <1>1, <1>2 DEF SpillNext

LEMMA SpillInvAlways == SpillSpec => []SpillInv
<1>1. SpillInit => SpillInv
  BY SpillTypesStart, CapsNat DEF SpillInit, SpillInv, Opened, Bounded, Faithful
<1>2. SpillInv /\ [SpillNext]_spillVars => SpillInv'
  BY SpillTypes, OpenedStep, BoundedStep, FaithfulStep DEF SpillInv
<1> QED
  BY <1>1, <1>2, PTL DEF SpillSpec

LEMMA HasIs == ASSUME NEW S, NEW s \in Seq(S), NEW b, Has(s, b) PROVE b \in ToSet(s)
BY DEF Has, ToSet

(* append_output and read_full_output: whatever the caps, the pieces the     *)
(* output comes in and the calls or parts of a write the disk refuses, each  *)
(* byte is read back, was refused by the disk or lies beyond a cut that the  *)
(* Block tells of, and what is read back is in the output's order but for    *)
(* one return into the head.                                                 *)
THEOREM RawOutputReadsBack == SpillSpec => []ReadsBack
<1>1. SpillInv => ReadsBack
  <2> SUFFICES ASSUME SpillInv PROVE ReadsBack
    OBVIOUS
  <2>1. written \in Nat /\ MaxInline \in Nat /\ MaxWritten \in Nat /\ CutNote = MaxWritten + 1
        /\ written <= MaxWritten
    BY CapsNat DEF SpillInv, SpillTypeOK, CutNote
  <2>2. CASE spill
    <3>1. PICK h \in 0..MaxInline, c \in 0..written :
             Holds(file, h, c) /\ (~truncated => c = written)
      BY <2>2 DEF SpillInv, Faithful, Filed
    <3>2. ReadFullOutput = file /\ file \in Seq(1..CutNote)
      BY <2>2 DEF ReadFullOutput, SpillInv, SpillTypeOK
    <3>3. ASSUME NEW b \in 1..written
          PROVE  \/ b \in ToSet(file) \cup lost
                 \/ truncated /\ \A x \in ToSet(file) \ {CutNote} : x < b
      <4>1. CASE b <= c
        <5>1. b \in 1..c
          BY <2>1, <4>1
        <5>2. b \in lost \/ Has(file, b)
          BY <3>1, <5>1 DEF Holds
        <5> QED
          BY <3>2, <5>2, HasIs
      <4>2. CASE c < b
        <5>1. truncated
          BY <2>1, <3>1, <4>2
        <5>2. ASSUME NEW x \in ToSet(file) \ {CutNote} PROVE x < b
          <6>1. PICK i \in 1..Len(file) : x = file[i]
            BY <3>2 DEF ToSet
          <6>2. x \in 1..c
            BY <3>1, <5>2, <6>1 DEF Holds
          <6> QED
            BY <2>1, <4>2, <6>2
        <5> QED
          BY <5>1, <5>2
      <4> QED
        BY <2>1, <4>1, <4>2
    <3>4. truncated => CutNote \in ToSet(file) \cup lost
      <4>1. truncated => CutNote \in lost \/ Has(file, CutNote)
        BY <3>1 DEF Holds
      <4> QED
        BY <3>2, <4>1, HasIs
    <3>5. Ordered(file, h)
      BY <3>1 DEF Holds
    <3> QED
      BY <3>2, <3>3, <3>4, <3>5, Zenon DEF ReadsBack
  <2>3. CASE ~spill
    <3>1. PICK w \in 0..MaxInline :
             inline = Span(0, w) /\ w = IF written < MaxInline THEN written ELSE MaxInline
      BY <2>1 DEF SpillInv, SpillTypeOK
    <3>2. /\ Span(0, w) \in Seq(Nat) /\ Len(Span(0, w)) = w /\ w \in Nat
          /\ \A i \in 1..w : Span(0, w)[i] = i
      BY <2>1 DEF Span
    <3>3. ReadFullOutput = inline /\ ~truncated
      BY <2>3 DEF ReadFullOutput, SpillInv, SpillTypeOK
    <3>4. ASSUME NEW b \in 1..written PROVE b \in ToSet(inline) \cup lost
      <4>1. CASE b <= w
        <5>1. b \in 1..Len(inline) /\ inline[b] = b
          BY <2>1, <3>1, <3>2, <4>1
        <5>2. Has(inline, b) /\ inline \in Seq(Nat)
          BY <3>1, <3>2, <5>1 DEF Has
        <5> QED
          BY <5>2, HasIs
      <4>2. CASE w < b
        <5>1. MaxInline < b
          BY <2>1, <3>1, <4>2
        <5> QED
          BY <2>3, <5>1 DEF SpillInv, Faithful
      <4> QED
        BY <2>1, <3>2, <4>1, <4>2
    <3>5. Ordered(inline, w)
      BY <3>1, <3>2 DEF Ordered
    <3> QED
      BY <3>3, <3>4, <3>5, Zenon DEF ReadsBack
  <2> QED
    BY <2>2, <2>3
<1> QED
  BY <1>1, SpillInvAlways, PTL

-----------------------------------------------------------------------------
(* ColorScheme, for any panes and any number of theme changes.               *)
(* The panes that are subscribed are those whose program has the mode on; a  *)
(* question under way, unread or read and not written back, is one its       *)
(* program waits for, and there is one; and a subscribed program in reach    *)
(* has been told, has asked since, or is about to be told.                   *)
Shaped == /\ answer = [p \in Panes |-> answer[p]] /\ chunk = [p \in Panes |-> chunk[p]]
          /\ mode = [p \in Panes |-> mode[p]] /\ told = [p \in Panes |-> told[p]]
          /\ toldAt = [p \in Panes |-> toldAt[p]]
          /\ wantsSince = [p \in Panes |-> wantsSince[p]]

Subscribed == \A p \in Panes : /\ mode[p] \in BOOLEAN
                               /\ mode[p] <=> p \in subscribers

Asked == \A p \in Panes :
           /\ answer[p] # Unknown => p \in asking
           /\ chunk[p] # NoChunk =>
                /\ chunk[p].query \in BOOLEAN /\ chunk[p].updates \in BOOLEAN
                /\ chunk[p].query => p \in asking /\ answer[p] = Unknown

Informed == \A p \in registered \cap subscribers :
              toldAt[p] = changes \/ wantsSince[p] = changes \/ p \in reports

Panel == /\ registered \subseteq Panes /\ subscribers \subseteq Panes
         /\ Shaped /\ Subscribed /\ Asked /\ Informed

(* The types of the table, the pumps and the programs, for any panes.        *)
LEMMA SchemeTypes == SchemeTypeOK /\ [SchemeNext]_schemeVars => SchemeTypeOK'
<1> SUFFICES ASSUME SchemeTypeOK, [SchemeNext]_schemeVars PROVE SchemeTypeOK'
  OBVIOUS
<1> USE ChangesAssumption DEF SchemeTypeOK
<1>1. ASSUME NEW p \in Panes, NEW query \in BOOLEAN, NEW updates \in BOOLEAN,
             ProgramPrints(p, query, updates)
      PROVE  SchemeTypeOK'
  BY <1>1 DEF ProgramPrints, Chunks
<1>2. ASSUME NEW p \in Panes, PumpLocks(p) PROVE SchemeTypeOK'
  <2>0. chunk[p] \in Chunks \cup {NoChunk}
    OBVIOUS
  <2>1. chunk[p].updates \in BOOLEAN
    <3>1. NoChunk.updates \in BOOLEAN
      BY DEF NoChunk
    <3>2. ASSUME NEW c \in Chunks PROVE c.updates \in BOOLEAN
      BY <3>2 DEF Chunks
    <3> QED BY <2>0, <3>1, <3>2, Zenon
  <2>2. answer' \in [Panes -> Schemes \cup {Unknown}] /\ mode' \in [Panes -> BOOLEAN]
    BY <1>2, <2>1, Zenon DEF PumpLocks
  <2>3. wantsSince' \in [Panes -> 0 .. MaxChanges]
    BY <1>2 DEF PumpLocks
  <2>4. chunk' \in [Panes -> Chunks \cup {NoChunk}] /\ subscribers' \subseteq Panes
    BY <1>2 DEF PumpLocks
  <2> QED BY <1>2, <2>2, <2>3, <2>4 DEF PumpLocks
<1>3. ASSUME NEW p \in Panes, PumpAnswers(p) \/ ReportTo(p) PROVE SchemeTypeOK'
  BY <1>3 DEF PumpAnswers, ReportTo, Deliver
<1>4. ASSUME NEW p \in Panes, Register(p) \/ Close(p) PROVE SchemeTypeOK'
  BY <1>4 DEF Register, Close
<1>5. ASSUME NEW s \in Schemes, SetScheme(s) PROVE SchemeTypeOK'
  BY <1>5 DEF SetScheme
<1>6. CASE UNCHANGED schemeVars
  BY <1>6 DEF schemeVars
<1> QED BY <1>1, <1>2, <1>3, <1>4, <1>5, <1>6 DEF SchemeNext

(* The reports' state keeps its types, closed panes and registered ones      *)
(* being different panes, for any panes and any number of theme changes.     *)
THEOREM SchemeTypeCorrect == SchemeSpec => []SchemeTypeOK
<1>1. SchemeInit => SchemeTypeOK
  BY ChangesAssumption DEF SchemeInit, SchemeTypeOK, Schemes
<1> QED BY <1>1, SchemeTypes, PTL DEF SchemeSpec

(* The panel starts empty and every step keeps it.                           *)
LEMMA PanelStarts == SchemeInit => Panel
  BY DEF SchemeInit, Panel, Shaped, Subscribed, Asked, Informed

(* ... what the pane's program and its pump do, ...                          *)
LEMMA PumpKeeps ==
  ASSUME Panel, NEW p \in Panes,
         \/ \E query, updates \in BOOLEAN : ProgramPrints(p, query, updates)
         \/ PumpLocks(p)
         \/ PumpAnswers(p)
  PROVE  Panel'
<1>1. ASSUME NEW query \in BOOLEAN, NEW updates \in BOOLEAN, ProgramPrints(p, query, updates)
      PROVE  Panel'
  <2>1. Asked'
    BY <1>1 DEF ProgramPrints, Panel, Shaped, Asked
  <2> QED BY <1>1, <2>1 DEF ProgramPrints, Panel, Shaped, Subscribed, Informed
<1>2. CASE PumpLocks(p)
  <2>1. Asked'
    BY <1>2 DEF PumpLocks, Panel, Shaped, Asked
  <2>2. Subscribed' /\ subscribers' \subseteq Panes
    BY <1>2 DEF PumpLocks, Panel, Shaped, Subscribed, Asked
  <2>3. Informed'
    BY <1>2 DEF PumpLocks, Panel, Shaped, Subscribed, Asked, Informed
  <2>4. Shaped'
    BY <1>2 DEF PumpLocks, Panel, Shaped
  <2> QED BY <1>2, <2>1, <2>2, <2>3, <2>4 DEF PumpLocks, Panel
<1>3. CASE PumpAnswers(p)
  <2>1. Asked'
    BY <1>3 DEF PumpAnswers, Panel, Shaped, Asked
  <2>2. Shaped'
    BY <1>3 DEF PumpAnswers, Deliver, Panel, Shaped
  <2> QED BY <1>3, <2>1, <2>2 DEF PumpAnswers, Panel, Subscribed, Informed
<1> QED BY <1>1, <1>2, <1>3

(* ... and what the commands of the main thread do.                          *)
LEMMA SchemeKeeps ==
  ASSUME Panel, \/ \E p \in Panes : ReportTo(p) \/ Register(p) \/ Close(p)
                \/ \E s \in Schemes : SetScheme(s)
                \/ UNCHANGED schemeVars
  PROVE  Panel'
<1>1. ASSUME NEW p \in Panes, ReportTo(p) PROVE Panel'
  <2>1. Shaped'
    BY <1>1 DEF ReportTo, Deliver, Panel, Shaped
  <2>2. Informed'
    BY <1>1 DEF ReportTo, Panel, Shaped, Informed
  <2> QED BY <1>1, <2>1, <2>2 DEF ReportTo, Panel, Subscribed, Asked
<1>2. ASSUME NEW p \in Panes, Register(p) PROVE Panel'
  BY <1>2 DEF Register, Panel, Shaped, Subscribed, Asked, Informed
<1>3. ASSUME NEW p \in Panes, Close(p) PROVE Panel'
  BY <1>3 DEF Close, Panel, Shaped, Subscribed, Asked, Informed
<1>4. ASSUME NEW s \in Schemes, SetScheme(s) PROVE Panel'
  BY <1>4 DEF SetScheme, Panel, Shaped, Subscribed, Asked, Informed
<1>5. CASE UNCHANGED schemeVars
  BY <1>5 DEF schemeVars, Panel, Shaped, Subscribed, Asked, Informed
<1> QED BY <1>1, <1>2, <1>3, <1>4, <1>5

(* So every step does.                                                       *)
LEMMA PanelStep == Panel /\ [SchemeNext]_schemeVars => Panel'
  BY PumpKeeps, SchemeKeeps DEF SchemeNext

(* Once a theme change is through, every program that was subscribed and in  *)
(* reach before it has been told of it.                                      *)
THEOREM EverySubscriberTold == SchemeSpec => []NobodyLeftOut
<1>1. Panel => NobodyLeftOut
  BY DEF Panel, Subscribed, Informed, NobodyLeftOut
<1> QED BY <1>1, PanelStarts, PanelStep, PTL DEF SchemeSpec

(* What is written, and to whom.                                             *)
Welcome == \A p \in Panes : /\ told'[p] # told[p] => p \in asking \cup reports
                            /\ p \in reports' \ reports => mode[p]

(* Every step is Welcome, by what the panel says of who asks.                *)
LEMMA OnlyWelcome == Panel /\ [SchemeNext]_schemeVars => Welcome
<1> SUFFICES ASSUME Panel, [SchemeNext]_schemeVars PROVE Welcome
  OBVIOUS
<1>1. ASSUME NEW p \in Panes, NEW query \in BOOLEAN, NEW updates \in BOOLEAN,
             ProgramPrints(p, query, updates)
      PROVE  Welcome
  BY <1>1 DEF ProgramPrints, Welcome
<1>2. ASSUME NEW p \in Panes, PumpLocks(p) \/ Register(p) \/ Close(p)
      PROVE  Welcome
  BY <1>2 DEF PumpLocks, Register, Close, Welcome
<1>3. ASSUME NEW p \in Panes, PumpAnswers(p) \/ ReportTo(p)
      PROVE  Welcome
  BY <1>3 DEF PumpAnswers, ReportTo, Deliver, Panel, Shaped, Asked, Welcome
<1>4. ASSUME NEW s \in Schemes, SetScheme(s) PROVE Welcome
  BY <1>4 DEF SetScheme, Panel, Subscribed, Welcome
<1>5. CASE UNCHANGED schemeVars
  BY <1>5 DEF schemeVars, Welcome
<1> QED BY <1>1, <1>2, <1>3, <1>4, <1>5 DEF SchemeNext

(* No program reads a report it neither asked for nor subscribed to.         *)
THEOREM NoStrayReports == SchemeSpec => OnlyAskersTold
<1>1. SchemeSpec => []Panel
  BY PanelStarts, PanelStep, PTL DEF SchemeSpec
<1>2. Panel /\ [SchemeNext]_schemeVars => [Welcome]_schemeVars
  BY OnlyWelcome
<1> QED BY <1>1, <1>2, PTL DEF SchemeSpec, OnlyAskersTold, Welcome

-----------------------------------------------------------------------------
(* PaneMount, for any number of pty_spawn calls and of Blocks.  The types of *)
(* the tables, the mount and the Blocks.                                     *)
LEMMA MountTypes == MountTypeOK /\ [MountNext]_mountVars => MountTypeOK'
<1> SUFFICES ASSUME MountTypeOK, [MountNext]_mountVars PROVE MountTypeOK'
  OBVIOUS
<1> USE DEF uiVars, tableVars, blockVars, pumpVars
<1>1. CASE Unmount
  BY <1>1 DEF MountTypeOK, Unmount
<1>2. ASSUME NEW s \in Shells,
             \/ StartPty(s) \/ RecordPane(s) \/ SpawnSession(s)
             \/ SpawnFails(s) \/ RegisterSession(s) \/ AnswerArrives(s)
      PROVE  MountTypeOK'
  BY <1>2 DEF MountTypeOK, StartPty, RecordPane, SpawnSession, SpawnFails, RegisterSession, AnswerArrives
<1>3. ASSUME NEW s \in Shells, BlockStarts(s) PROVE MountTypeOK'
  <2>1. begun[s] + 1 \in 0..MaxBlocks /\ begun[s] + 1 \in 1..MaxBlocks
    BY <1>3, BlockAssumption DEF MountTypeOK, BlockStarts
  <2>2. <<s, begun[s] + 1>> \in Blocks
    BY <2>1 DEF Blocks
  <2>3. \A b \in open : b[1] # s
    BY <1>3 DEF MountTypeOK, BlockStarts, OpenIn
  <2>4. \A b, c \in open' : b[1] = c[1] => b = c
    BY <1>3, <2>3 DEF MountTypeOK, BlockStarts
  <2> QED BY <1>3, <2>1, <2>2, <2>4 DEF MountTypeOK, BlockStarts
<1>4. ASSUME NEW s \in Shells, BlockEnds(s) \/ PumpEnds(s) PROVE MountTypeOK'
  BY <1>4 DEF MountTypeOK, BlockEnds, PumpEnds, OpenIn
<1>5. ASSUME NEW s \in Shells,
             \/ ShellLetsGo(s) \/ ShellExits(s) \/ PumpWaits(s) \/ ExitArrives(s)
             \/ CloseForgetsPane(s) \/ CloseTakes(s) \/ CloseLocks(s) \/ CloseKills(s)
      PROVE  MountTypeOK'
  BY <1>5 DEF MountTypeOK, ShellLetsGo, ShellExits, PumpWaits, ExitArrives, CloseForgetsPane,
              CloseTakes, CloseLocks, CloseKills
<1>6. ASSUME NEW b \in Blocks, PersistBlock(b) PROVE MountTypeOK'
  BY <1>6 DEF MountTypeOK, PersistBlock
<1>7. CASE UNCHANGED mountVars
  BY <1>7 DEF MountTypeOK, mountVars
<1> QED BY <1>1, <1>2, <1>3, <1>4, <1>5, <1>6, <1>7 DEF MountNext

(* The pane's state keeps its types, no shell with two open Blocks among     *)
(* them, for any number of calls of pty_spawn and of Blocks.                 *)
THEOREM MountTypeCorrect == MountSpec => []MountTypeOK
<1>1. MountInit => MountTypeOK
  <2> SUFFICES ASSUME MountInit PROVE MountTypeOK
    OBVIOUS
  <2>1. 0 \in 0..MaxBlocks
    BY BlockAssumption
  <2>2. begun \in [Shells -> 0..MaxBlocks]
    BY <2>1 DEF MountInit
  <2>3. /\ spawning \in [Shells -> {"idle", "called", "recorded", "spawned",
                                   "responded", "answered", "failed"}]
        /\ shell \in [Shells -> {"none", "running", "detached", "exited"}]
        /\ closing \in [Shells -> {"no", "asked", "forgotten", "taken", "killing", "killed"}]
    BY Zenon DEF MountInit
  <2> QED BY <2>2, <2>3 DEF MountInit, MountTypeOK
<1> QED BY <1>1, MountTypes, PTL DEF MountSpec

(* BlocksAccounted is inductive once a Block held open is one of a shell, the*)
(* tables have their shape, and nothing is closed before the unmount.        *)
CountedIn(s, n) ==
    \/ <<s, n>> \in writing \cup announced
    \/ <<s, n>> \in open /\ (Forgotten(s) \/ (s \in panes \cap (pumping \cup waiting)))

Accounts == /\ begun \in [Shells -> Nat] /\ closing = [s \in Shells |-> closing[s]]
            /\ \A b \in open : b = <<b[1], b[2]>>
            /\ mounted => \A s \in Shells : closing[s] = "no"
            /\ \A s \in Shells : \A n \in 1..begun[s] : CountedIn(s, n)

(* Every step keeps the accounts, ...                                        *)
LEMMA AccountsStep == Accounts /\ [MountNext]_mountVars => Accounts'
<1> SUFFICES ASSUME Accounts, [MountNext]_mountVars PROVE Accounts'
  OBVIOUS
<1> USE DEF uiVars, tableVars, blockVars, pumpVars
<1>1. CASE Unmount
  BY <1>1 DEF Accounts, CountedIn, Forgotten, Unmount
<1>2. ASSUME NEW s \in Shells,
             \/ StartPty(s) \/ RecordPane(s) \/ SpawnSession(s)
             \/ SpawnFails(s) \/ RegisterSession(s) \/ AnswerArrives(s)
      PROVE  Accounts'
  BY <1>2 DEF Accounts, CountedIn, Forgotten, StartPty, RecordPane, SpawnSession, SpawnFails,
              RegisterSession, AnswerArrives
<1>3. ASSUME NEW s \in Shells, BlockStarts(s) PROVE Accounts'
  <2>1. begun' \in [Shells -> Nat] /\ \A b \in open' : b = <<b[1], b[2]>>
    BY <1>3 DEF Accounts, BlockStarts
  <2>2. ASSUME NEW q \in Shells, NEW n \in 1..begun'[q] PROVE CountedIn(q, n)'
    <3>1. CASE n \in 1..begun[q]
      BY <1>3, <3>1 DEF Accounts, CountedIn, Forgotten, BlockStarts
    <3>2. CASE n \notin 1..begun[q]
      <4>1. q = s /\ n = begun[s] + 1
        BY <1>3, <2>2, <3>2 DEF Accounts, BlockStarts
      <4> QED BY <1>3, <4>1 DEF CountedIn, BlockStarts
    <3> QED BY <3>1, <3>2
  <2> QED BY <1>3, <2>1, <2>2 DEF Accounts, BlockStarts
<1>4. ASSUME NEW s \in Shells, BlockEnds(s) \/ PumpEnds(s) PROVE Accounts'
  <2>1. \A b \in OpenIn(s) : b[1] = s
    BY DEF OpenIn
  <2>2. UNCHANGED <<begun, closing, announced, panes, mounted>> /\ writing \subseteq writing'
        /\ open' \subseteq open
    BY <1>4 DEF BlockEnds, PumpEnds
  <2>3. ASSUME NEW q \in Shells, NEW n, CountedIn(q, n) PROVE CountedIn(q, n)'
    <3>1. CASE q = s
      BY <1>4, <2>2, <2>3, <3>1 DEF CountedIn, Forgotten, BlockEnds, PumpEnds, OpenIn
    <3>2. CASE q # s
      BY <1>4, <2>2, <2>3, <3>2 DEF CountedIn, Forgotten, BlockEnds, PumpEnds, OpenIn
    <3> QED BY <3>1, <3>2
  <2> QED BY <2>2, <2>3 DEF Accounts
<1>5. ASSUME NEW s \in Shells, \/ ShellLetsGo(s) \/ ShellExits(s) \/ PumpWaits(s) \/ ExitArrives(s)
      PROVE  Accounts'
  BY <1>5 DEF Accounts, CountedIn, Forgotten, ShellLetsGo, ShellExits, PumpWaits, ExitArrives
<1>6. ASSUME NEW s \in Shells, \/ CloseForgetsPane(s) \/ CloseTakes(s)
                               \/ CloseLocks(s) \/ CloseKills(s)
      PROVE  Accounts'
  <2>1. /\ UNCHANGED <<begun, open, writing, announced, pumping, waiting, mounted>>
        /\ closing' = [q \in Shells |-> closing'[q]] /\ ~mounted
    BY <1>6 DEF Accounts, CloseForgetsPane, CloseTakes, CloseLocks, CloseKills
  <2>2. /\ Forgotten(s)' /\ \A q \in Shells \ {s} : closing'[q] = closing[q]
        /\ \A q \in Shells \ {s} : q \in panes => q \in panes'
    BY <1>6 DEF Accounts, Forgotten, CloseForgetsPane, CloseTakes, CloseLocks, CloseKills
  <2>3. ASSUME NEW q \in Shells, NEW n, CountedIn(q, n) PROVE CountedIn(q, n)'
    <3>1. CASE q = s
      BY <2>1, <2>2, <2>3, <3>1 DEF CountedIn
    <3>2. CASE q # s
      BY <2>1, <2>2, <2>3, <3>2 DEF CountedIn, Forgotten
    <3> QED BY <3>1, <3>2
  <2> QED BY <2>1, <2>3 DEF Accounts
<1>7. ASSUME NEW b, PersistBlock(b) PROVE Accounts'
  BY <1>7 DEF Accounts, CountedIn, Forgotten, PersistBlock
<1>8. CASE UNCHANGED mountVars
  BY <1>8 DEF Accounts, CountedIn, Forgotten, mountVars
<1> QED BY <1>1, <1>2, <1>3, <1>4, <1>5, <1>6, <1>7, <1>8 DEF MountNext

(* No Block a shell started is lost but the one still open when pty_close    *)
(* removes its builder: each is open in a builder that will end it, being    *)
(* written, or announced.                                                    *)
THEOREM NoBlockLost == MountSpec => []BlocksAccounted
<1>1. MountInit => Accounts
  BY DEF MountInit, Accounts
<1>2. Accounts => BlocksAccounted
  BY DEF Accounts, CountedIn, BlocksAccounted
<1> QED BY <1>1, <1>2, AccountsStep, PTL DEF MountSpec

(* How far a call of pty_spawn has come says which tables know its shell, as *)
(* long as its pane is not closed.                                           *)
Entered == /\ closing = [s \in Shells |-> closing[s]] /\ spawning = [s \in Shells |-> spawning[s]]
           /\ shown # NoShell => shown \in Shells /\ spawning[shown] = "answered"
           /\ \A s \in Shells : closing[s] = "no" =>
                /\ spawning[s] \in {"recorded", "spawned", "responded", "answered"} => s \in panes
                /\ spawning[s] \in {"responded", "answered"} => s \in sessions

(* ... and the tables.                                                       *)
LEMMA EnteredStep == Entered /\ [MountNext]_mountVars => Entered'
<1> SUFFICES ASSUME Entered, [MountNext]_mountVars PROVE Entered'
  OBVIOUS
<1> USE DEF Entered, uiVars, tableVars, blockVars, pumpVars
<1>1. CASE Unmount
  BY <1>1 DEF Unmount
<1>2. ASSUME NEW s \in Shells, StartPty(s) \/ RecordPane(s) \/ SpawnSession(s)
      PROVE  Entered'
  BY <1>2 DEF StartPty, RecordPane, SpawnSession
<1>3. ASSUME NEW s \in Shells, \/ SpawnFails(s) \/ RegisterSession(s)
                               \/ AnswerArrives(s)
      PROVE  Entered'
  BY <1>3 DEF SpawnFails, RegisterSession, AnswerArrives
<1>4. ASSUME NEW s \in Shells, \/ BlockStarts(s) \/ BlockEnds(s)
                               \/ ShellLetsGo(s) \/ ShellExits(s)
                               \/ PumpWaits(s) \/ PumpEnds(s) \/ ExitArrives(s)
      PROVE  Entered'
  BY <1>4 DEF BlockStarts, BlockEnds, ShellLetsGo, ShellExits, PumpWaits, PumpEnds, ExitArrives
<1>5. ASSUME NEW s \in Shells, \/ CloseForgetsPane(s) \/ CloseTakes(s)
                               \/ CloseLocks(s) \/ CloseKills(s)
      PROVE  Entered'
  BY <1>5 DEF CloseForgetsPane, CloseTakes, CloseLocks, CloseKills
<1>6. ASSUME NEW b, PersistBlock(b) PROVE Entered'
  BY <1>6 DEF PersistBlock
<1>7. CASE UNCHANGED mountVars
  BY <1>7 DEF mountVars
<1> QED BY <1>1, <1>2, <1>3, <1>4, <1>5, <1>6, <1>7 DEF MountNext

(* The pane the component shows is in both tables until it is closed, for    *)
(* any number of calls of pty_spawn under way.                               *)
THEOREM ShownCanBeTypedInto == MountSpec => []ShownIsRegistered
<1>1. MountInit => Entered
  BY DEF MountInit, Entered
<1>2. Entered => ShownIsRegistered
  BY DEF Entered, ShownIsRegistered
<1> QED BY <1>1, <1>2, EnteredStep, PTL DEF MountSpec

-----------------------------------------------------------------------------
(* PaneTree: the trees there are, and the folds of them that its operators   *)
(* are.  No library theorem can be used for an induction over trees, so      *)
(* there is one here: Depth gives each tree a level, and a set that holds    *)
(* the leaves, and the splits of what it holds, holds them all.              *)

Leaves == [type : {"leaf"}, pane : Nat]

Dirs == {"row", "column"}

Splits(S) == [type : {"split"}, direction : Dirs, children : Seq(S)]

(* The function Nodes is, over its first n arguments.                        *)
Levels(f, n) ==
    f = [m \in 0..n |-> Leaves \cup IF m = 0 THEN {} ELSE Splits(f[m - 1])]

(* The levels can be built up one by one, ...                                *)
LEMMA LevelsExist == \A n \in Nat : \E f : Levels(f, n)
<1> DEFINE P == {n \in Nat : \E f : Levels(f, n)}
<1>1. 0 \in P
  <2> DEFINE f == [m \in 0..0 |-> Leaves \cup IF m = 0 THEN {} ELSE {}]
  <2>1. Levels(f, 0)
    BY DEF Levels
  <2> HIDE DEF f
  <2> QED BY <2>1
<1>2. ASSUME NEW n \in P PROVE n + 1 \in P
  <2>1. PICK f : Levels(f, n)
    OBVIOUS
  <2> DEFINE g == [m \in 0..(n + 1) |-> Leaves \cup IF m = 0 THEN {} ELSE Splits(f[m - 1])]
  <2>a. n \in Nat
    BY DEF P
  <2>2. \A m \in 0..n : g[m] = f[m]
    <3> SUFFICES ASSUME NEW m \in 0..n PROVE g[m] = f[m]
      OBVIOUS
    <3>1. f[m] = Leaves \cup IF m = 0 THEN {} ELSE Splits(f[m - 1])
      BY <2>1, Zenon DEF Levels
    <3>2. m \in 0..(n + 1)
      BY <2>a
    <3> QED BY <3>1, <3>2
  <2>3. g = [m \in 0..(n + 1) |-> Leaves \cup IF m = 0 THEN {} ELSE Splits(g[m - 1])]
    <3>1. \A m \in 0..(n + 1) : m # 0 => m - 1 \in 0..n
      BY <2>a
    <3>2. \A m \in 0..(n + 1) : m # 0 => g[m - 1] = f[m - 1]
      BY <2>2, <3>1
    <3> QED BY <3>2
  <2>4. Levels(g, n + 1)
    BY <2>3 DEF Levels
  <2> HIDE DEF g
  <2> QED BY <2>4
<1> HIDE DEF P
<1>3. P = Nat
  <2>1. P \in SUBSET Nat
    BY DEF P
  <2> QED BY <1>1, <1>2, <2>1, Induction
<1> QED BY <1>3 DEF P

(* ... in one way.                                                           *)
LEMMA LevelsAgree ==
  ASSUME NEW m \in Nat, NEW n \in Nat, NEW f, NEW g, Levels(f, m), Levels(g, n)
  PROVE  \A k \in Nat : k <= m /\ k <= n => f[k] = g[k]
<1> DEFINE P == {k \in Nat : k <= m /\ k <= n => f[k] = g[k]}
<1>1. 0 \in P
  <2>1. 0 \in 0..m /\ 0 \in 0..n
    OBVIOUS
  <2> QED BY <2>1 DEF Levels
<1>2. ASSUME NEW k \in P PROVE k + 1 \in P
  <2> SUFFICES ASSUME k + 1 <= m, k + 1 <= n PROVE f[k + 1] = g[k + 1]
    OBVIOUS
  <2>1. k + 1 \in 0..m /\ k + 1 \in 0..n /\ (k + 1) - 1 = k /\ k + 1 # 0 /\ f[k] = g[k]
    OBVIOUS
  <2>2. f[k + 1] = Leaves \cup IF k + 1 = 0 THEN {} ELSE Splits(f[(k + 1) - 1])
    BY <2>1, Zenon DEF Levels
  <2>3. g[k + 1] = Leaves \cup IF k + 1 = 0 THEN {} ELSE Splits(g[(k + 1) - 1])
    BY <2>1, Zenon DEF Levels
  <2> QED BY <2>1, <2>2, <2>3
<1>3. P = Nat
  <2>1. P \in SUBSET Nat
    OBVIOUS
  <2> HIDE DEF P
  <2> QED BY <1>1, <1>2, <2>1, Induction
<1> QED BY <1>3

(* Nodes is the function it is defined to be, ...                            *)
LEMMA NodesIs ==
  Nodes = [n \in Nat |-> Leaves \cup IF n = 0 THEN {} ELSE Splits(Nodes[n - 1])]
<1> DEFINE lv == [n \in Nat |-> CHOOSE f : Levels(f, n)]
           N == [n \in Nat |-> lv[n][n]]
<1>1. \A n \in Nat : Levels(lv[n], n)
  BY LevelsExist, Zenon
<1>2. \A n \in Nat : N[n] = Leaves \cup IF n = 0 THEN {} ELSE Splits(N[n - 1])
  <2> SUFFICES ASSUME NEW n \in Nat
               PROVE  N[n] = Leaves \cup IF n = 0 THEN {} ELSE Splits(N[n - 1])
    OBVIOUS
  <2> HIDE DEF lv
  <2>1. n \in 0..n
    OBVIOUS
  <2>2. lv[n][n] = Leaves \cup IF n = 0 THEN {} ELSE Splits(lv[n][n - 1])
    BY <1>1, <2>1, Zenon DEF Levels
  <2>3. CASE n = 0
    BY <2>2, <2>3
  <2>4. CASE n # 0
    <3>1. n - 1 \in Nat /\ n - 1 <= n /\ n - 1 <= n - 1
      BY <2>4
    <3>2. lv[n][n - 1] = lv[n - 1][n - 1]
      <4>1. Levels(lv[n], n) /\ Levels(lv[n - 1], n - 1)
        BY <1>1, <3>1, Zenon
      <4> QED BY <3>1, <4>1, LevelsAgree
    <3> QED BY <2>2, <2>4, <3>1, <3>2
  <2> QED BY <2>3, <2>4
<1>3. N = [n \in Nat |-> Leaves \cup IF n = 0 THEN {} ELSE Splits(N[n - 1])]
  <2> DEFINE M == [n \in Nat |-> Leaves \cup IF n = 0 THEN {} ELSE Splits(N[n - 1])]
  <2>1. \A n \in Nat : N[n] = M[n]
    <3> HIDE DEF N
    <3> SUFFICES ASSUME NEW n \in Nat PROVE N[n] = M[n]
      OBVIOUS
    <3>1. M[n] = Leaves \cup IF n = 0 THEN {} ELSE Splits(N[n - 1])
      OBVIOUS
    <3> HIDE DEF M
    <3> QED BY <1>2, <3>1
  <2> QED BY <2>1, ZenonT(40)
<1> HIDE DEF N
<1>4. \E f : f = [n \in Nat |-> Leaves \cup IF n = 0 THEN {} ELSE Splits(f[n - 1])]
  BY <1>3
<1> QED BY <1>4, Zenon DEF Nodes, Leaves, Splits, Dirs

(* At the lowest level are the leaves, ...                                   *)
LEMMA NodesZero == Nodes[0] = Leaves
<1>1. 0 \in Nat
  OBVIOUS
<1>2. Nodes[0] = Leaves \cup IF 0 = 0 THEN {} ELSE Splits(Nodes[0 - 1])
  BY <1>1, NodesIs, Zenon
<1> QED BY <1>2

(* ... and at the next one the splits of what is below, and the leaves.      *)
LEMMA NodesNext == \A n \in Nat : Nodes[n + 1] = Leaves \cup Splits(Nodes[n])
<1> SUFFICES ASSUME NEW n \in Nat PROVE Nodes[n + 1] = Leaves \cup Splits(Nodes[n])
  OBVIOUS
<1>1. n + 1 \in Nat /\ n + 1 # 0 /\ (n + 1) - 1 = n
  OBVIOUS
<1>2. Nodes[n + 1] = Leaves \cup IF n + 1 = 0 THEN {} ELSE Splits(Nodes[(n + 1) - 1])
  BY <1>1, NodesIs, Zenon
<1> QED BY <1>1, <1>2

Trees == UNION {Nodes[n] : n \in Nat}

(* Sequences over more items.                                                *)
LEMMA SeqGrows == ASSUME NEW S, NEW T, S \subseteq T PROVE Seq(S) \subseteq Seq(T)
  OBVIOUS

(* A level holds the one below, ...                                          *)
LEMMA NodesGrow == \A n \in Nat : Nodes[n] \subseteq Nodes[n + 1]
<1> DEFINE P == {n \in Nat : Nodes[n] \subseteq Nodes[n + 1]}
<1>1. 0 \in P
  <2>1. 0 \in Nat
    OBVIOUS
  <2>2. Nodes[0 + 1] = Leaves \cup Splits(Nodes[0])
    BY <2>1, NodesNext, Zenon
  <2> QED BY <2>2, NodesZero
<1>2. ASSUME NEW n \in P PROVE n + 1 \in P
  <2>1. n \in Nat /\ n + 1 \in Nat
    OBVIOUS
  <2>2. Nodes[n + 1] = Leaves \cup Splits(Nodes[n])
    BY <2>1, NodesNext, Zenon
  <2>3. Nodes[(n + 1) + 1] = Leaves \cup Splits(Nodes[n + 1])
    BY <2>1, NodesNext, Zenon
  <2>4. Seq(Nodes[n]) \subseteq Seq(Nodes[n + 1])
    BY SeqGrows
  <2>5. Splits(Nodes[n]) \subseteq Splits(Nodes[n + 1])
    BY <2>4 DEF Splits
  <2> QED BY <2>1, <2>2, <2>3, <2>5
<1>3. P = Nat
  <2>1. P \in SUBSET Nat
    OBVIOUS
  <2> HIDE DEF P
  <2> QED BY <1>1, <1>2, <2>1, Induction
<1> QED BY <1>3

(* ... and every lower one.                                                  *)
LEMMA NodesBelow == \A m, n \in Nat : m <= n => Nodes[m] \subseteq Nodes[n]
<1> SUFFICES ASSUME NEW m \in Nat PROVE \A n \in Nat : m <= n => Nodes[m] \subseteq Nodes[n]
  OBVIOUS
<1> DEFINE P == {n \in Nat : m <= n => Nodes[m] \subseteq Nodes[n]}
<1>1. 0 \in P
  OBVIOUS
<1>2. ASSUME NEW n \in P PROVE n + 1 \in P
  <2> SUFFICES ASSUME m <= n + 1 PROVE Nodes[m] \subseteq Nodes[n + 1]
    OBVIOUS
  <2>1. n \in Nat /\ n + 1 \in Nat
    OBVIOUS
  <2>2. Nodes[n] \subseteq Nodes[n + 1]
    BY <2>1, NodesGrow, Zenon
  <2>3. m = n + 1 \/ m <= n
    BY <2>1
  <2> QED BY <2>1, <2>2, <2>3
<1>3. P = Nat
  <2>1. P \in SUBSET Nat
    OBVIOUS
  <2> HIDE DEF P
  <2> QED BY <1>1, <1>2, <2>1, Induction
<1> QED BY <1>3

(* Leaves and splits, and nothing else, are trees.                           *)
LEMMA LeafIs == \A p \in Nat : Leaf(p) \in Leaves /\ Leaf(p).type = "leaf" /\ Leaf(p).pane = p
  BY DEF Leaf, Leaves

(* A leaf is its pane.                                                       *)
LEMMA LeavesAre == \A t \in Leaves : t.type = "leaf" /\ t.pane \in Nat /\ t = Leaf(t.pane)
  BY DEF Leaf, Leaves

(* The fields of a split, ...                                                *)
LEMMA SplitIs ==
  ASSUME NEW S, NEW d \in Dirs, NEW kids \in Seq(S)
  PROVE  /\ Split(d, kids) \in Splits(S)
         /\ Split(d, kids).type = "split"
         /\ Split(d, kids).direction = d
         /\ Split(d, kids).children = kids
  BY DEF Split, Splits

(* ... which are all there is to it.                                         *)
LEMMA SplitsAre ==
  ASSUME NEW S, NEW t \in Splits(S)
  PROVE  /\ t.type = "split" /\ t.type # "leaf"
         /\ t.direction \in Dirs
         /\ t.children \in Seq(S)
         /\ t = Split(t.direction, t.children)
  BY DEF Split, Splits

(* Leaves are at every level.                                                *)
LEMMA LeafInAll == \A n \in Nat : Leaves \subseteq Nodes[n]
<1> SUFFICES ASSUME NEW n \in Nat PROVE Leaves \subseteq Nodes[n]
  OBVIOUS
<1>1. Nodes[n] = Leaves \cup IF n = 0 THEN {} ELSE Splits(Nodes[n - 1])
  BY NodesIs, Zenon
<1> QED BY <1>1

(* A split at some level has its children one below.                         *)
LEMMA KidsBelow ==
  ASSUME NEW n \in Nat, NEW t \in Nodes[n], t.type # "leaf"
  PROVE  n # 0 /\ n - 1 \in Nat /\ t \in Splits(Nodes[n - 1])
<1>1. Nodes[n] = Leaves \cup IF n = 0 THEN {} ELSE Splits(Nodes[n - 1])
  BY NodesIs, Zenon
<1>2. t \notin Leaves
  BY LeavesAre
<1>3. n # 0
  BY <1>1, <1>2
<1>4. t \in Splits(Nodes[n - 1])
  BY <1>1, <1>2, <1>3
<1> QED BY <1>3, <1>4

(* What is at a level is a tree.                                             *)
LEMMA NodesTrees == \A n \in Nat : Nodes[n] \subseteq Trees
  BY DEF Trees

(* A leaf is a tree, ...                                                     *)
LEMMA LeafTree == \A p \in Nat : Leaf(p) \in Trees
<1>1. 0 \in Nat
  OBVIOUS
<1> QED BY <1>1, LeafIs, NodesZero, NodesTrees

(* Trees of any levels are of some one level.                                *)
LEMMA SeqOfTrees == \A kids \in Seq(Trees) : \E n \in Nat : kids \in Seq(Nodes[n])
<1> DEFINE P == {kids \in Seq(Trees) : \E n \in Nat : kids \in Seq(Nodes[n])}
<1>1. <<>> \in P
  <2>1. 0 \in Nat /\ <<>> \in Seq(Nodes[0])
    OBVIOUS
  <2>2. <<>> \in Seq(Trees)
    OBVIOUS
  <2> QED BY <2>1, <2>2, Zenon
<1>2. ASSUME NEW kids \in P, NEW t \in Trees PROVE Append(kids, t) \in P
  <2>1. PICK m \in Nat : kids \in Seq(Nodes[m])
    OBVIOUS
  <2>2. PICK k \in Nat : t \in Nodes[k]
    BY DEF Trees
  <2>3. PICK n \in Nat : n = m + k
    OBVIOUS
  <2>4. Nodes[m] \subseteq Nodes[n] /\ Nodes[k] \subseteq Nodes[n]
    BY <2>3, NodesBelow
  <2>5. kids \in Seq(Nodes[n])
    BY <2>1, <2>4, SeqGrows
  <2>6. Append(kids, t) \in Seq(Nodes[n])
    BY <2>2, <2>4, <2>5, AppendProperties
  <2>7. Append(kids, t) \in Seq(Trees)
    BY AppendProperties
  <2> QED BY <2>6, <2>7
<1>3. P = Seq(Trees)
  <2>1. P \in SUBSET Seq(Trees)
    OBVIOUS
  <2> HIDE DEF P
  <2> QED BY <1>1, <1>2, <2>1, InductionOnSeq
<1> QED BY <1>3

(* ... a split of trees is one, ...                                          *)
LEMMA SplitTree == \A d \in Dirs, kids \in Seq(Trees) : Split(d, kids) \in Trees
<1> SUFFICES ASSUME NEW d \in Dirs, NEW kids \in Seq(Trees) PROVE Split(d, kids) \in Trees
  OBVIOUS
<1>1. PICK n \in Nat : kids \in Seq(Nodes[n])
  BY SeqOfTrees
<1>2. Split(d, kids) \in Nodes[n + 1]
  BY <1>1, NodesNext, SplitIs
<1> QED BY <1>2, NodesTrees

(* ... and there is no other.                                                *)
LEMMA TreeCases ==
  \A t \in Trees : \/ \E p \in Nat : t = Leaf(p)
                   \/ \E d \in Dirs, kids \in Seq(Trees) : t = Split(d, kids)
<1> SUFFICES ASSUME NEW t \in Trees
             PROVE  \/ \E p \in Nat : t = Leaf(p)
                    \/ \E d \in Dirs, kids \in Seq(Trees) : t = Split(d, kids)
  OBVIOUS
<1>1. PICK n \in Nat : t \in Nodes[n]
  BY DEF Trees
<1>2. CASE t \in Leaves
  BY <1>2, LeavesAre
<1>3. CASE t \notin Leaves
  <2>1. Nodes[n] = Leaves \cup IF n = 0 THEN {} ELSE Splits(Nodes[n - 1])
    BY NodesIs, Zenon
  <2>2. n - 1 \in Nat /\ t \in Splits(Nodes[n - 1])
    BY <1>1, <1>3, <2>1
  <2>3. Seq(Nodes[n - 1]) \subseteq Seq(Trees)
    BY <2>2, NodesTrees, SeqGrows
  <2> QED BY <2>2, <2>3, SplitsAre
<1> QED BY <1>2, <1>3

(* Induction on trees.                                                       *)
LEMMA TreeInduction ==
  ASSUME NEW P \in SUBSET Trees, \A p \in Nat : Leaf(p) \in P,
         \A d \in Dirs, kids \in Seq(P) : Split(d, kids) \in P
  PROVE  P = Trees
<1> DEFINE D == {n \in Nat : Nodes[n] \subseteq P}
<1>0. Leaves \subseteq P
  BY LeavesAre
<1>1. 0 \in D
  BY <1>0, NodesZero
<1>2. ASSUME NEW n \in D PROVE n + 1 \in D
  <2>1. n \in Nat /\ n + 1 \in Nat /\ Nodes[n] \subseteq P
    OBVIOUS
  <2>2. Nodes[n + 1] = Leaves \cup Splits(Nodes[n])
    BY <2>1, NodesNext, Zenon
  <2>3. Seq(Nodes[n]) \subseteq Seq(P)
    BY <2>1, SeqGrows
  <2>4. Splits(Nodes[n]) \subseteq P
    BY <2>3, SplitsAre
  <2> QED BY <1>0, <2>1, <2>2, <2>4
<1>3. D = Nat
  <2>1. D \in SUBSET Nat
    OBVIOUS
  <2> HIDE DEF D
  <2> QED BY <1>1, <1>2, <2>1, Induction
<1> QED BY <1>3 DEF Trees

(* Depth finds a level the tree is at.                                       *)
LEMMA DepthIs == \A t \in Trees : Depth(t) \in Nat /\ t \in Nodes[Depth(t)]
<1> SUFFICES ASSUME NEW t \in Trees PROVE Depth(t) \in Nat /\ t \in Nodes[Depth(t)]
  OBVIOUS
<1>1. PICK m \in Nat : t \in Nodes[m]
  BY DEF Trees
<1> DEFINE At == {n \in Nat : t \in Nodes[n]}
           Least(n) == Min({k \in At : n <= k})
           g == [n \in Nat |-> Least(n)]
<1>2. ASSUME NEW n \in Nat PROVE {k \in At : n <= k} \in SUBSET Nat /\ {k \in At : n <= k} # {}
  <2>1. PICK k \in Nat : k = m + n
    OBVIOUS
  <2>2. m <= k /\ n <= k
    BY <2>1
  <2>3. t \in Nodes[k]
    BY <1>1, <2>2, NodesBelow
  <2> QED BY <2>2, <2>3
<1>3. ASSUME NEW n \in Nat
      PROVE  Least(n) \in At /\ n <= Least(n) /\ \A k \in At : n <= k => Least(n) <= k
  BY <1>2, MinIs
<1>4. \A n \in Nat : g[n] = IF t \in Nodes[n] THEN n ELSE g[n + 1]
  <2>0. \A n \in Nat : n + 1 \in Nat
    OBVIOUS
  <2> SUFFICES ASSUME NEW n \in Nat PROVE Least(n) = IF t \in Nodes[n] THEN n ELSE Least(n + 1)
    <3> HIDE DEF Least
    <3> QED BY <2>0
  <2>1. Least(n) \in At /\ n <= Least(n) /\ \A k \in At : n <= k => Least(n) <= k
    BY <1>3
  <2>2. n + 1 \in Nat
    OBVIOUS
  <2>3. Least(n + 1) \in At /\ n + 1 <= Least(n + 1) /\ \A k \in At : n + 1 <= k => Least(n + 1) <= k
    BY <1>3, <2>2
  <2>4. PICK a \in Nat : a = Least(n)
    BY <2>1
  <2>5. PICK b \in Nat : b = Least(n + 1)
    BY <2>3
  <2> HIDE DEF Least
  <2>6. CASE t \in Nodes[n]
    <3>1. n \in At
      BY <2>6
    <3> QED BY <2>1, <2>4, <2>6, <3>1
  <2>7. CASE t \notin Nodes[n]
    <3>1. a # n
      BY <2>1, <2>4, <2>7
    <3>2. b <= a
      BY <2>1, <2>3, <2>4, <2>5, <3>1
    <3>3. a <= b
      BY <2>1, <2>3, <2>4, <2>5
    <3> QED BY <2>4, <2>5, <2>7, <3>2, <3>3
  <2> QED BY <2>6, <2>7
<1>5. g = [n \in Nat |-> IF t \in Nodes[n] THEN n ELSE g[n + 1]]
  <2> DEFINE h == [n \in Nat |-> IF t \in Nodes[n] THEN n ELSE g[n + 1]]
  <2>1. \A n \in Nat : g[n] = h[n]
    BY <1>4, Zenon
  <2> QED BY <2>1, Zenon
<1>6. \E f : f = [n \in Nat |-> IF t \in Nodes[n] THEN n ELSE f[n + 1]]
  <2> HIDE DEF g
  <2> QED BY <1>5
<1>7. PICK f : f = [n \in Nat |-> IF t \in Nodes[n] THEN n ELSE f[n + 1]] /\ Depth(t) = f[0]
  <2> DEFINE f == CHOOSE f : f = [n \in Nat |-> IF t \in Nodes[n] THEN n ELSE f[n + 1]]
  <2>1. f = [n \in Nat |-> IF t \in Nodes[n] THEN n ELSE f[n + 1]]
    BY <1>6, Zenon
  <2>2. Depth(t) = f[0]
    BY Zenon DEF Depth
  <2> HIDE DEF f
  <2> QED BY <2>1, <2>2
<1> DEFINE Good == {j \in Nat : j <= m => f[m - j] \in Nat /\ t \in Nodes[f[m - j]]}
<1>8. 0 \in Good
  <2>1. f[m] = m
    BY <1>1, <1>7
  <2> QED BY <1>1, <2>1
<1>9. ASSUME NEW j \in Good PROVE j + 1 \in Good
  <2> SUFFICES ASSUME j + 1 <= m
               PROVE  f[m - (j + 1)] \in Nat /\ t \in Nodes[f[m - (j + 1)]]
    OBVIOUS
  <2>1. PICK i \in Nat : i = m - (j + 1)
    OBVIOUS
  <2>2. i + 1 = m - j /\ j <= m
    BY <2>1
  <2>3. f[i + 1] \in Nat /\ t \in Nodes[f[i + 1]]
    BY <2>2
  <2>4. f[i] = IF t \in Nodes[i] THEN i ELSE f[i + 1]
    BY <1>7, Zenon
  <2> QED BY <2>1, <2>3, <2>4
<1>10. Good = Nat
  <2>1. Good \in SUBSET Nat
    OBVIOUS
  <2> HIDE DEF Good
  <2> QED BY <1>8, <1>9, <2>1, Induction
<1>11. f[m - m] \in Nat /\ t \in Nodes[f[m - m]]
  BY <1>10
<1> QED BY <1>7, <1>11

(* A sequence of what f gives for each item of another.                      *)
Each(f, s) == [i \in DOMAIN s |-> f[s[i]]]

(* One item for each.                                                        *)
LEMMA EachSeq ==
  ASSUME NEW S, NEW X, NEW s \in Seq(S), NEW f, \A x \in S : f[x] \in X
  PROVE  /\ Each(f, s) \in Seq(X) /\ Len(Each(f, s)) = Len(s) /\ DOMAIN Each(f, s) = DOMAIN s
         /\ \A i \in DOMAIN s : Each(f, s)[i] = f[s[i]]
  BY DEF Each

(* What a node is made of, at its own level.                                 *)
LEMMA NodeCases ==
  ASSUME NEW N \in Nat, NEW t \in Nodes[N]
  PROVE  /\ t \in Trees
         /\ t.type = "leaf" => t.pane \in Nat /\ t = Leaf(t.pane)
         /\ t.type # "leaf" => /\ t.direction \in Dirs
                               /\ t.children \in Seq(Nodes[N])
                               /\ t.children \in Seq(Trees)
                               /\ t \in Splits(Trees)
                               /\ t = Split(t.direction, t.children)
<1>1. t \in Trees
  BY NodesTrees
<1>2. Nodes[N] = Leaves \cup IF N = 0 THEN {} ELSE Splits(Nodes[N - 1])
  BY NodesIs, Zenon
<1>3. t.type = "leaf" => t.pane \in Nat /\ t = Leaf(t.pane)
  BY <1>2, LeavesAre, SplitsAre
<1>4. ASSUME t.type # "leaf"
      PROVE  /\ t.direction \in Dirs /\ t.children \in Seq(Nodes[N])
             /\ t.children \in Seq(Trees) /\ t = Split(t.direction, t.children)
             /\ t \in Splits(Trees)
  <2>1. N - 1 \in Nat /\ N - 1 <= N /\ t \in Splits(Nodes[N - 1])
    BY <1>4, KidsBelow
  <2>2. Nodes[N - 1] \subseteq Nodes[N] /\ Nodes[N] \subseteq Trees
    BY <2>1, NodesBelow, NodesTrees
  <2>3. t.direction \in Dirs /\ t.children \in Seq(Nodes[N - 1]) /\ t = Split(t.direction, t.children)
    BY <2>1, SplitsAre
  <2>4. t.children \in Seq(Nodes[N])
    BY <2>2, <2>3, SeqGrows
  <2>5. t.children \in Seq(Trees)
    BY <2>2, <2>4, SeqGrows
  <2>6. t \in Splits(Trees)
    BY <2>3, <2>5, SplitIs
  <2> QED BY <2>3, <2>4, <2>5, <2>6
<1> QED BY <1>1, <1>3, <1>4

(* F folds every tree, from values L of its panes and S of its splits.       *)
FoldsTrees(F, L, S) ==
    /\ \A p \in Nat : F[Leaf(p)] = L[p]
    /\ \A d \in Dirs, kids \in Seq(Trees) :
          F[Split(d, kids)] = S[<<Split(d, kids), Each(F, kids)>>]

FoldsNodes(g, n, X, L, S) ==
    /\ g \in [Nodes[n] -> X]
    /\ \A t \in Nodes[n] :
          g[t] = IF t.type = "leaf" THEN L[t.pane] ELSE S[<<t, Each(g, t.children)>>]

(* A level can be folded, from the one below, ...                            *)
LEMMA FoldsNodesExist ==
  ASSUME NEW X, NEW L \in [Nat -> X], NEW S \in [Splits(Trees) \X Seq(X) -> X]
  PROVE  \A n \in Nat : \E g : FoldsNodes(g, n, X, L, S)
<1> DEFINE P == {n \in Nat : \E g : FoldsNodes(g, n, X, L, S)}
<1>1. 0 \in P
  <2> DEFINE g == [t \in Nodes[0] |-> L[t.pane]]
  <2>1. \A t \in Nodes[0] : t.type = "leaf" /\ t.pane \in Nat
    BY NodesZero, LeavesAre
  <2>2. g \in [Nodes[0] -> X]
    BY <2>1
  <2>3. FoldsNodes(g, 0, X, L, S)
    BY <2>1, <2>2 DEF FoldsNodes
  <2> HIDE DEF g
  <2> QED BY <2>3
<1>2. ASSUME NEW n \in P PROVE n + 1 \in P
  <2>1. n \in Nat /\ n + 1 \in Nat
    OBVIOUS
  <2>2. PICK f : FoldsNodes(f, n, X, L, S)
    OBVIOUS
  <2> DEFINE g == [t \in Nodes[n + 1] |-> IF t.type = "leaf" THEN L[t.pane]
                                          ELSE S[<<t, Each(f, t.children)>>]]
  <2>3. Nodes[n] \subseteq Nodes[n + 1]
    BY <2>1, NodesGrow
  <2>4. \A t \in Nodes[n] : g[t] = f[t]
    BY <2>2, <2>3, Zenon DEF FoldsNodes
  <2>5. \A t \in Nodes[n + 1] : t.type = "leaf" => t.pane \in Nat
    <3>1. Nodes[n + 1] = Leaves \cup Splits(Nodes[n])
      BY <2>1, NodesNext, Zenon
    <3> QED BY <3>1, LeavesAre, SplitsAre
  <2>6. \A t \in Nodes[n + 1] : t.type # "leaf" => t.children \in Seq(Nodes[n])
    <3> TAKE t \in Nodes[n + 1]
    <3> HAVE t.type # "leaf"
    <3>1. t \in Splits(Nodes[(n + 1) - 1]) /\ (n + 1) - 1 = n
      BY <2>1, KidsBelow
    <3> QED BY <3>1, SplitsAre
  <2>7. \A t \in Nodes[n + 1] : t.type # "leaf" =>
            Each(f, t.children) \in Seq(X) /\ Each(g, t.children) = Each(f, t.children)
    <3> TAKE t \in Nodes[n + 1]
    <3> HAVE t.type # "leaf"
    <3>1. t.children \in Seq(Nodes[n])
      BY <2>6
    <3>2. \A x \in Nodes[n] : f[x] \in X
      BY <2>2 DEF FoldsNodes
    <3>3. Each(f, t.children) \in Seq(X)
      BY <3>1, <3>2, EachSeq
    <3>4. \A i \in DOMAIN t.children : t.children[i] \in Nodes[n]
      BY <3>1
    <3> HIDE DEF g
    <3>5. Each(g, t.children) = Each(f, t.children)
      BY <3>4, <2>4 DEF Each
    <3> QED BY <3>3, <3>5
  <2>8. g \in [Nodes[n + 1] -> X]
    <3> SUFFICES ASSUME NEW t \in Nodes[n + 1]
                 PROVE  (IF t.type = "leaf" THEN L[t.pane] ELSE S[<<t, Each(f, t.children)>>]) \in X
      BY Zenon
    <3>1. t.type # "leaf" => t \in Splits(Trees)
      BY <2>1, NodeCases
    <3>2. CASE t.type = "leaf"
      BY <2>5, <3>2
    <3>3. CASE t.type # "leaf"
      <4>1. <<t, Each(f, t.children)>> \in Splits(Trees) \X Seq(X)
        BY <3>1, <3>3, <2>7
      <4> QED BY <3>3, <4>1
    <3> QED BY <3>2, <3>3
  <2>9. \A t \in Nodes[n + 1] :
          g[t] = IF t.type = "leaf" THEN L[t.pane] ELSE S[<<t, Each(g, t.children)>>]
    <3> SUFFICES ASSUME NEW t \in Nodes[n + 1]
                 PROVE  g[t] = IF t.type = "leaf" THEN L[t.pane] ELSE S[<<t, Each(g, t.children)>>]
      OBVIOUS
    <3>1. g[t] = IF t.type = "leaf" THEN L[t.pane] ELSE S[<<t, Each(f, t.children)>>]
      BY Zenon
    <3> HIDE DEF g
    <3>2. CASE t.type = "leaf"
      BY <3>1, <3>2, Zenon
    <3>3. CASE t.type # "leaf"
      BY <3>1, <3>3, <2>7, Zenon
    <3> QED BY <3>2, <3>3, Zenon
  <2>10. FoldsNodes(g, n + 1, X, L, S)
    <3> HIDE DEF g
    <3> QED BY <2>8, <2>9 DEF FoldsNodes
  <2> HIDE DEF g
  <2> QED BY <2>1, <2>10
<1>3. P = Nat
  <2>1. P \in SUBSET Nat
    OBVIOUS
  <2> HIDE DEF P
  <2> QED BY <1>1, <1>2, <2>1, Induction
<1> QED BY <1>3

(* ... in one way.                                                           *)
LEMMA FoldsNodesAgree ==
  ASSUME NEW X, NEW L, NEW S, NEW m \in Nat, NEW n \in Nat, NEW f, NEW g,
         FoldsNodes(f, m, X, L, S), FoldsNodes(g, n, X, L, S)
  PROVE  \A t \in Nodes[m] \cap Nodes[n] : f[t] = g[t]
<1> DEFINE P == {k \in Nat : \A t \in Nodes[k] : t \in Nodes[m] /\ t \in Nodes[n] => f[t] = g[t]}
<1>a. \A t \in Nodes[m] :
        f[t] = IF t.type = "leaf" THEN L[t.pane] ELSE S[<<t, Each(f, t.children)>>]
  BY DEF FoldsNodes
<1>b. \A t \in Nodes[n] :
        g[t] = IF t.type = "leaf" THEN L[t.pane] ELSE S[<<t, Each(g, t.children)>>]
  BY DEF FoldsNodes
<1>1. 0 \in P
  <2> SUFFICES ASSUME NEW t \in Nodes[0], t \in Nodes[m], t \in Nodes[n] PROVE f[t] = g[t]
    OBVIOUS
  <2>1. t.type = "leaf"
    BY NodesZero, LeavesAre
  <2> QED BY <1>a, <1>b, <2>1, Zenon
<1>2. ASSUME NEW k \in P PROVE k + 1 \in P
  <2>0. k \in Nat /\ k + 1 \in Nat /\ (k + 1) - 1 = k
    OBVIOUS
  <2> SUFFICES ASSUME NEW t \in Nodes[k + 1], t \in Nodes[m], t \in Nodes[n] PROVE f[t] = g[t]
    BY <2>0
  <2>1. CASE t.type = "leaf"
    BY <1>a, <1>b, <2>1, Zenon
  <2>2. CASE t.type # "leaf"
    <3>1. t.children \in Seq(Nodes[k])
      BY <2>0, <2>2, KidsBelow, SplitsAre
    <3>2. t.children \in Seq(Nodes[m])
      <4>1. m - 1 \in Nat /\ m - 1 <= m /\ t \in Splits(Nodes[m - 1])
        BY <2>2, KidsBelow
      <4>2. t.children \in Seq(Nodes[m - 1])
        BY <4>1, SplitsAre
      <4>3. Nodes[m - 1] \subseteq Nodes[m]
        BY <4>1, NodesBelow
      <4> QED BY <4>2, <4>3, SeqGrows
    <3>3. t.children \in Seq(Nodes[n])
      <4>1. n - 1 \in Nat /\ n - 1 <= n /\ t \in Splits(Nodes[n - 1])
        BY <2>2, KidsBelow
      <4>2. t.children \in Seq(Nodes[n - 1])
        BY <4>1, SplitsAre
      <4>3. Nodes[n - 1] \subseteq Nodes[n]
        BY <4>1, NodesBelow
      <4> QED BY <4>2, <4>3, SeqGrows
    <3>4. \A i \in DOMAIN t.children : f[t.children[i]] = g[t.children[i]]
      <4> TAKE i \in DOMAIN t.children
      <4>1. t.children[i] \in Nodes[k] /\ t.children[i] \in Nodes[m] /\ t.children[i] \in Nodes[n]
        BY <3>1, <3>2, <3>3
      <4> QED BY <4>1
    <3>5. Each(f, t.children) = Each(g, t.children)
      BY <3>4, Zenon DEF Each
    <3> QED BY <1>a, <1>b, <2>2, <3>5, Zenon
  <2> QED BY <2>1, <2>2
<1>3. P = Nat
  <2>1. P \in SUBSET Nat
    OBVIOUS
  <2> HIDE DEF P
  <2> QED BY <1>1, <1>2, <2>1, Induction
<1> QED BY <1>3

(* There is a fold of all trees, ...                                         *)
LEMMA FoldExists ==
  ASSUME NEW X, NEW L \in [Nat -> X], NEW S \in [Splits(Trees) \X Seq(X) -> X]
  PROVE  \E F \in [Trees -> X] : FoldsTrees(F, L, S)
<1> DEFINE lv == [n \in Nat |-> CHOOSE g : FoldsNodes(g, n, X, L, S)]
           F == [t \in Trees |-> lv[Depth(t)][t]]
<1>1. \A n \in Nat : FoldsNodes(lv[n], n, X, L, S)
  BY FoldsNodesExist, Zenon
<1> HIDE DEF lv
<1>2. \A t \in Trees : FoldsNodes(lv[Depth(t)], Depth(t), X, L, S)
  BY <1>1, DepthIs, Zenon
<1>3. F \in [Trees -> X]
  <2> SUFFICES ASSUME NEW t \in Trees PROVE lv[Depth(t)][t] \in X
    BY Zenon
  <2> QED BY <1>2, DepthIs DEF FoldsNodes
<1>4. \A n \in Nat : \A t \in Nodes[n] : F[t] = lv[n][t]
  <2> SUFFICES ASSUME NEW n \in Nat, NEW t \in Nodes[n] PROVE F[t] = lv[n][t]
    OBVIOUS
  <2>1. t \in Trees
    BY NodesTrees
  <2>2. PICK m \in Nat : m = Depth(t)
    BY <2>1, DepthIs
  <2>3. t \in Nodes[m] /\ F[t] = lv[m][t]
    BY <2>1, <2>2, DepthIs
  <2>4. FoldsNodes(lv[m], m, X, L, S) /\ FoldsNodes(lv[n], n, X, L, S)
    BY <1>1
  <2>5. lv[m][t] = lv[n][t]
    <3>1. t \in Nodes[m] \cap Nodes[n]
      BY <2>3
    <3> HIDE DEF F
    <3>2. PICK f, g : f = lv[m] /\ g = lv[n]
      OBVIOUS
    <3>3. FoldsNodes(f, m, X, L, S) /\ FoldsNodes(g, n, X, L, S)
      BY <2>4, <3>2
    <3>4. \A u \in Nodes[m] \cap Nodes[n] : f[u] = g[u]
      BY <3>3, FoldsNodesAgree
    <3> QED BY <3>1, <3>2, <3>4, Zenon
  <2> QED BY <2>3, <2>5
<1> HIDE DEF F
<1>5. \A p \in Nat : F[Leaf(p)] = L[p]
  <2> TAKE p \in Nat
  <2>1. Leaf(p) \in Nodes[0] /\ Leaf(p).type = "leaf" /\ Leaf(p).pane = p /\ 0 \in Nat
    BY LeafIs, NodesZero
  <2>2. lv[0][Leaf(p)] = L[p]
    <3> HIDE DEF lv
    <3>1. FoldsNodes(lv[0], 0, X, L, S)
      BY <1>1, <2>1, Zenon
    <3>2. lv[0][Leaf(p)] = IF Leaf(p).type = "leaf" THEN L[Leaf(p).pane]
                           ELSE S[<<Leaf(p), Each(lv[0], Leaf(p).children)>>]
      BY <3>1, <2>1, Zenon DEF FoldsNodes
    <3> QED BY <2>1, <3>2
  <2> QED BY <1>4, <2>1, <2>2, ZenonT(40)
<1>6. ASSUME NEW d \in Dirs, NEW kids \in Seq(Trees)
      PROVE  F[Split(d, kids)] = S[<<Split(d, kids), Each(F, kids)>>]
  <2>1. PICK n \in Nat : kids \in Seq(Nodes[n])
    BY SeqOfTrees
  <2>2. PICK m \in Nat : m = n + 1
    OBVIOUS
  <2>3. Nodes[n] \subseteq Nodes[m] /\ Split(d, kids) \in Nodes[m]
    <3>1. Nodes[m] = Leaves \cup Splits(Nodes[n])
      BY <2>2, NodesNext, Zenon
    <3>2. Split(d, kids) \in Splits(Nodes[n])
      BY <2>1, SplitIs
    <3>3. Nodes[n] \subseteq Nodes[m]
      BY <2>2, NodesGrow, Zenon
    <3> QED BY <3>1, <3>2, <3>3, Zenon
  <2>4. Split(d, kids).type # "leaf" /\ Split(d, kids).children = kids
    BY SplitIs
  <2>5. lv[m][Split(d, kids)] = S[<<Split(d, kids), Each(lv[m], kids)>>]
    BY <1>1, <2>3, <2>4, ZenonT(40) DEF FoldsNodes
  <2>6. Each(lv[m], kids) = Each(F, kids)
    <3>1. \A i \in DOMAIN kids : kids[i] \in Nodes[m]
      BY <2>1, <2>3
    <3>2. \A i \in DOMAIN kids : lv[m][kids[i]] = F[kids[i]]
      BY <1>4, <3>1, Zenon
    <3> QED BY <3>2, Zenon DEF Each
  <2> QED BY <1>4, <2>3, <2>5, <2>6, Zenon
<1> QED BY <1>3, <1>5, <1>6 DEF FoldsTrees

(* A function over the nodes of some level that folds as long as it stays    *)
(* in X is that one.                                                         *)
FoldsWithin(v, N, X, L, S) ==
    /\ \A t \in Nodes[N] : t.type = "leaf" => v[t] = L[t.pane]
    /\ \A t \in Nodes[N] : t.type # "leaf" /\ (\A i \in DOMAIN t.children : v[t.children[i]] \in X)
                                 => v[t] = S[<<t, Each(v, t.children)>>]

(* ... and only one.                                                         *)
LEMMA FoldUnique ==
  ASSUME NEW X, NEW L \in [Nat -> X], NEW S, NEW F \in [Trees -> X], FoldsTrees(F, L, S),
         NEW N \in Nat, NEW v, FoldsWithin(v, N, X, L, S)
  PROVE  \A t \in Nodes[N] : v[t] = F[t]
<1>p. \A t \in Nodes[N] : t.type = "leaf" => v[t] = L[t.pane]
  BY DEF FoldsWithin
<1>q. \A t \in Nodes[N] : t.type # "leaf" /\ (\A i \in DOMAIN t.children : v[t.children[i]] \in X)
                                 => v[t] = S[<<t, Each(v, t.children)>>]
  BY DEF FoldsWithin
<1> DEFINE P == {k \in Nat : k <= N => \A t \in Nodes[k] : v[t] = F[t]}
<1>0. ASSUME NEW t \in Nodes[N], t.type = "leaf", t \in Leaves PROVE v[t] = F[t]
  <2>1. t.pane \in Nat /\ t = Leaf(t.pane)
    BY <1>0, LeavesAre
  <2>2. F[Leaf(t.pane)] = L[t.pane]
    BY <2>1, Zenon DEF FoldsTrees
  <2> QED BY <1>0, <1>p, <2>1, <2>2
<1>1. 0 \in P
  <2> SUFFICES ASSUME NEW t \in Nodes[0] PROVE v[t] = F[t]
    OBVIOUS
  <2>1. t \in Leaves /\ t.type = "leaf" /\ t \in Nodes[N]
    BY NodesZero, LeavesAre, LeafInAll
  <2> QED BY <1>0, <2>1
<1>2. ASSUME NEW k \in P PROVE k + 1 \in P
  <2>0. k \in Nat /\ k + 1 \in Nat
    OBVIOUS
  <2> SUFFICES ASSUME k + 1 <= N, NEW t \in Nodes[k + 1] PROVE v[t] = F[t]
    BY <2>0
  <2>1. \A u \in Nodes[k] : v[u] = F[u]
    OBVIOUS
  <2>2. Nodes[k] \subseteq Nodes[N] /\ Nodes[k + 1] \subseteq Nodes[N]
    BY <2>0, NodesBelow
  <2>3. t \in Leaves \/ t \in Splits(Nodes[k])
    BY <2>0, NodesNext
  <2>4. CASE t \in Leaves
    BY <1>0, <2>2, <2>4, LeavesAre
  <2>5. CASE t \in Splits(Nodes[k])
    <3>1. t.type # "leaf" /\ t.direction \in Dirs /\ t.children \in Seq(Nodes[k])
          /\ t = Split(t.direction, t.children)
      BY <2>5, SplitsAre
    <3>2. t.children \in Seq(Trees)
      BY <2>0, <3>1, NodesTrees, SeqGrows
    <3>3. \A i \in DOMAIN t.children : v[t.children[i]] = F[t.children[i]] /\ F[t.children[i]] \in X
      <4> TAKE i \in DOMAIN t.children
      <4>1. t.children[i] \in Nodes[k] /\ t.children[i] \in Trees
        BY <3>1, <3>2
      <4> QED BY <2>1, <4>1
    <3>4. Each(v, t.children) = Each(F, t.children)
      BY <3>3, Zenon DEF Each
    <3>5. v[t] = S[<<t, Each(v, t.children)>>]
      <4>1. \A i \in DOMAIN t.children : v[t.children[i]] \in X
        BY <3>3
      <4>2. t \in Nodes[N]
        BY <2>2
      <4> QED BY <1>q, <3>1, <4>1, <4>2, Zenon
    <3>6. F[Split(t.direction, t.children)]
             = S[<<Split(t.direction, t.children), Each(F, t.children)>>]
      BY <3>1, <3>2, Zenon DEF FoldsTrees
    <3> QED BY <3>1, <3>4, <3>5, <3>6, Zenon
  <2> QED BY <2>3, <2>4, <2>5
<1>3. P = Nat
  <2>1. P \in SUBSET Nat
    OBVIOUS
  <2> HIDE DEF P
  <2> QED BY <1>1, <1>2, <2>1, Induction
<1>4. N <= N
  OBVIOUS
<1> QED BY <1>3, <1>4

(* One item for each, of the items that occur.                               *)
LEMMA EachOf ==
  ASSUME NEW S, NEW X, NEW s \in Seq(S), NEW f, \A i \in DOMAIN s : f[s[i]] \in X
  PROVE  Each(f, s) \in Seq(X)
  BY DEF Each

(* What a fold of all trees is over the nodes of one level.                  *)
FoldedAt(F, t, N, X, L, S) ==
    /\ t.type = "leaf" => F[t] = L[t.pane]
    /\ t.type # "leaf" => /\ F[t] = S[<<t, Each(F, t.children)>>]
                          /\ Each(F, t.children) \in Seq(X)
                          /\ \A i \in DOMAIN t.children : t.children[i] \in Nodes[N]

(* It is a fold over the nodes of any one level.                             *)
LEMMA FoldAt ==
  ASSUME NEW X, NEW L, NEW S, NEW F \in [Trees -> X], FoldsTrees(F, L, S),
         NEW N \in Nat, NEW t \in Nodes[N]
  PROVE  FoldedAt(F, t, N, X, L, S)
<1>1. ASSUME t.type = "leaf" PROVE F[t] = L[t.pane]
  <2>1. t.pane \in Nat /\ t = Leaf(t.pane)
    BY <1>1, NodeCases
  <2> QED BY <2>1, Zenon DEF FoldsTrees
<1>2. ASSUME t.type # "leaf"
      PROVE  /\ F[t] = S[<<t, Each(F, t.children)>>]
             /\ Each(F, t.children) \in Seq(X)
             /\ \A i \in DOMAIN t.children : t.children[i] \in Nodes[N]
  <2>1. t.direction \in Dirs /\ t.children \in Seq(Trees) /\ t = Split(t.direction, t.children)
    BY <1>2, NodeCases
  <2>2. F[Split(t.direction, t.children)]
          = S[<<Split(t.direction, t.children), Each(F, t.children)>>]
    BY <2>1, Zenon DEF FoldsTrees
  <2>3. \A x \in Trees : F[x] \in X
    OBVIOUS
  <2>4. Each(F, t.children) \in Seq(X)
    BY <2>1, <2>3, EachSeq
  <2>5. t.children \in Seq(Nodes[N])
    BY <1>2, NodeCases
  <2>6. \A i \in DOMAIN t.children : t.children[i] \in Nodes[N]
    BY <2>5
  <2>7. F[t] = S[<<t, Each(F, t.children)>>]
    BY <2>1, <2>2, Zenon
  <2> QED BY <2>4, <2>6, <2>7
<1> QED BY <1>1, <1>2 DEF FoldedAt

(* ListPanes is a fold of trees into sequences of panes. *)
LEMMA ListFolds ==
  \E F \in [Trees -> Seq(Nat)] :
     /\ \A t \in Trees : ListPanes(t) = F[t]
     /\ \A p \in Nat : F[Leaf(p)] = <<p>>
     /\ \A d \in Dirs, kids \in Seq(Trees) :
           F[Split(d, kids)] = FlattenSeq(Each(F, kids))
<1>0. PICK X : X = Seq(Nat)
  OBVIOUS
<1>l. PICK L : L = [p \in Nat |-> <<p>>]
  OBVIOUS
<1>s. PICK S : S = [w \in Splits(Trees) \X Seq(X) |-> FlattenSeq(w[2])]
  OBVIOUS
<1>1. L \in [Nat -> X]
  BY <1>0, <1>l
<1>2. S \in [Splits(Trees) \X Seq(X) -> X]
  <2> SUFFICES ASSUME NEW w \in Splits(Trees) \X Seq(X) PROVE FlattenSeq(w[2]) \in X
    BY <1>s, Zenon
  <2>1. w[2] \in Seq(Seq(Nat))
    BY <1>0
  <2> QED BY <1>0, <2>1, FlattenTyped
<1>3. \A p \in Nat : L[p] = <<p>>
  BY <1>l, Zenon
<1>4. ASSUME NEW t \in Splits(Trees), NEW w \in Seq(X) PROVE S[<<t, w>>] = FlattenSeq(w)
  <2>1. PICK z \in Splits(Trees) \X Seq(X) : z = <<t, w>>
    OBVIOUS
  <2>2. S[z] = FlattenSeq(z[2])
    BY <1>s, Zenon
  <2>3. z[1] = t /\ z[2] = w
    BY <2>1
  <2> QED BY <2>1, <2>2, <2>3, Zenon
<1>5. PICK F \in [Trees -> X] : FoldsTrees(F, L, S)
  BY <1>1, <1>2, FoldExists
<1>6. ASSUME NEW node \in Trees PROVE ListPanes(node) = F[node]
  <2>1. PICK N \in Nat : N = Depth(node) /\ node \in Nodes[N]
    BY DepthIs
  <2> DEFINE E(v) == v = [t \in Nodes[N] |->
                 IF t.type = "leaf" THEN <<t.pane>>
                 ELSE FlattenSeq([i \in DOMAIN t.children |-> v[t.children[i]]])]
             g == [t \in Nodes[N] |-> F[t]]
  <2>2. \A t \in Nodes[N] : t.type = "leaf" => F[t] = <<t.pane>>
    <3> TAKE t \in Nodes[N]
    <3> HAVE t.type = "leaf"
    <3>a. FoldedAt(F, t, N, X, L, S)
      BY <1>5, FoldAt, Zenon
    <3>1. F[t] = L[t.pane] /\ t.pane \in Nat
      BY <3>a, NodeCases DEF FoldedAt
    <3> QED BY <1>3, <3>1, Zenon
  <2>3. \A t \in Nodes[N] : t.type # "leaf" =>
          F[t] = FlattenSeq([i \in DOMAIN t.children |-> g[t.children[i]]])
    <3> TAKE t \in Nodes[N]
    <3> HAVE t.type # "leaf"
    <3>1. /\ F[t] = S[<<t, Each(F, t.children)>>] /\ Each(F, t.children) \in Seq(X)
          /\ \A i \in DOMAIN t.children : t.children[i] \in Nodes[N]
      <4>1. FoldedAt(F, t, N, X, L, S)
        BY <1>5, FoldAt, Zenon
      <4> QED BY <4>1, Zenon DEF FoldedAt
    <3>2. t \in Splits(Trees)
      BY NodeCases
    <3>3. F[t] = FlattenSeq(Each(F, t.children))
      BY <1>4, <3>1, <3>2, Zenon
    <3>4. Each(F, t.children) = [i \in DOMAIN t.children |-> g[t.children[i]]]
      BY <3>1, Zenon DEF Each
    <3> QED BY <3>3, <3>4, Zenon
  <2>4. \A t \in Nodes[N] :
          g[t] = IF t.type = "leaf" THEN <<t.pane>>
                 ELSE FlattenSeq([i \in DOMAIN t.children |-> g[t.children[i]]])
    <3> SUFFICES ASSUME NEW t \in Nodes[N]
                 PROVE  g[t] = IF t.type = "leaf" THEN <<t.pane>>
                               ELSE FlattenSeq([i \in DOMAIN t.children |-> g[t.children[i]]])
      OBVIOUS
    <3>1. g[t] = F[t]
      BY Zenon
    <3> HIDE DEF g
    <3>2. CASE t.type = "leaf"
      BY <2>2, <3>1, <3>2, Zenon
    <3>3. CASE t.type # "leaf"
      BY <2>3, <3>1, <3>3, Zenon
    <3> QED BY <3>2, <3>3, Zenon
  <2>5. E(g)
    <3> DEFINE h == [t \in Nodes[N] |->
                 IF t.type = "leaf" THEN <<t.pane>>
                 ELSE FlattenSeq([i \in DOMAIN t.children |-> g[t.children[i]]])]
    <3>1. \A t \in Nodes[N] : g[t] = h[t]
      BY <2>4, Zenon
    <3>2. g = h
      BY <3>1, Zenon
    <3> QED BY <3>2, Zenon
  <2>6. \E v : E(v)
    <3> HIDE DEF g, E
    <3> QED BY <2>5, Zenon
  <2>7. PICK v : E(v) /\ ListPanes(node) = v[node]
    <3> DEFINE v == CHOOSE v : E(v)
    <3>1. E(v)
      <4> HIDE DEF E
      <4> QED BY <2>6, Zenon
    <3>2. ListPanes(node) = v[node]
      BY <2>1, Zenon DEF ListPanes, FoldTree
    <3> HIDE DEF v, E
    <3> QED BY <3>1, <3>2, Zenon
  <2>8. \A t \in Nodes[N] : t.type = "leaf" => v[t] = L[t.pane]
    <3> TAKE t \in Nodes[N]
    <3> HAVE t.type = "leaf"
    <3>1. v[t] = <<t.pane>>
      BY <2>7, Zenon
    <3>2. t.pane \in Nat
      BY NodeCases
    <3> QED BY <1>3, <3>1, <3>2, Zenon
  <2>9. \A t \in Nodes[N] : t.type # "leaf" /\ (\A i \in DOMAIN t.children : v[t.children[i]] \in X)
                                => v[t] = S[<<t, Each(v, t.children)>>]
    <3> TAKE t \in Nodes[N]
    <3> HAVE t.type # "leaf" /\ (\A i \in DOMAIN t.children : v[t.children[i]] \in X)
    <3>1. v[t] = FlattenSeq([i \in DOMAIN t.children |-> v[t.children[i]]])
      BY <2>7, Zenon
    <3>2. t \in Splits(Trees) /\ t.children \in Seq(Trees)
      BY NodeCases
    <3>3. Each(v, t.children) \in Seq(X)
      BY <3>2, EachOf, Zenon
    <3>4. S[<<t, Each(v, t.children)>>] = FlattenSeq(Each(v, t.children))
      BY <1>4, <3>2, <3>3, Zenon
    <3> QED BY <3>1, <3>4, Zenon DEF Each
  <2> HIDE DEF E
  <2>10. \A t \in Nodes[N] : v[t] = F[t]
    <3>1. FoldsWithin(v, N, X, L, S)
      BY <2>8, <2>9, Zenon DEF FoldsWithin
    <3> QED BY <1>1, <1>5, <3>1, FoldUnique, SMTT(30)
  <2> QED BY <2>1, <2>7, <2>10, Zenon
<1>7. \A p \in Nat : F[Leaf(p)] = <<p>>
  BY <1>3, <1>5, Zenon DEF FoldsTrees
<1>8. ASSUME NEW d \in Dirs, NEW kids \in Seq(Trees)
      PROVE  F[Split(d, kids)] = FlattenSeq(Each(F, kids))
  <2>1. F[Split(d, kids)] = S[<<Split(d, kids), Each(F, kids)>>]
    BY <1>5, Zenon DEF FoldsTrees
  <2>2. Split(d, kids) \in Splits(Trees)
    BY SplitIs
  <2>3. \A x \in Trees : F[x] \in X
    OBVIOUS
  <2>4. Each(F, kids) \in Seq(X)
    BY <2>3, EachSeq
  <2> QED BY <1>4, <2>1, <2>2, <2>4, Zenon
<1> QED BY <1>0, <1>6, <1>7, <1>8, Zenon

(* The fields of a split of trees.                                           *)
LEMMA ForkIs ==
  ASSUME NEW t \in Splits(Trees)
  PROVE  /\ t.type = "split" /\ t.direction \in Dirs /\ t.children \in Seq(Trees)
         /\ t \in Trees
<1>1. t.type = "split" /\ t.direction \in Dirs /\ t.children \in Seq(Trees)
      /\ t = Split(t.direction, t.children)
  BY SplitsAre
<1>2. Split(t.direction, t.children) \in Trees
  BY <1>1, SplitTree, Zenon
<1> QED BY <1>1, <1>2, Zenon

(* A tree has a pane or children.                                            *)
LEMMA KidsOfTree ==
  ASSUME NEW t \in Trees
  PROVE  \/ t.type = "leaf" /\ t.pane \in Nat
         \/ t.type = "split" /\ t.direction \in Dirs /\ t.children \in Seq(Trees)
<1>1. CASE \E p \in Nat : t = Leaf(p)
  BY <1>1, LeafIs
<1>2. CASE \E d \in Dirs, kids \in Seq(Trees) : t = Split(d, kids)
  <2>1. PICK d \in Dirs, kids \in Seq(Trees) : t = Split(d, kids)
    BY <1>2
  <2> QED BY <2>1, SplitIs
<1> QED BY <1>1, <1>2, TreeCases

(* What Merged flattens: of each child itself, or its children.              *)
Lifting(d, kids) ==
    [i \in DOMAIN kids |-> IF kids[i].type = "split" /\ kids[i].direction = d
                           THEN kids[i].children ELSE <<kids[i]>>]

(* Merged, in terms of what it flattens.                                     *)
LEMMA MergedIs ==
  ASSUME NEW t, NEW kids
  PROVE  Merged(t, kids) = IF Len(FlattenSeq(Lifting(t.direction, kids))) = 1
                           THEN FlattenSeq(Lifting(t.direction, kids))[1]
                           ELSE Split(t.direction, FlattenSeq(Lifting(t.direction, kids)))
  BY Zenon DEF Merged, Lifting

(* What is flattened are sequences of trees.                                 *)
LEMMA LiftingTyped ==
  ASSUME NEW d \in Dirs, NEW kids \in Seq(Trees)
  PROVE  /\ Lifting(d, kids) \in Seq(Seq(Trees)) /\ Len(Lifting(d, kids)) = Len(kids)
         /\ FlattenSeq(Lifting(d, kids)) \in Seq(Trees)
<1>1. ASSUME NEW i \in DOMAIN kids
      PROVE  (IF kids[i].type = "split" /\ kids[i].direction = d
              THEN kids[i].children ELSE <<kids[i]>>) \in Seq(Trees)
  <2>1. PICK k \in Trees : k = kids[i]
    OBVIOUS
  <2>2. k.type = "split" => k.children \in Seq(Trees)
    BY KidsOfTree
  <2>3. <<k>> \in Seq(Trees)
    OBVIOUS
  <2> QED BY <2>1, <2>2, <2>3
<1>2. Lifting(d, kids) \in Seq(Seq(Trees)) /\ Len(Lifting(d, kids)) = Len(kids)
  <2>1. PICK T : T = Seq(Trees)
    OBVIOUS
  <2>2. Lifting(d, kids) \in Seq(T) /\ Len(Lifting(d, kids)) = Len(kids)
    <3>1. \A i \in DOMAIN kids :
            (IF kids[i].type = "split" /\ kids[i].direction = d
             THEN kids[i].children ELSE <<kids[i]>>) \in T
      BY <1>1, <2>1, Zenon
    <3>2. PICK n \in Nat : n = Len(kids) /\ DOMAIN kids = 1..n
      OBVIOUS
    <3> DEFINE at(i) == IF kids[i].type = "split" /\ kids[i].direction = d
                        THEN kids[i].children ELSE <<kids[i]>>
    <3>3. Lifting(d, kids) = [i \in 1..n |-> at(i)] /\ \A i \in 1..n : at(i) \in T
      BY <3>1, <3>2, Zenon DEF Lifting
    <3> HIDE DEF at
    <3> QED BY <3>2, <3>3
  <2> QED BY <2>1, <2>2
<1> QED BY <1>2, FlattenTyped

(* A merged split is a tree.                                                 *)
LEMMA MergedTyped ==
  ASSUME NEW t \in Splits(Trees), NEW kids \in Seq(Trees)
  PROVE  Merged(t, kids) \in Trees
<1>1. t.direction \in Dirs
  BY ForkIs
<1>2. PICK all \in Seq(Trees) : all = FlattenSeq(Lifting(t.direction, kids))
  BY <1>1, LiftingTyped
<1>3. Merged(t, kids) = IF Len(all) = 1 THEN all[1] ELSE Split(t.direction, all)
  BY <1>2, MergedIs, Zenon
<1>4. Split(t.direction, all) \in Trees
  BY <1>1, SplitTree, Zenon
<1>5. Len(all) = 1 => all[1] \in Trees
  <2>1. Len(all) = 1 => 1 \in 1..Len(all)
    OBVIOUS
  <2> QED BY <2>1, ElementOfSeq
<1>6. PICK m, s : m = Merged(t, kids) /\ s = Split(t.direction, all)
  OBVIOUS
<1>7. m = IF Len(all) = 1 THEN all[1] ELSE s
  BY <1>3, <1>6, Zenon
<1>8. m \in Trees
  BY <1>4, <1>5, <1>6, <1>7
<1> QED BY <1>6, <1>8, Zenon

(* A split with other children.                                              *)
LEMMA WithIs ==
  ASSUME NEW t \in Splits(Trees), NEW kids \in Seq(Trees)
  PROVE  With(t, kids) = Split(t.direction, kids) /\ With(t, kids) \in Trees
<1>1. With(t, kids) = Split(t.direction, kids)
  BY SplitsAre DEF With, Split, Splits
<1>2. t.direction \in Dirs
  BY ForkIs
<1> QED BY <1>1, <1>2, SplitTree, Zenon

(* Normalise is a fold of trees into trees. *)
LEMMA NormaliseFolds ==
  \E F \in [Trees -> Trees] :
     /\ \A t \in Trees : Normalise(t) = F[t]
     /\ \A p \in Nat : F[Leaf(p)] = Leaf(p)
     /\ \A d \in Dirs, kids \in Seq(Trees) :
           F[Split(d, kids)] = Merged(Split(d, kids), Each(F, kids))
<1>0. PICK X : X = Trees
  OBVIOUS
<1>l. PICK L : L = [p \in Nat |-> Leaf(p)]
  OBVIOUS
<1>s. PICK S : S = [w \in Splits(Trees) \X Seq(X) |-> Merged(w[1], w[2])]
  OBVIOUS
<1>1. L \in [Nat -> X]
  BY <1>0, <1>l, LeafTree
<1>2. S \in [Splits(Trees) \X Seq(X) -> X]
  <2> SUFFICES ASSUME NEW w \in Splits(Trees) \X Seq(X) PROVE Merged(w[1], w[2]) \in X
    BY <1>s, Zenon
  <2>1. w[1] \in Splits(Trees) /\ w[2] \in Seq(X)
    OBVIOUS
  <2> QED BY <1>0, <2>1, MergedTyped
<1>3. \A p \in Nat : L[p] = Leaf(p)
  BY <1>l, Zenon
<1>4. ASSUME NEW t \in Splits(Trees), NEW w \in Seq(X) PROVE S[<<t, w>>] = Merged(t, w)
  <2>1. PICK z \in Splits(Trees) \X Seq(X) : z = <<t, w>>
    OBVIOUS
  <2>2. S[z] = Merged(z[1], z[2])
    BY <1>s, Zenon
  <2>3. z[1] = t /\ z[2] = w
    BY <2>1
  <2> QED BY <2>1, <2>2, <2>3, Zenon
<1>5. PICK F \in [Trees -> X] : FoldsTrees(F, L, S)
  BY <1>1, <1>2, FoldExists
<1>6. ASSUME NEW node \in Trees PROVE Normalise(node) = F[node]
  <2>1. PICK N \in Nat : N = Depth(node) /\ node \in Nodes[N]
    BY DepthIs
  <2> DEFINE E(v) == v = [t \in Nodes[N] |->
                 IF t.type = "leaf" THEN Leaf(t.pane)
                 ELSE Merged(t, [i \in DOMAIN t.children |-> v[t.children[i]]])]
             g == [t \in Nodes[N] |-> F[t]]
  <2>2. \A t \in Nodes[N] : t.type = "leaf" => F[t] = Leaf(t.pane)
    <3> TAKE t \in Nodes[N]
    <3> HAVE t.type = "leaf"
    <3>a. FoldedAt(F, t, N, X, L, S)
      BY <1>5, FoldAt, Zenon
    <3>1. F[t] = L[t.pane] /\ t.pane \in Nat
      BY <3>a, NodeCases DEF FoldedAt
    <3> QED BY <1>3, <3>1, Zenon
  <2>3. \A t \in Nodes[N] : t.type # "leaf" =>
          F[t] = Merged(t, [i \in DOMAIN t.children |-> g[t.children[i]]])
    <3> TAKE t \in Nodes[N]
    <3> HAVE t.type # "leaf"
    <3>1. /\ F[t] = S[<<t, Each(F, t.children)>>] /\ Each(F, t.children) \in Seq(X)
          /\ \A i \in DOMAIN t.children : t.children[i] \in Nodes[N]
      <4>1. FoldedAt(F, t, N, X, L, S)
        BY <1>5, FoldAt, Zenon
      <4> QED BY <4>1, Zenon DEF FoldedAt
    <3>2. t \in Splits(Trees)
      BY NodeCases
    <3>3. F[t] = Merged(t, Each(F, t.children))
      BY <1>4, <3>1, <3>2, Zenon
    <3>4. Each(F, t.children) = [i \in DOMAIN t.children |-> g[t.children[i]]]
      BY <3>1, Zenon DEF Each
    <3> QED BY <3>3, <3>4, Zenon
  <2>4. \A t \in Nodes[N] :
          g[t] = IF t.type = "leaf" THEN Leaf(t.pane)
                 ELSE Merged(t, [i \in DOMAIN t.children |-> g[t.children[i]]])
    <3> SUFFICES ASSUME NEW t \in Nodes[N]
                 PROVE  g[t] = IF t.type = "leaf" THEN Leaf(t.pane)
                               ELSE Merged(t, [i \in DOMAIN t.children |-> g[t.children[i]]])
      OBVIOUS
    <3>1. g[t] = F[t]
      BY Zenon
    <3> HIDE DEF g
    <3>2. CASE t.type = "leaf"
      BY <2>2, <3>1, <3>2, Zenon
    <3>3. CASE t.type # "leaf"
      BY <2>3, <3>1, <3>3, Zenon
    <3> QED BY <3>2, <3>3, Zenon
  <2>5. E(g)
    <3> DEFINE h == [t \in Nodes[N] |->
                 IF t.type = "leaf" THEN Leaf(t.pane)
                 ELSE Merged(t, [i \in DOMAIN t.children |-> g[t.children[i]]])]
    <3>1. \A t \in Nodes[N] : g[t] = h[t]
      BY <2>4, Zenon
    <3>2. g = h
      BY <3>1, Zenon
    <3> QED BY <3>2, Zenon
  <2>6. \E v : E(v)
    <3> HIDE DEF g, E
    <3> QED BY <2>5, Zenon
  <2>7. PICK v : E(v) /\ Normalise(node) = v[node]
    <3> DEFINE v == CHOOSE v : E(v)
    <3>1. E(v)
      <4> HIDE DEF E
      <4> QED BY <2>6, Zenon
    <3>2. Normalise(node) = v[node]
      BY <2>1, Zenon DEF Normalise, FoldTree
    <3> HIDE DEF v, E
    <3> QED BY <3>1, <3>2, Zenon
  <2>8. \A t \in Nodes[N] : t.type = "leaf" => v[t] = L[t.pane]
    <3> TAKE t \in Nodes[N]
    <3> HAVE t.type = "leaf"
    <3>1. v[t] = Leaf(t.pane)
      BY <2>7, Zenon
    <3>2. t.pane \in Nat
      BY NodeCases
    <3> QED BY <1>3, <3>1, <3>2, Zenon
  <2>9. \A t \in Nodes[N] : t.type # "leaf" /\ (\A i \in DOMAIN t.children : v[t.children[i]] \in X)
                                => v[t] = S[<<t, Each(v, t.children)>>]
    <3> TAKE t \in Nodes[N]
    <3> HAVE t.type # "leaf" /\ (\A i \in DOMAIN t.children : v[t.children[i]] \in X)
    <3>1. v[t] = Merged(t, [i \in DOMAIN t.children |-> v[t.children[i]]])
      BY <2>7, Zenon
    <3>2. t \in Splits(Trees) /\ t.children \in Seq(Trees)
      BY NodeCases
    <3>3. Each(v, t.children) \in Seq(X)
      BY <3>2, EachOf, Zenon
    <3>4. S[<<t, Each(v, t.children)>>] = Merged(t, Each(v, t.children))
      BY <1>4, <3>2, <3>3, Zenon
    <3> QED BY <3>1, <3>4, Zenon DEF Each
  <2> HIDE DEF E
  <2>10. \A t \in Nodes[N] : v[t] = F[t]
    <3>1. FoldsWithin(v, N, X, L, S)
      BY <2>8, <2>9, Zenon DEF FoldsWithin
    <3> QED BY <1>1, <1>5, <3>1, FoldUnique, SMTT(30)
  <2> QED BY <2>1, <2>7, <2>10, Zenon
<1>7. \A p \in Nat : F[Leaf(p)] = Leaf(p)
  BY <1>3, <1>5, Zenon DEF FoldsTrees
<1>8. ASSUME NEW d \in Dirs, NEW kids \in Seq(Trees)
      PROVE  F[Split(d, kids)] = Merged(Split(d, kids), Each(F, kids))
  <2>1. F[Split(d, kids)] = S[<<Split(d, kids), Each(F, kids)>>]
    BY <1>5, Zenon DEF FoldsTrees
  <2>2. Split(d, kids) \in Splits(Trees)
    BY SplitIs
  <2>3. \A x \in Trees : F[x] \in X
    OBVIOUS
  <2>4. Each(F, kids) \in Seq(X)
    BY <2>3, EachSeq
  <2> QED BY <1>4, <2>1, <2>2, <2>4, Zenon
<1> QED BY <1>0, <1>6, <1>7, <1>8, Zenon

ReplaceTo(F, target, new) ==
    /\ \A t \in Trees : ReplaceLeaf(t, target, new) = F[t]
    /\ \A p \in Nat : F[Leaf(p)] = (IF p = target THEN new ELSE Leaf(p))
    /\ \A d \in Dirs, kids \in Seq(Trees) :
          F[Split(d, kids)] = With(Split(d, kids), Each(F, kids))

(* ReplaceLeaf is a fold of trees into trees, ... *)
LEMMA ReplaceFolds ==
  ASSUME NEW target, NEW new \in Trees
  PROVE  \E F \in [Trees -> Trees] : ReplaceTo(F, target, new)
<1>0. PICK X : X = Trees
  OBVIOUS
<1>l. PICK L : L = [p \in Nat |-> (IF p = target THEN new ELSE Leaf(p))]
  OBVIOUS
<1>s. PICK S : S = [w \in Splits(Trees) \X Seq(X) |-> With(w[1], w[2])]
  OBVIOUS
<1>1. L \in [Nat -> X]
  BY <1>0, <1>l, LeafTree
<1>2. S \in [Splits(Trees) \X Seq(X) -> X]
  <2> SUFFICES ASSUME NEW w \in Splits(Trees) \X Seq(X) PROVE With(w[1], w[2]) \in X
    BY <1>s, Zenon
  <2>1. w[1] \in Splits(Trees) /\ w[2] \in Seq(X)
    OBVIOUS
  <2> QED BY <1>0, <2>1, WithIs
<1>3. \A p \in Nat : L[p] = (IF p = target THEN new ELSE Leaf(p))
  BY <1>l, Zenon
<1>4. ASSUME NEW t \in Splits(Trees), NEW w \in Seq(X) PROVE S[<<t, w>>] = With(t, w)
  <2>1. PICK z \in Splits(Trees) \X Seq(X) : z = <<t, w>>
    OBVIOUS
  <2>2. S[z] = With(z[1], z[2])
    BY <1>s, Zenon
  <2>3. z[1] = t /\ z[2] = w
    BY <2>1
  <2> QED BY <2>1, <2>2, <2>3, Zenon
<1>5. PICK F \in [Trees -> X] : FoldsTrees(F, L, S)
  BY <1>1, <1>2, FoldExists
<1>6. ASSUME NEW node \in Trees PROVE ReplaceLeaf(node, target, new) = F[node]
  <2>1. PICK N \in Nat : N = Depth(node) /\ node \in Nodes[N]
    BY DepthIs
  <2> DEFINE E(v) == v = [t \in Nodes[N] |->
                 IF t.type = "leaf" THEN (IF t.pane = target THEN new ELSE Leaf(t.pane))
                 ELSE With(t, [i \in DOMAIN t.children |-> v[t.children[i]]])]
             g == [t \in Nodes[N] |-> F[t]]
  <2>2. \A t \in Nodes[N] : t.type = "leaf" => F[t] = (IF t.pane = target THEN new ELSE Leaf(t.pane))
    <3> TAKE t \in Nodes[N]
    <3> HAVE t.type = "leaf"
    <3>a. FoldedAt(F, t, N, X, L, S)
      BY <1>5, FoldAt, Zenon
    <3>1. F[t] = L[t.pane] /\ t.pane \in Nat
      BY <3>a, NodeCases DEF FoldedAt
    <3> QED BY <1>3, <3>1, Zenon
  <2>3. \A t \in Nodes[N] : t.type # "leaf" =>
          F[t] = With(t, [i \in DOMAIN t.children |-> g[t.children[i]]])
    <3> TAKE t \in Nodes[N]
    <3> HAVE t.type # "leaf"
    <3>1. /\ F[t] = S[<<t, Each(F, t.children)>>] /\ Each(F, t.children) \in Seq(X)
          /\ \A i \in DOMAIN t.children : t.children[i] \in Nodes[N]
      <4>1. FoldedAt(F, t, N, X, L, S)
        BY <1>5, FoldAt, Zenon
      <4> QED BY <4>1, Zenon DEF FoldedAt
    <3>2. t \in Splits(Trees)
      BY NodeCases
    <3>3. F[t] = With(t, Each(F, t.children))
      BY <1>4, <3>1, <3>2, Zenon
    <3>4. Each(F, t.children) = [i \in DOMAIN t.children |-> g[t.children[i]]]
      BY <3>1, Zenon DEF Each
    <3> QED BY <3>3, <3>4, Zenon
  <2>4. \A t \in Nodes[N] :
          g[t] = IF t.type = "leaf" THEN (IF t.pane = target THEN new ELSE Leaf(t.pane))
                 ELSE With(t, [i \in DOMAIN t.children |-> g[t.children[i]]])
    <3> SUFFICES ASSUME NEW t \in Nodes[N]
                 PROVE  g[t] = IF t.type = "leaf" THEN (IF t.pane = target THEN new ELSE Leaf(t.pane))
                               ELSE With(t, [i \in DOMAIN t.children |-> g[t.children[i]]])
      OBVIOUS
    <3>1. g[t] = F[t]
      BY Zenon
    <3> HIDE DEF g
    <3>2. CASE t.type = "leaf"
      BY <2>2, <3>1, <3>2, Zenon
    <3>3. CASE t.type # "leaf"
      BY <2>3, <3>1, <3>3, Zenon
    <3> QED BY <3>2, <3>3, Zenon
  <2>5. E(g)
    <3> DEFINE h == [t \in Nodes[N] |->
                 IF t.type = "leaf" THEN (IF t.pane = target THEN new ELSE Leaf(t.pane))
                 ELSE With(t, [i \in DOMAIN t.children |-> g[t.children[i]]])]
    <3>1. \A t \in Nodes[N] : g[t] = h[t]
      BY <2>4, Zenon
    <3>2. g = h
      BY <3>1, Zenon
    <3> QED BY <3>2, Zenon
  <2>6. \E v : E(v)
    <3> HIDE DEF g, E
    <3> QED BY <2>5, Zenon
  <2>7. PICK v : E(v) /\ ReplaceLeaf(node, target, new) = v[node]
    <3> DEFINE v == CHOOSE v : E(v)
    <3>1. E(v)
      <4> HIDE DEF E
      <4> QED BY <2>6, Zenon
    <3>2. ReplaceLeaf(node, target, new) = v[node]
      BY <2>1, Zenon DEF ReplaceLeaf, FoldTree
    <3> HIDE DEF v, E
    <3> QED BY <3>1, <3>2, Zenon
  <2>8. \A t \in Nodes[N] : t.type = "leaf" => v[t] = L[t.pane]
    <3> TAKE t \in Nodes[N]
    <3> HAVE t.type = "leaf"
    <3>1. v[t] = (IF t.pane = target THEN new ELSE Leaf(t.pane))
      BY <2>7, Zenon
    <3>2. t.pane \in Nat
      BY NodeCases
    <3> QED BY <1>3, <3>1, <3>2, Zenon
  <2>9. \A t \in Nodes[N] : t.type # "leaf" /\ (\A i \in DOMAIN t.children : v[t.children[i]] \in X)
                                => v[t] = S[<<t, Each(v, t.children)>>]
    <3> TAKE t \in Nodes[N]
    <3> HAVE t.type # "leaf" /\ (\A i \in DOMAIN t.children : v[t.children[i]] \in X)
    <3>1. v[t] = With(t, [i \in DOMAIN t.children |-> v[t.children[i]]])
      BY <2>7, Zenon
    <3>2. t \in Splits(Trees) /\ t.children \in Seq(Trees)
      BY NodeCases
    <3>3. Each(v, t.children) \in Seq(X)
      BY <3>2, EachOf, Zenon
    <3>4. S[<<t, Each(v, t.children)>>] = With(t, Each(v, t.children))
      BY <1>4, <3>2, <3>3, Zenon
    <3> QED BY <3>1, <3>4, Zenon DEF Each
  <2> HIDE DEF E
  <2>10. \A t \in Nodes[N] : v[t] = F[t]
    <3>1. FoldsWithin(v, N, X, L, S)
      BY <2>8, <2>9, Zenon DEF FoldsWithin
    <3> QED BY <1>1, <1>5, <3>1, FoldUnique, SMTT(30)
  <2> QED BY <2>1, <2>7, <2>10, Zenon
<1>7. \A p \in Nat : F[Leaf(p)] = (IF p = target THEN new ELSE Leaf(p))
  BY <1>3, <1>5, Zenon DEF FoldsTrees
<1>8. ASSUME NEW d \in Dirs, NEW kids \in Seq(Trees)
      PROVE  F[Split(d, kids)] = With(Split(d, kids), Each(F, kids))
  <2>1. F[Split(d, kids)] = S[<<Split(d, kids), Each(F, kids)>>]
    BY <1>5, Zenon DEF FoldsTrees
  <2>2. Split(d, kids) \in Splits(Trees)
    BY SplitIs
  <2>3. \A x \in Trees : F[x] \in X
    OBVIOUS
  <2>4. Each(F, kids) \in Seq(X)
    BY <2>3, EachSeq
  <2> QED BY <1>4, <2>1, <2>2, <2>4, Zenon
<1> QED BY <1>0, <1>6, <1>7, <1>8, Zenon DEF ReplaceTo

SwapTo(F, a, b) ==
    /\ \A t \in Trees : SwapPanes(t, a, b) = F[t]
    /\ \A p \in Nat : F[Leaf(p)] = Leaf(IF p = a THEN b ELSE IF p = b THEN a ELSE p)
    /\ \A d \in Dirs, kids \in Seq(Trees) :
          F[Split(d, kids)] = With(Split(d, kids), Each(F, kids))

(* ... and SwapPanes is. *)
LEMMA SwapFolds ==
  ASSUME NEW a \in Nat, NEW b \in Nat
  PROVE  \E F \in [Trees -> Trees] : SwapTo(F, a, b)
<1>0. PICK X : X = Trees
  OBVIOUS
<1>l. PICK L : L = [p \in Nat |-> Leaf(IF p = a THEN b ELSE IF p = b THEN a ELSE p)]
  OBVIOUS
<1>s. PICK S : S = [w \in Splits(Trees) \X Seq(X) |-> With(w[1], w[2])]
  OBVIOUS
<1>1. L \in [Nat -> X]
  BY <1>0, <1>l, LeafTree
<1>2. S \in [Splits(Trees) \X Seq(X) -> X]
  <2> SUFFICES ASSUME NEW w \in Splits(Trees) \X Seq(X) PROVE With(w[1], w[2]) \in X
    BY <1>s, Zenon
  <2>1. w[1] \in Splits(Trees) /\ w[2] \in Seq(X)
    OBVIOUS
  <2> QED BY <1>0, <2>1, WithIs
<1>3. \A p \in Nat : L[p] = Leaf(IF p = a THEN b ELSE IF p = b THEN a ELSE p)
  BY <1>l, Zenon
<1>4. ASSUME NEW t \in Splits(Trees), NEW w \in Seq(X) PROVE S[<<t, w>>] = With(t, w)
  <2>1. PICK z \in Splits(Trees) \X Seq(X) : z = <<t, w>>
    OBVIOUS
  <2>2. S[z] = With(z[1], z[2])
    BY <1>s, Zenon
  <2>3. z[1] = t /\ z[2] = w
    BY <2>1
  <2> QED BY <2>1, <2>2, <2>3, Zenon
<1>5. PICK F \in [Trees -> X] : FoldsTrees(F, L, S)
  BY <1>1, <1>2, FoldExists
<1>6. ASSUME NEW node \in Trees PROVE SwapPanes(node, a, b) = F[node]
  <2>1. PICK N \in Nat : N = Depth(node) /\ node \in Nodes[N]
    BY DepthIs
  <2> DEFINE E(v) == v = [t \in Nodes[N] |->
                 IF t.type = "leaf" THEN Leaf(IF t.pane = a THEN b ELSE IF t.pane = b THEN a ELSE t.pane)
                 ELSE With(t, [i \in DOMAIN t.children |-> v[t.children[i]]])]
             g == [t \in Nodes[N] |-> F[t]]
  <2>2. \A t \in Nodes[N] : t.type = "leaf" => F[t] = Leaf(IF t.pane = a THEN b ELSE IF t.pane = b THEN a ELSE t.pane)
    <3> TAKE t \in Nodes[N]
    <3> HAVE t.type = "leaf"
    <3>a. FoldedAt(F, t, N, X, L, S)
      BY <1>5, FoldAt, Zenon
    <3>1. F[t] = L[t.pane] /\ t.pane \in Nat
      BY <3>a, NodeCases DEF FoldedAt
    <3> QED BY <1>3, <3>1, Zenon
  <2>3. \A t \in Nodes[N] : t.type # "leaf" =>
          F[t] = With(t, [i \in DOMAIN t.children |-> g[t.children[i]]])
    <3> TAKE t \in Nodes[N]
    <3> HAVE t.type # "leaf"
    <3>1. /\ F[t] = S[<<t, Each(F, t.children)>>] /\ Each(F, t.children) \in Seq(X)
          /\ \A i \in DOMAIN t.children : t.children[i] \in Nodes[N]
      <4>1. FoldedAt(F, t, N, X, L, S)
        BY <1>5, FoldAt, Zenon
      <4> QED BY <4>1, Zenon DEF FoldedAt
    <3>2. t \in Splits(Trees)
      BY NodeCases
    <3>3. F[t] = With(t, Each(F, t.children))
      BY <1>4, <3>1, <3>2, Zenon
    <3>4. Each(F, t.children) = [i \in DOMAIN t.children |-> g[t.children[i]]]
      BY <3>1, Zenon DEF Each
    <3> QED BY <3>3, <3>4, Zenon
  <2>4. \A t \in Nodes[N] :
          g[t] = IF t.type = "leaf" THEN Leaf(IF t.pane = a THEN b ELSE IF t.pane = b THEN a ELSE t.pane)
                 ELSE With(t, [i \in DOMAIN t.children |-> g[t.children[i]]])
    <3> SUFFICES ASSUME NEW t \in Nodes[N]
                 PROVE  g[t] = IF t.type = "leaf" THEN Leaf(IF t.pane = a THEN b ELSE IF t.pane = b THEN a ELSE t.pane)
                               ELSE With(t, [i \in DOMAIN t.children |-> g[t.children[i]]])
      OBVIOUS
    <3>1. g[t] = F[t]
      BY Zenon
    <3> HIDE DEF g
    <3>2. CASE t.type = "leaf"
      BY <2>2, <3>1, <3>2, Zenon
    <3>3. CASE t.type # "leaf"
      BY <2>3, <3>1, <3>3, Zenon
    <3> QED BY <3>2, <3>3, Zenon
  <2>5. E(g)
    <3> DEFINE h == [t \in Nodes[N] |->
                 IF t.type = "leaf" THEN Leaf(IF t.pane = a THEN b ELSE IF t.pane = b THEN a ELSE t.pane)
                 ELSE With(t, [i \in DOMAIN t.children |-> g[t.children[i]]])]
    <3>1. \A t \in Nodes[N] : g[t] = h[t]
      BY <2>4, Zenon
    <3>2. g = h
      BY <3>1, Zenon
    <3> QED BY <3>2, Zenon
  <2>6. \E v : E(v)
    <3> HIDE DEF g, E
    <3> QED BY <2>5, Zenon
  <2>7. PICK v : E(v) /\ SwapPanes(node, a, b) = v[node]
    <3> DEFINE v == CHOOSE v : E(v)
    <3>1. E(v)
      <4> HIDE DEF E
      <4> QED BY <2>6, Zenon
    <3>2. SwapPanes(node, a, b) = v[node]
      BY <2>1, Zenon DEF SwapPanes, FoldTree
    <3> HIDE DEF v, E
    <3> QED BY <3>1, <3>2, Zenon
  <2>8. \A t \in Nodes[N] : t.type = "leaf" => v[t] = L[t.pane]
    <3> TAKE t \in Nodes[N]
    <3> HAVE t.type = "leaf"
    <3>1. v[t] = Leaf(IF t.pane = a THEN b ELSE IF t.pane = b THEN a ELSE t.pane)
      BY <2>7, Zenon
    <3>2. t.pane \in Nat
      BY NodeCases
    <3> QED BY <1>3, <3>1, <3>2, Zenon
  <2>9. \A t \in Nodes[N] : t.type # "leaf" /\ (\A i \in DOMAIN t.children : v[t.children[i]] \in X)
                                => v[t] = S[<<t, Each(v, t.children)>>]
    <3> TAKE t \in Nodes[N]
    <3> HAVE t.type # "leaf" /\ (\A i \in DOMAIN t.children : v[t.children[i]] \in X)
    <3>1. v[t] = With(t, [i \in DOMAIN t.children |-> v[t.children[i]]])
      BY <2>7, Zenon
    <3>2. t \in Splits(Trees) /\ t.children \in Seq(Trees)
      BY NodeCases
    <3>3. Each(v, t.children) \in Seq(X)
      BY <3>2, EachOf, Zenon
    <3>4. S[<<t, Each(v, t.children)>>] = With(t, Each(v, t.children))
      BY <1>4, <3>2, <3>3, Zenon
    <3> QED BY <3>1, <3>4, Zenon DEF Each
  <2> HIDE DEF E
  <2>10. \A t \in Nodes[N] : v[t] = F[t]
    <3>1. FoldsWithin(v, N, X, L, S)
      BY <2>8, <2>9, Zenon DEF FoldsWithin
    <3> QED BY <1>1, <1>5, <3>1, FoldUnique, SMTT(30)
  <2> QED BY <2>1, <2>7, <2>10, Zenon
<1>7. \A p \in Nat : F[Leaf(p)] = Leaf(IF p = a THEN b ELSE IF p = b THEN a ELSE p)
  BY <1>3, <1>5, Zenon DEF FoldsTrees
<1>8. ASSUME NEW d \in Dirs, NEW kids \in Seq(Trees)
      PROVE  F[Split(d, kids)] = With(Split(d, kids), Each(F, kids))
  <2>1. F[Split(d, kids)] = S[<<Split(d, kids), Each(F, kids)>>]
    BY <1>5, Zenon DEF FoldsTrees
  <2>2. Split(d, kids) \in Splits(Trees)
    BY SplitIs
  <2>3. \A x \in Trees : F[x] \in X
    OBVIOUS
  <2>4. Each(F, kids) \in Seq(X)
    BY <2>3, EachSeq
  <2> QED BY <1>4, <2>1, <2>2, <2>4, Zenon
<1> QED BY <1>0, <1>6, <1>7, <1>8, Zenon DEF SwapTo

(* Normal is a fold of trees into truth values. *)
LEMMA NormalFolds ==
  \E F \in [Trees -> BOOLEAN] :
     /\ \A t \in Trees : Normal(t) = F[t]
     /\ \A p \in Nat : F[Leaf(p)] = TRUE
     /\ \A d \in Dirs, kids \in Seq(Trees) :
           F[Split(d, kids)] = NormalSplit(Split(d, kids), Each(F, kids))
<1>0. PICK X : X = BOOLEAN
  OBVIOUS
<1>l. PICK L : L = [p \in Nat |-> TRUE]
  OBVIOUS
<1>s. PICK S : S = [w \in Splits(Trees) \X Seq(X) |-> NormalSplit(w[1], w[2])]
  OBVIOUS
<1>1. L \in [Nat -> X]
  BY <1>0, <1>l
<1>2. S \in [Splits(Trees) \X Seq(X) -> X]
  <2> SUFFICES ASSUME NEW w \in Splits(Trees) \X Seq(X) PROVE NormalSplit(w[1], w[2]) \in X
    BY <1>s, Zenon
  <2>1. w[1] \in Splits(Trees) /\ w[2] \in Seq(X)
    OBVIOUS
  <2> QED BY <1>0, <2>1, Zenon DEF NormalSplit
<1>3. \A p \in Nat : L[p] = TRUE
  BY <1>l, Zenon
<1>4. ASSUME NEW t \in Splits(Trees), NEW w \in Seq(X) PROVE S[<<t, w>>] = NormalSplit(t, w)
  <2>1. PICK z \in Splits(Trees) \X Seq(X) : z = <<t, w>>
    OBVIOUS
  <2>2. S[z] = NormalSplit(z[1], z[2])
    BY <1>s, Zenon
  <2>3. z[1] = t /\ z[2] = w
    BY <2>1
  <2> QED BY <2>1, <2>2, <2>3, Zenon
<1>5. PICK F \in [Trees -> X] : FoldsTrees(F, L, S)
  BY <1>1, <1>2, FoldExists
<1>6. ASSUME NEW node \in Trees PROVE Normal(node) = F[node]
  <2>1. PICK N \in Nat : N = Depth(node) /\ node \in Nodes[N]
    BY DepthIs
  <2> DEFINE E(v) == v = [t \in Nodes[N] |->
                 IF t.type = "leaf" THEN TRUE
                 ELSE NormalSplit(t, [i \in DOMAIN t.children |-> v[t.children[i]]])]
             g == [t \in Nodes[N] |-> F[t]]
  <2>2. \A t \in Nodes[N] : t.type = "leaf" => F[t] = TRUE
    <3> TAKE t \in Nodes[N]
    <3> HAVE t.type = "leaf"
    <3>a. FoldedAt(F, t, N, X, L, S)
      BY <1>5, FoldAt, Zenon
    <3>1. F[t] = L[t.pane] /\ t.pane \in Nat
      BY <3>a, NodeCases DEF FoldedAt
    <3> QED BY <1>3, <3>1, Zenon
  <2>3. \A t \in Nodes[N] : t.type # "leaf" =>
          F[t] = NormalSplit(t, [i \in DOMAIN t.children |-> g[t.children[i]]])
    <3> TAKE t \in Nodes[N]
    <3> HAVE t.type # "leaf"
    <3>1. /\ F[t] = S[<<t, Each(F, t.children)>>] /\ Each(F, t.children) \in Seq(X)
          /\ \A i \in DOMAIN t.children : t.children[i] \in Nodes[N]
      <4>1. FoldedAt(F, t, N, X, L, S)
        BY <1>5, FoldAt, Zenon
      <4> QED BY <4>1, Zenon DEF FoldedAt
    <3>2. t \in Splits(Trees)
      BY NodeCases
    <3>3. F[t] = NormalSplit(t, Each(F, t.children))
      BY <1>4, <3>1, <3>2, Zenon
    <3>4. Each(F, t.children) = [i \in DOMAIN t.children |-> g[t.children[i]]]
      BY <3>1, Zenon DEF Each
    <3> QED BY <3>3, <3>4, Zenon
  <2>4. \A t \in Nodes[N] :
          g[t] = IF t.type = "leaf" THEN TRUE
                 ELSE NormalSplit(t, [i \in DOMAIN t.children |-> g[t.children[i]]])
    <3> SUFFICES ASSUME NEW t \in Nodes[N]
                 PROVE  g[t] = IF t.type = "leaf" THEN TRUE
                               ELSE NormalSplit(t, [i \in DOMAIN t.children |-> g[t.children[i]]])
      OBVIOUS
    <3>1. g[t] = F[t]
      BY Zenon
    <3> HIDE DEF g
    <3>2. CASE t.type = "leaf"
      BY <2>2, <3>1, <3>2, Zenon
    <3>3. CASE t.type # "leaf"
      BY <2>3, <3>1, <3>3, Zenon
    <3> QED BY <3>2, <3>3, Zenon
  <2>5. E(g)
    <3> DEFINE h == [t \in Nodes[N] |->
                 IF t.type = "leaf" THEN TRUE
                 ELSE NormalSplit(t, [i \in DOMAIN t.children |-> g[t.children[i]]])]
    <3>1. \A t \in Nodes[N] : g[t] = h[t]
      BY <2>4, Zenon
    <3>2. g = h
      BY <3>1, Zenon
    <3> QED BY <3>2, Zenon
  <2>6. \E v : E(v)
    <3> HIDE DEF g, E
    <3> QED BY <2>5, Zenon
  <2>7. PICK v : E(v) /\ Normal(node) = v[node]
    <3> DEFINE v == CHOOSE v : E(v)
    <3>1. E(v)
      <4> HIDE DEF E
      <4> QED BY <2>6, Zenon
    <3>2. Normal(node) = v[node]
      BY <2>1, Zenon DEF Normal, FoldTree
    <3> HIDE DEF v, E
    <3> QED BY <3>1, <3>2, Zenon
  <2>8. \A t \in Nodes[N] : t.type = "leaf" => v[t] = L[t.pane]
    <3> TAKE t \in Nodes[N]
    <3> HAVE t.type = "leaf"
    <3>1. v[t] = TRUE
      BY <2>7, Zenon
    <3>2. t.pane \in Nat
      BY NodeCases
    <3> QED BY <1>3, <3>1, <3>2, Zenon
  <2>9. \A t \in Nodes[N] : t.type # "leaf" /\ (\A i \in DOMAIN t.children : v[t.children[i]] \in X)
                                => v[t] = S[<<t, Each(v, t.children)>>]
    <3> TAKE t \in Nodes[N]
    <3> HAVE t.type # "leaf" /\ (\A i \in DOMAIN t.children : v[t.children[i]] \in X)
    <3>1. v[t] = NormalSplit(t, [i \in DOMAIN t.children |-> v[t.children[i]]])
      BY <2>7, Zenon
    <3>2. t \in Splits(Trees) /\ t.children \in Seq(Trees)
      BY NodeCases
    <3>3. Each(v, t.children) \in Seq(X)
      BY <3>2, EachOf, Zenon
    <3>4. S[<<t, Each(v, t.children)>>] = NormalSplit(t, Each(v, t.children))
      BY <1>4, <3>2, <3>3, Zenon
    <3> QED BY <3>1, <3>4, Zenon DEF Each
  <2> HIDE DEF E
  <2>10. \A t \in Nodes[N] : v[t] = F[t]
    <3>1. FoldsWithin(v, N, X, L, S)
      BY <2>8, <2>9, Zenon DEF FoldsWithin
    <3> QED BY <1>1, <1>5, <3>1, FoldUnique, SMTT(30)
  <2> QED BY <2>1, <2>7, <2>10, Zenon
<1>7. \A p \in Nat : F[Leaf(p)] = TRUE
  BY <1>3, <1>5, Zenon DEF FoldsTrees
<1>8. ASSUME NEW d \in Dirs, NEW kids \in Seq(Trees)
      PROVE  F[Split(d, kids)] = NormalSplit(Split(d, kids), Each(F, kids))
  <2>1. F[Split(d, kids)] = S[<<Split(d, kids), Each(F, kids)>>]
    BY <1>5, Zenon DEF FoldsTrees
  <2>2. Split(d, kids) \in Splits(Trees)
    BY SplitIs
  <2>3. \A x \in Trees : F[x] \in X
    OBVIOUS
  <2>4. Each(F, kids) \in Seq(X)
    BY <2>3, EachSeq
  <2> QED BY <1>4, <2>1, <2>2, <2>4, Zenon
<1> QED BY <1>0, <1>6, <1>7, <1>8, Zenon


(* Normalising gives a tree.                                                 *)
LEMMA NormaliseTyped == \A t \in Trees : Normalise(t) \in Trees
  BY NormaliseFolds

(* What is left of a split are trees.                                        *)
LEMMA AroundTyped ==
  ASSUME NEW t \in Splits(Trees), NEW built \in Seq(Seq(Trees))
  PROVE  Around(t, built) \in Seq(Trees)
<1>1. PICK kept \in Seq(Trees) : kept = FlattenSeq(built)
  BY FlattenTyped
<1>2. Around(t, built) = IF kept = <<>> THEN <<>> ELSE <<Normalise(Split(t.direction, kept))>>
  BY <1>1, Zenon DEF Around
<1>3. t.direction \in Dirs
  BY ForkIs
<1>4. Normalise(Split(t.direction, kept)) \in Trees
  BY <1>3, SplitTree, NormaliseTyped, Zenon
<1>5. PICK n \in Trees : n = Normalise(Split(t.direction, kept))
  BY <1>4
<1>6. <<n>> \in Seq(Trees) /\ <<>> \in Seq(Trees)
  OBVIOUS
<1> QED BY <1>2, <1>5, <1>6, Zenon

CloseTo(F, gone) ==
    /\ \A t \in Trees : ClosePane(t, gone) = F[t]
    /\ \A p \in Nat : F[Leaf(p)] = (IF p = gone THEN <<>> ELSE <<Leaf(p)>>)
    /\ \A d \in Dirs, kids \in Seq(Trees) :
          F[Split(d, kids)] = Around(Split(d, kids), Each(F, kids))

(* ClosePane is a fold of trees into sequences of trees, ... *)
LEMMA CloseFolds ==
  ASSUME NEW gone
  PROVE  \E F \in [Trees -> Seq(Trees)] : CloseTo(F, gone)
<1>0. PICK X : X = Seq(Trees)
  OBVIOUS
<1>l. PICK L : L = [p \in Nat |-> (IF p = gone THEN <<>> ELSE <<Leaf(p)>>)]
  OBVIOUS
<1>s. PICK S : S = [w \in Splits(Trees) \X Seq(X) |-> Around(w[1], w[2])]
  OBVIOUS
<1>1. L \in [Nat -> X]
  <2> SUFFICES ASSUME NEW p \in Nat PROVE (IF p = gone THEN <<>> ELSE <<Leaf(p)>>) \in X
    BY <1>l, Zenon
  <2>1. Leaf(p) \in Trees
    BY LeafTree
  <2>2. PICK n : n = Leaf(p)
    OBVIOUS
  <2>3. n \in Trees => <<n>> \in Seq(Trees)
    OBVIOUS
  <2>4. <<>> \in Seq(Trees)
    OBVIOUS
  <2> QED BY <1>0, <2>1, <2>2, <2>3, <2>4, Zenon
<1>2. S \in [Splits(Trees) \X Seq(X) -> X]
  <2> SUFFICES ASSUME NEW w \in Splits(Trees) \X Seq(X) PROVE Around(w[1], w[2]) \in X
    BY <1>s, Zenon
  <2>1. w[1] \in Splits(Trees) /\ w[2] \in Seq(X)
    OBVIOUS
  <2> QED BY <1>0, <2>1, AroundTyped
<1>3. \A p \in Nat : L[p] = (IF p = gone THEN <<>> ELSE <<Leaf(p)>>)
  BY <1>l, Zenon
<1>4. ASSUME NEW t \in Splits(Trees), NEW w \in Seq(X) PROVE S[<<t, w>>] = Around(t, w)
  <2>1. PICK z \in Splits(Trees) \X Seq(X) : z = <<t, w>>
    OBVIOUS
  <2>2. S[z] = Around(z[1], z[2])
    BY <1>s, Zenon
  <2>3. z[1] = t /\ z[2] = w
    BY <2>1
  <2> QED BY <2>1, <2>2, <2>3, Zenon
<1>5. PICK F \in [Trees -> X] : FoldsTrees(F, L, S)
  BY <1>1, <1>2, FoldExists
<1>6. ASSUME NEW node \in Trees PROVE ClosePane(node, gone) = F[node]
  <2>1. PICK N \in Nat : N = Depth(node) /\ node \in Nodes[N]
    BY DepthIs
  <2> DEFINE E(v) == v = [t \in Nodes[N] |->
                 IF t.type = "leaf" THEN (IF t.pane = gone THEN <<>> ELSE <<Leaf(t.pane)>>)
                 ELSE Around(t, [i \in DOMAIN t.children |-> v[t.children[i]]])]
             g == [t \in Nodes[N] |-> F[t]]
  <2>2. \A t \in Nodes[N] : t.type = "leaf" => F[t] = (IF t.pane = gone THEN <<>> ELSE <<Leaf(t.pane)>>)
    <3> TAKE t \in Nodes[N]
    <3> HAVE t.type = "leaf"
    <3>a. FoldedAt(F, t, N, X, L, S)
      BY <1>5, FoldAt, Zenon
    <3>1. F[t] = L[t.pane] /\ t.pane \in Nat
      BY <3>a, NodeCases DEF FoldedAt
    <3> QED BY <1>3, <3>1, Zenon
  <2>3. \A t \in Nodes[N] : t.type # "leaf" =>
          F[t] = Around(t, [i \in DOMAIN t.children |-> g[t.children[i]]])
    <3> TAKE t \in Nodes[N]
    <3> HAVE t.type # "leaf"
    <3>1. /\ F[t] = S[<<t, Each(F, t.children)>>] /\ Each(F, t.children) \in Seq(X)
          /\ \A i \in DOMAIN t.children : t.children[i] \in Nodes[N]
      <4>1. FoldedAt(F, t, N, X, L, S)
        BY <1>5, FoldAt, Zenon
      <4> QED BY <4>1, Zenon DEF FoldedAt
    <3>2. t \in Splits(Trees)
      BY NodeCases
    <3>3. F[t] = Around(t, Each(F, t.children))
      BY <1>4, <3>1, <3>2, Zenon
    <3>4. Each(F, t.children) = [i \in DOMAIN t.children |-> g[t.children[i]]]
      BY <3>1, Zenon DEF Each
    <3> QED BY <3>3, <3>4, Zenon
  <2>4. \A t \in Nodes[N] :
          g[t] = IF t.type = "leaf" THEN (IF t.pane = gone THEN <<>> ELSE <<Leaf(t.pane)>>)
                 ELSE Around(t, [i \in DOMAIN t.children |-> g[t.children[i]]])
    <3> SUFFICES ASSUME NEW t \in Nodes[N]
                 PROVE  g[t] = IF t.type = "leaf" THEN (IF t.pane = gone THEN <<>> ELSE <<Leaf(t.pane)>>)
                               ELSE Around(t, [i \in DOMAIN t.children |-> g[t.children[i]]])
      OBVIOUS
    <3>1. g[t] = F[t]
      BY Zenon
    <3> HIDE DEF g
    <3>2. CASE t.type = "leaf"
      BY <2>2, <3>1, <3>2, Zenon
    <3>3. CASE t.type # "leaf"
      BY <2>3, <3>1, <3>3, Zenon
    <3> QED BY <3>2, <3>3, Zenon
  <2>5. E(g)
    <3> DEFINE h == [t \in Nodes[N] |->
                 IF t.type = "leaf" THEN (IF t.pane = gone THEN <<>> ELSE <<Leaf(t.pane)>>)
                 ELSE Around(t, [i \in DOMAIN t.children |-> g[t.children[i]]])]
    <3>1. \A t \in Nodes[N] : g[t] = h[t]
      BY <2>4, Zenon
    <3>2. g = h
      BY <3>1, Zenon
    <3> QED BY <3>2, Zenon
  <2>6. \E v : E(v)
    <3> HIDE DEF g, E
    <3> QED BY <2>5, Zenon
  <2>7. PICK v : E(v) /\ ClosePane(node, gone) = v[node]
    <3> DEFINE v == CHOOSE v : E(v)
    <3>1. E(v)
      <4> HIDE DEF E
      <4> QED BY <2>6, Zenon
    <3>2. ClosePane(node, gone) = v[node]
      BY <2>1, Zenon DEF ClosePane, FoldTree
    <3> HIDE DEF v, E
    <3> QED BY <3>1, <3>2, Zenon
  <2>8. \A t \in Nodes[N] : t.type = "leaf" => v[t] = L[t.pane]
    <3> TAKE t \in Nodes[N]
    <3> HAVE t.type = "leaf"
    <3>1. v[t] = (IF t.pane = gone THEN <<>> ELSE <<Leaf(t.pane)>>)
      BY <2>7, Zenon
    <3>2. t.pane \in Nat
      BY NodeCases
    <3> QED BY <1>3, <3>1, <3>2, Zenon
  <2>9. \A t \in Nodes[N] : t.type # "leaf" /\ (\A i \in DOMAIN t.children : v[t.children[i]] \in X)
                                => v[t] = S[<<t, Each(v, t.children)>>]
    <3> TAKE t \in Nodes[N]
    <3> HAVE t.type # "leaf" /\ (\A i \in DOMAIN t.children : v[t.children[i]] \in X)
    <3>1. v[t] = Around(t, [i \in DOMAIN t.children |-> v[t.children[i]]])
      BY <2>7, Zenon
    <3>2. t \in Splits(Trees) /\ t.children \in Seq(Trees)
      BY NodeCases
    <3>3. Each(v, t.children) \in Seq(X)
      BY <3>2, EachOf, Zenon
    <3>4. S[<<t, Each(v, t.children)>>] = Around(t, Each(v, t.children))
      BY <1>4, <3>2, <3>3, Zenon
    <3> QED BY <3>1, <3>4, Zenon DEF Each
  <2> HIDE DEF E
  <2>10. \A t \in Nodes[N] : v[t] = F[t]
    <3>1. FoldsWithin(v, N, X, L, S)
      BY <2>8, <2>9, Zenon DEF FoldsWithin
    <3> QED BY <1>1, <1>5, <3>1, FoldUnique, SMTT(30)
  <2> QED BY <2>1, <2>7, <2>10, Zenon
<1>7. \A p \in Nat : F[Leaf(p)] = (IF p = gone THEN <<>> ELSE <<Leaf(p)>>)
  BY <1>3, <1>5, Zenon DEF FoldsTrees
<1>8. ASSUME NEW d \in Dirs, NEW kids \in Seq(Trees)
      PROVE  F[Split(d, kids)] = Around(Split(d, kids), Each(F, kids))
  <2>1. F[Split(d, kids)] = S[<<Split(d, kids), Each(F, kids)>>]
    BY <1>5, Zenon DEF FoldsTrees
  <2>2. Split(d, kids) \in Splits(Trees)
    BY SplitIs
  <2>3. \A x \in Trees : F[x] \in X
    OBVIOUS
  <2>4. Each(F, kids) \in Seq(X)
    BY <2>3, EachSeq
  <2> QED BY <1>4, <2>1, <2>2, <2>4, Zenon
<1> QED BY <1>0, <1>6, <1>7, <1>8, Zenon DEF CloseTo

DeserialiseTo(F, fresh) ==
    /\ \A t \in Trees : Deserialise(t, fresh) = F[t]
    /\ \A p \in Nat : F[Leaf(p)] = (IF p \in DOMAIN fresh THEN <<Leaf(fresh[p])>> ELSE <<>>)
    /\ \A d \in Dirs, kids \in Seq(Trees) :
          F[Split(d, kids)] = Around(Split(d, kids), Each(F, kids))

(* ... and Deserialise is. *)
LEMMA DeserialiseFolds ==
  ASSUME NEW fresh, \A p \in DOMAIN fresh : fresh[p] \in Nat
  PROVE  \E F \in [Trees -> Seq(Trees)] : DeserialiseTo(F, fresh)
<1>0. PICK X : X = Seq(Trees)
  OBVIOUS
<1>l. PICK L : L = [p \in Nat |-> (IF p \in DOMAIN fresh THEN <<Leaf(fresh[p])>> ELSE <<>>)]
  OBVIOUS
<1>s. PICK S : S = [w \in Splits(Trees) \X Seq(X) |-> Around(w[1], w[2])]
  OBVIOUS
<1>1. L \in [Nat -> X]
  <2> SUFFICES ASSUME NEW p \in Nat PROVE (IF p \in DOMAIN fresh THEN <<Leaf(fresh[p])>> ELSE <<>>) \in X
    BY <1>l, Zenon
  <2>1. p \in DOMAIN fresh => Leaf(fresh[p]) \in Trees
    BY LeafTree
  <2>2. PICK n : n = Leaf(fresh[p])
    OBVIOUS
  <2>3. n \in Trees => <<n>> \in Seq(Trees)
    OBVIOUS
  <2>4. <<>> \in Seq(Trees)
    OBVIOUS
  <2> QED BY <1>0, <2>1, <2>2, <2>3, <2>4, Zenon
<1>2. S \in [Splits(Trees) \X Seq(X) -> X]
  <2> SUFFICES ASSUME NEW w \in Splits(Trees) \X Seq(X) PROVE Around(w[1], w[2]) \in X
    BY <1>s, Zenon
  <2>1. w[1] \in Splits(Trees) /\ w[2] \in Seq(X)
    OBVIOUS
  <2> QED BY <1>0, <2>1, AroundTyped
<1>3. \A p \in Nat : L[p] = (IF p \in DOMAIN fresh THEN <<Leaf(fresh[p])>> ELSE <<>>)
  BY <1>l, Zenon
<1>4. ASSUME NEW t \in Splits(Trees), NEW w \in Seq(X) PROVE S[<<t, w>>] = Around(t, w)
  <2>1. PICK z \in Splits(Trees) \X Seq(X) : z = <<t, w>>
    OBVIOUS
  <2>2. S[z] = Around(z[1], z[2])
    BY <1>s, Zenon
  <2>3. z[1] = t /\ z[2] = w
    BY <2>1
  <2> QED BY <2>1, <2>2, <2>3, Zenon
<1>5. PICK F \in [Trees -> X] : FoldsTrees(F, L, S)
  BY <1>1, <1>2, FoldExists
<1>6. ASSUME NEW node \in Trees PROVE Deserialise(node, fresh) = F[node]
  <2>1. PICK N \in Nat : N = Depth(node) /\ node \in Nodes[N]
    BY DepthIs
  <2> DEFINE E(v) == v = [t \in Nodes[N] |->
                 IF t.type = "leaf" THEN (IF t.pane \in DOMAIN fresh THEN <<Leaf(fresh[t.pane])>> ELSE <<>>)
                 ELSE Around(t, [i \in DOMAIN t.children |-> v[t.children[i]]])]
             g == [t \in Nodes[N] |-> F[t]]
  <2>2. \A t \in Nodes[N] : t.type = "leaf" => F[t] = (IF t.pane \in DOMAIN fresh THEN <<Leaf(fresh[t.pane])>> ELSE <<>>)
    <3> TAKE t \in Nodes[N]
    <3> HAVE t.type = "leaf"
    <3>a. FoldedAt(F, t, N, X, L, S)
      BY <1>5, FoldAt, Zenon
    <3>1. F[t] = L[t.pane] /\ t.pane \in Nat
      BY <3>a, NodeCases DEF FoldedAt
    <3> QED BY <1>3, <3>1, Zenon
  <2>3. \A t \in Nodes[N] : t.type # "leaf" =>
          F[t] = Around(t, [i \in DOMAIN t.children |-> g[t.children[i]]])
    <3> TAKE t \in Nodes[N]
    <3> HAVE t.type # "leaf"
    <3>1. /\ F[t] = S[<<t, Each(F, t.children)>>] /\ Each(F, t.children) \in Seq(X)
          /\ \A i \in DOMAIN t.children : t.children[i] \in Nodes[N]
      <4>1. FoldedAt(F, t, N, X, L, S)
        BY <1>5, FoldAt, Zenon
      <4> QED BY <4>1, Zenon DEF FoldedAt
    <3>2. t \in Splits(Trees)
      BY NodeCases
    <3>3. F[t] = Around(t, Each(F, t.children))
      BY <1>4, <3>1, <3>2, Zenon
    <3>4. Each(F, t.children) = [i \in DOMAIN t.children |-> g[t.children[i]]]
      BY <3>1, Zenon DEF Each
    <3> QED BY <3>3, <3>4, Zenon
  <2>4. \A t \in Nodes[N] :
          g[t] = IF t.type = "leaf" THEN (IF t.pane \in DOMAIN fresh THEN <<Leaf(fresh[t.pane])>> ELSE <<>>)
                 ELSE Around(t, [i \in DOMAIN t.children |-> g[t.children[i]]])
    <3> SUFFICES ASSUME NEW t \in Nodes[N]
                 PROVE  g[t] = IF t.type = "leaf" THEN (IF t.pane \in DOMAIN fresh THEN <<Leaf(fresh[t.pane])>> ELSE <<>>)
                               ELSE Around(t, [i \in DOMAIN t.children |-> g[t.children[i]]])
      OBVIOUS
    <3>1. g[t] = F[t]
      BY Zenon
    <3> HIDE DEF g
    <3>2. CASE t.type = "leaf"
      BY <2>2, <3>1, <3>2, Zenon
    <3>3. CASE t.type # "leaf"
      BY <2>3, <3>1, <3>3, Zenon
    <3> QED BY <3>2, <3>3, Zenon
  <2>5. E(g)
    <3> DEFINE h == [t \in Nodes[N] |->
                 IF t.type = "leaf" THEN (IF t.pane \in DOMAIN fresh THEN <<Leaf(fresh[t.pane])>> ELSE <<>>)
                 ELSE Around(t, [i \in DOMAIN t.children |-> g[t.children[i]]])]
    <3>1. \A t \in Nodes[N] : g[t] = h[t]
      BY <2>4, Zenon
    <3>2. g = h
      BY <3>1, Zenon
    <3> QED BY <3>2, Zenon
  <2>6. \E v : E(v)
    <3> HIDE DEF g, E
    <3> QED BY <2>5, Zenon
  <2>7. PICK v : E(v) /\ Deserialise(node, fresh) = v[node]
    <3> DEFINE v == CHOOSE v : E(v)
    <3>1. E(v)
      <4> HIDE DEF E
      <4> QED BY <2>6, Zenon
    <3>2. Deserialise(node, fresh) = v[node]
      BY <2>1, Zenon DEF Deserialise, FoldTree
    <3> HIDE DEF v, E
    <3> QED BY <3>1, <3>2, Zenon
  <2>8. \A t \in Nodes[N] : t.type = "leaf" => v[t] = L[t.pane]
    <3> TAKE t \in Nodes[N]
    <3> HAVE t.type = "leaf"
    <3>1. v[t] = (IF t.pane \in DOMAIN fresh THEN <<Leaf(fresh[t.pane])>> ELSE <<>>)
      BY <2>7, Zenon
    <3>2. t.pane \in Nat
      BY NodeCases
    <3> QED BY <1>3, <3>1, <3>2, Zenon
  <2>9. \A t \in Nodes[N] : t.type # "leaf" /\ (\A i \in DOMAIN t.children : v[t.children[i]] \in X)
                                => v[t] = S[<<t, Each(v, t.children)>>]
    <3> TAKE t \in Nodes[N]
    <3> HAVE t.type # "leaf" /\ (\A i \in DOMAIN t.children : v[t.children[i]] \in X)
    <3>1. v[t] = Around(t, [i \in DOMAIN t.children |-> v[t.children[i]]])
      BY <2>7, Zenon
    <3>2. t \in Splits(Trees) /\ t.children \in Seq(Trees)
      BY NodeCases
    <3>3. Each(v, t.children) \in Seq(X)
      BY <3>2, EachOf, Zenon
    <3>4. S[<<t, Each(v, t.children)>>] = Around(t, Each(v, t.children))
      BY <1>4, <3>2, <3>3, Zenon
    <3> QED BY <3>1, <3>4, Zenon DEF Each
  <2> HIDE DEF E
  <2>10. \A t \in Nodes[N] : v[t] = F[t]
    <3>1. FoldsWithin(v, N, X, L, S)
      BY <2>8, <2>9, Zenon DEF FoldsWithin
    <3> QED BY <1>1, <1>5, <3>1, FoldUnique, SMTT(30)
  <2> QED BY <2>1, <2>7, <2>10, Zenon
<1>7. \A p \in Nat : F[Leaf(p)] = (IF p \in DOMAIN fresh THEN <<Leaf(fresh[p])>> ELSE <<>>)
  BY <1>3, <1>5, Zenon DEF FoldsTrees
<1>8. ASSUME NEW d \in Dirs, NEW kids \in Seq(Trees)
      PROVE  F[Split(d, kids)] = Around(Split(d, kids), Each(F, kids))
  <2>1. F[Split(d, kids)] = S[<<Split(d, kids), Each(F, kids)>>]
    BY <1>5, Zenon DEF FoldsTrees
  <2>2. Split(d, kids) \in Splits(Trees)
    BY SplitIs
  <2>3. \A x \in Trees : F[x] \in X
    OBVIOUS
  <2>4. Each(F, kids) \in Seq(X)
    BY <2>3, EachSeq
  <2> QED BY <1>4, <2>1, <2>2, <2>4, Zenon
<1> QED BY <1>0, <1>6, <1>7, <1>8, Zenon DEF DeserialiseTo

Maps(f, S, X) == \A x \in S : f[x] \in X

(* One item for each, by a function that has a value for all of S.           *)
LEMMA EachMaps ==
  ASSUME NEW S, NEW X, NEW f, Maps(f, S, X), NEW s \in Seq(S)
  PROVE  /\ Each(f, s) \in Seq(X) /\ Len(Each(f, s)) = Len(s) /\ DOMAIN Each(f, s) = DOMAIN s
         /\ \A i \in DOMAIN s : Each(f, s)[i] = f[s[i]]
  BY EachSeq DEF Maps

(* No items give none, ...                                                   *)
LEMMA EachEmpty == \A f : Each(f, <<>>) = <<>>
  BY DEF Each

Appended(f, s, x) == Each(f, Append(s, x)) = Append(Each(f, s), f[x])

Joins(f, s, t) == Each(f, s \o t) = Each(f, s) \o Each(f, t)

(* ... one more gives one more, ...                                          *)
LEMMA EachAppend ==
  ASSUME NEW S, NEW X, NEW f, Maps(f, S, X), NEW s \in Seq(S), NEW x \in S
  PROVE  Appended(f, s, x)
<1>1. PICK t \in Seq(S) : t = Append(s, x)
  BY AppendProperties
<1>2. PICK n \in Nat : n = Len(s)
  OBVIOUS
<1>3. /\ DOMAIN s = 1..n /\ DOMAIN t = 1..(n + 1) /\ Len(t) = n + 1
      /\ t[n + 1] = x /\ \A i \in 1..n : t[i] = s[i]
  BY <1>1, <1>2, AppendProperties
<1>4. PICK u \in Seq(X) : u = Each(f, s)
  BY EachMaps
<1>5. Len(u) = n /\ \A i \in 1..n : u[i] = f[s[i]]
  BY <1>2, <1>3, <1>4, EachMaps
<1>6. f[x] \in X
  BY DEF Maps
<1>7. PICK v \in Seq(X) : v = Append(u, f[x])
  BY <1>6, AppendProperties
<1>8. Len(v) = n + 1 /\ v[n + 1] = f[x] /\ \A i \in 1..n : v[i] = u[i]
  BY <1>5, <1>6, <1>7, AppendProperties
<1>9. PICK w \in Seq(X) : w = Each(f, t)
  BY EachMaps
<1>10. Len(w) = n + 1 /\ \A i \in 1..(n + 1) : w[i] = f[t[i]]
  BY <1>3, <1>9, EachMaps
<1>11. \A i \in 1..(n + 1) : w[i] = v[i]
  <2> TAKE i \in 1..(n + 1)
  <2>1. CASE i = n + 1
    BY <1>3, <1>8, <1>10, <2>1
  <2>2. CASE i # n + 1
    <3>1. i \in 1..n
      BY <2>2
    <3> QED BY <1>3, <1>5, <1>8, <1>10, <3>1
  <2> QED BY <2>1, <2>2
<1>12. w = v
  BY <1>8, <1>10, <1>11
<1> QED BY <1>1, <1>4, <1>7, <1>9, <1>12, Zenon DEF Appended

(* ... and two sequences give two, joined.                                   *)
LEMMA EachConcat ==
  ASSUME NEW S, NEW X, NEW f, Maps(f, S, X), NEW s \in Seq(S)
  PROVE  \A t \in Seq(S) : Joins(f, s, t)
<1> DEFINE P == {t \in Seq(S) : Each(f, s \o t) = Each(f, s) \o Each(f, t)}
<1>0. Each(f, s) \in Seq(X)
  BY EachMaps
<1>1. <<>> \in P
  <2>1. s \o <<>> = s /\ Each(f, s) \o <<>> = Each(f, s)
    BY <1>0, ConcatEmptySeq
  <2>2. <<>> \in Seq(S)
    OBVIOUS
  <2> QED BY <2>1, <2>2, EachEmpty, Zenon
<1>2. ASSUME NEW t \in P, NEW x \in S PROVE Append(t, x) \in P
  <2>1. t \in Seq(S) /\ Append(t, x) \in Seq(S) /\ s \o t \in Seq(S)
    BY AppendProperties, ConcatProperties
  <2>2. PICK y \in Seq(S) : y = <<x>>
    <3>1. <<x>> \in Seq(S)
      OBVIOUS
    <3> QED BY <3>1, Zenon
  <2>3. PICK fy \in Seq(X) : fy = <<f[x]>>
    <3>1. f[x] \in X
      BY DEF Maps
    <3>2. <<f[x]>> \in Seq(X)
      BY <3>1
    <3> QED BY <3>2, Zenon
  <2>4. Append(t, x) = Cat(t, y) /\ Append(s \o t, x) = Cat(Cat(s, t), y)
    BY <2>1, <2>2, AppendIsConcat DEF Cat
  <2>5. Cat(Cat(s, t), y) = Cat(s, Cat(t, y))
    BY <2>1, CatAssoc
  <2>6. s \o Append(t, x) = Append(s \o t, x)
    BY <2>4, <2>5, Zenon DEF Cat
  <2>c. Appended(f, s \o t, x) /\ Appended(f, t, x)
    BY <2>1, EachAppend, Zenon
  <2>7. Each(f, Append(s \o t, x)) = Append(Each(f, s \o t), f[x])
    BY <2>c, Zenon DEF Appended
  <2>8. Each(f, Append(t, x)) = Append(Each(f, t), f[x])
    BY <2>c, Zenon DEF Appended
  <2>9. Each(f, t) \in Seq(X) /\ f[x] \in X
    BY <2>1, EachMaps DEF Maps
  <2>10. PICK a, b \in Seq(X) : a = Each(f, s) /\ b = Each(f, t)
    BY <1>0, <2>9
  <2>11. Append(b, f[x]) = Cat(b, fy) /\ Append(Cat(a, b), f[x]) = Cat(Cat(a, b), fy)
    <3>1. a \o b \in Seq(X)
      BY ConcatProperties
    <3> QED BY <2>3, <2>9, <3>1, AppendIsConcat DEF Cat
  <2>12. Cat(Cat(a, b), fy) = Cat(a, Cat(b, fy))
    BY CatAssoc
  <2>13. Each(f, s \o t) = Cat(a, b)
    BY <2>10, Zenon DEF Cat
  <2>14. Each(f, s \o Append(t, x)) = Cat(a, Cat(b, fy))
    BY <2>6, <2>7, <2>11, <2>12, <2>13, Zenon
  <2>15. Each(f, Append(t, x)) = Cat(b, fy)
    BY <2>8, <2>10, <2>11, Zenon
  <2>16. Each(f, s \o Append(t, x)) = Each(f, s) \o Each(f, Append(t, x))
    BY <2>10, <2>14, <2>15, Zenon DEF Cat
  <2> QED BY <2>1, <2>16
<1>3. P = Seq(S)
  <2>1. P \in SUBSET Seq(S)
    OBVIOUS
  <2> HIDE DEF P
  <2> QED BY <1>1, <1>2, <2>1, InductionOnSeq
<1> QED BY <1>3 DEF Joins

(* What is done to each item of flattened sequences is done to each item of  *)
(* the sequences.                                                            *)
LEMMA EachFlatten ==
  ASSUME NEW S, NEW X, NEW f, Maps(f, S, X),
         NEW g, \A s \in Seq(S) : g[s] = Each(f, s)
  PROVE  \A ss \in Seq(Seq(S)) : Each(f, FlattenSeq(ss)) = FlattenSeq(Each(g, ss))
<1> DEFINE P == {ss \in Seq(Seq(S)) : Each(f, FlattenSeq(ss)) = FlattenSeq(Each(g, ss))}
<1>0. PICK T : T = Seq(S)
  OBVIOUS
<1>00. PICK Y : Y = Seq(X)
  OBVIOUS
<1>a. \A s \in T : g[s] \in Y /\ g[s] = Each(f, s)
  <2> SUFFICES ASSUME NEW s \in Seq(S) PROVE Each(f, s) \in Seq(X)
    BY <1>0, <1>00
  <2> QED BY EachMaps
<1>b. Maps(g, T, Y)
  BY <1>a DEF Maps
<1>1. <<>> \in P
  <2>1. <<>> \in Seq(Seq(S))
    OBVIOUS
  <2> QED BY <2>1, EachEmpty, FlattenEmpty, Zenon
<1>2. ASSUME NEW ss \in P, NEW s \in Seq(S) PROVE Append(ss, s) \in P
  <2>1. ss \in Seq(Seq(S)) /\ Append(ss, s) \in Seq(Seq(S)) /\ ss \in Seq(T) /\ s \in T
    BY <1>0, AppendProperties
  <2>2. Each(g, Append(ss, s)) = Append(Each(g, ss), g[s])
    <3>1. Appended(g, ss, s)
      BY <1>b, <2>1, EachAppend, Zenon
    <3> QED BY <3>1, Zenon DEF Appended
  <2>3. Each(g, ss) \in Seq(Y)
    BY <1>b, <2>1, EachMaps
  <2>4. FlattenSeq(Append(Each(g, ss), g[s])) = FlattenSeq(Each(g, ss)) \o g[s]
    <3>1. g[s] \in Y
      BY <1>a, <2>1
    <3> QED BY <1>00, <2>3, <3>1, FlattenAppend
  <2>5. FlattenSeq(Append(ss, s)) = FlattenSeq(ss) \o s
    BY <2>1, FlattenAppend
  <2>6. FlattenSeq(ss) \in Seq(S)
    BY <2>1, FlattenTyped
  <2>7. Each(f, FlattenSeq(ss) \o s) = Each(f, FlattenSeq(ss)) \o Each(f, s)
    <3>1. Joins(f, FlattenSeq(ss), s)
      BY <2>6, EachConcat, Zenon
    <3> QED BY <3>1, Zenon DEF Joins
  <2>8. g[s] = Each(f, s)
    OBVIOUS
  <2>9. Each(f, FlattenSeq(ss)) = FlattenSeq(Each(g, ss))
    OBVIOUS
  <2>10. Each(f, FlattenSeq(Append(ss, s))) = FlattenSeq(Each(g, Append(ss, s)))
    BY <2>2, <2>4, <2>5, <2>7, <2>8, <2>9, Zenon
  <2> QED BY <2>1, <2>10
<1>3. P = Seq(Seq(S))
  <2>1. P \in SUBSET Seq(Seq(S))
    OBVIOUS
  <2> HIDE DEF P
  <2> QED BY <1>1, <1>2, <2>1, InductionOnSeq
<1> QED BY <1>3

(* Flattening twice may be done from the inside.                             *)
LEMMA FlattenFlatten ==
  ASSUME NEW S, NEW g, \A ss \in Seq(Seq(S)) : g[ss] = FlattenSeq(ss)
  PROVE  \A sss \in Seq(Seq(Seq(S))) : FlattenSeq(FlattenSeq(sss)) = FlattenSeq(Each(g, sss))
<1>0. PICK T : T = Seq(S)
  OBVIOUS
<1>00. PICK U : U = Seq(T)
  OBVIOUS
<1> DEFINE P == {sss \in Seq(U) : FlattenSeq(FlattenSeq(sss)) = FlattenSeq(Each(g, sss))}
<1>a. \A ss \in U : g[ss] \in T /\ g[ss] = FlattenSeq(ss)
  <2> SUFFICES ASSUME NEW ss \in Seq(Seq(S)) PROVE FlattenSeq(ss) \in Seq(S)
    BY <1>0, <1>00
  <2> QED BY FlattenTyped
<1>b. Maps(g, U, T)
  BY <1>a DEF Maps
<1>1. <<>> \in P
  <2>1. <<>> \in Seq(U)
    OBVIOUS
  <2> QED BY <2>1, EachEmpty, FlattenEmpty, Zenon
<1>2. ASSUME NEW sss \in P, NEW ss \in U PROVE Append(sss, ss) \in P
  <2>1. sss \in Seq(U) /\ Append(sss, ss) \in Seq(U) /\ sss \in Seq(Seq(T)) /\ ss \in Seq(T)
        /\ ss \in Seq(Seq(S))
    BY <1>0, <1>00, AppendProperties
  <2>2. Each(g, Append(sss, ss)) = Append(Each(g, sss), g[ss])
    <3>1. Appended(g, sss, ss)
      BY <1>b, <2>1, EachAppend, Zenon
    <3> QED BY <3>1, Zenon DEF Appended
  <2>3. Each(g, sss) \in Seq(T) /\ g[ss] \in T
    BY <1>a, <1>b, <2>1, EachMaps
  <2>4. FlattenSeq(Append(Each(g, sss), g[ss])) = FlattenSeq(Each(g, sss)) \o g[ss]
    BY <1>0, <2>3, FlattenAppend
  <2>5. FlattenSeq(Append(sss, ss)) = FlattenSeq(sss) \o ss
    BY <2>1, FlattenAppend
  <2>6. FlattenSeq(sss) \in Seq(T)
    BY <2>1, FlattenTyped
  <2>7. FlattenSeq(FlattenSeq(sss) \o ss) = FlattenSeq(FlattenSeq(sss)) \o FlattenSeq(ss)
    BY <1>0, <2>1, <2>6, FlattenConcat
  <2>8. g[ss] = FlattenSeq(ss)
    BY <1>a
  <2>9. FlattenSeq(FlattenSeq(sss)) = FlattenSeq(Each(g, sss))
    OBVIOUS
  <2>10. FlattenSeq(FlattenSeq(Append(sss, ss))) = FlattenSeq(Each(g, Append(sss, ss)))
    BY <2>2, <2>4, <2>5, <2>7, <2>8, <2>9, Zenon
  <2> QED BY <2>1, <2>10
<1>3. P = Seq(U)
  <2>1. P \in SUBSET Seq(U)
    OBVIOUS
  <2> HIDE DEF P
  <2> QED BY <1>1, <1>2, <2>1, InductionOnSeq
<1> QED BY <1>0, <1>00, <1>3

(* One sequence flattened is itself.                                         *)
LEMMA FlattenSingle == ASSUME NEW S, NEW s \in Seq(S) PROVE FlattenSeq(<<s>>) = s
<1>1. <<s>> = Append(<<>>, s) /\ <<>> \in Seq(Seq(S))
  OBVIOUS
<1>2. FlattenSeq(Append(<<>>, s)) = FlattenSeq(<<>>) \o s
  BY <1>1, FlattenAppend
<1>3. <<>> \o s = s
  BY ConcatEmptySeq
<1> QED BY <1>1, <1>2, <1>3, FlattenEmpty

(* Sequences that all have items, flattened, have one.                       *)
LEMMA FlattenNonempty ==
  ASSUME NEW S, NEW ss \in Seq(Seq(S)), ss # <<>>, \A i \in DOMAIN ss : ss[i] # <<>>
  PROVE  FlattenSeq(ss) # <<>>
<1>1. FlattenSeq(ss) = Head(ss) \o FlattenSeq(Tail(ss))
  BY FlattenHead
<1>2. Head(ss) \in Seq(S) /\ Tail(ss) \in Seq(Seq(S)) /\ Head(ss) # <<>>
  <2>1. 1 \in DOMAIN ss /\ Head(ss) = ss[1]
    OBVIOUS
  <2> QED BY <2>1, HeadTailProperties
<1>3. PICK h, u \in Seq(S) : h = Head(ss) /\ u = FlattenSeq(Tail(ss))
  BY <1>2, FlattenTyped
<1>4. Len(h) # 0
  BY <1>2, <1>3, EmptySeq
<1>5. Len(h \o u) = Len(h) + Len(u)
  BY ConcatProperties
<1>6. h \o u # <<>>
  BY <1>4, <1>5
<1> QED BY <1>1, <1>3, <1>6

-----------------------------------------------------------------------------
(* The panes a tree lists: sequences, and what folding and flattening them   *)
(* keep.                                                                     *)

Mapped(f, s, X) ==
    /\ Each(f, s) \in Seq(X) /\ Len(Each(f, s)) = Len(s) /\ DOMAIN Each(f, s) = DOMAIN s
    /\ \A i \in DOMAIN s : Each(f, s)[i] = f[s[i]]

(* EachMaps, under one name.                                                 *)
LEMMA EachMapped ==
  ASSUME NEW S, NEW X, NEW f, Maps(f, S, X), NEW s \in Seq(S) PROVE Mapped(f, s, X)
  BY EachSeq DEF Maps, Mapped

FlattensEach(f, g, S) ==
    \A ss \in Seq(Seq(S)) : Each(f, FlattenSeq(ss)) = FlattenSeq(Each(g, ss))

(* Mapping flattened sequences, with the mapping of each named.              *)
LEMMA FlattenEach ==
  ASSUME NEW S, NEW X, NEW f, Maps(f, S, X), NEW g, \A s \in Seq(S) : g[s] = Each(f, s)
  PROVE  FlattensEach(f, g, S)
  BY EachFlatten DEF FlattensEach

(* The sequences f gives for the items of s, one after the other.            *)
Expand(f, s) == FlattenSeq(Each(f, s))

(* An expansion is a sequence.                                               *)
LEMMA ExpandTyped ==
  ASSUME NEW S, NEW X, NEW f, Maps(f, S, Seq(X)), NEW s \in Seq(S)
  PROVE  Expand(f, s) \in Seq(X)
<1>1. PICK T : T = Seq(X)
  OBVIOUS
<1>2. Each(f, s) \in Seq(T)
  <2>1. Maps(f, S, T)
    BY <1>1
  <2> QED BY <2>1, EachMaps, Zenon
<1>3. FlattenSeq(Each(f, s)) \in Seq(X)
  BY <1>1, <1>2, FlattenTyped
<1> QED BY <1>3 DEF Expand

Expands(f, ss) == [i \in DOMAIN ss |-> Expand(f, ss[i])]

Spreads(f, ss) == Expand(f, FlattenSeq(ss)) = FlattenSeq(Expands(f, ss))

(* Flattened sequences are expanded by expanding each.                       *)
LEMMA ExpandFlatten ==
  ASSUME NEW S, NEW X, NEW f, Maps(f, S, Seq(X)), NEW ss \in Seq(Seq(S))
  PROVE  Spreads(f, ss)
<1>1. PICK T, U : T = Seq(X) /\ U = Seq(T)
  OBVIOUS
<1>2. PICK V : V = Seq(S)
  OBVIOUS
<1>a. Maps(f, S, T) /\ ss \in Seq(V)
  BY <1>1, <1>2
<1>3. PICK g : g = [s \in V |-> Each(f, s)]
  OBVIOUS
<1>4. PICK h : h = [tt \in U |-> FlattenSeq(tt)]
  OBVIOUS
<1>5. \A s \in V : g[s] = Each(f, s) /\ g[s] \in U
  <2> TAKE s \in V
  <2>1. g[s] = Each(f, s)
    BY <1>3
  <2>2. Each(f, s) \in Seq(T)
    BY <1>2, <1>a, EachMaps, Zenon
  <2> QED BY <1>1, <2>1, <2>2
<1>6. \A tt \in U : h[tt] = FlattenSeq(tt)
  BY <1>4
<1>7. Each(f, FlattenSeq(ss)) = FlattenSeq(Each(g, ss))
  <2>1. \A s \in Seq(S) : g[s] = Each(f, s)
    BY <1>2, <1>5
  <2>2. Maps(f, S, T)
    BY <1>a
  <2>3. \A rr \in Seq(Seq(S)) : Each(f, FlattenSeq(rr)) = FlattenSeq(Each(g, rr))
    <3>1. FlattensEach(f, g, S)
      BY <2>1, <2>2, FlattenEach, Zenon
    <3> QED BY <3>1 DEF FlattensEach
  <2> QED BY <2>3
<1>8. Each(g, ss) \in Seq(U) /\ DOMAIN Each(g, ss) = DOMAIN ss
      /\ \A i \in DOMAIN ss : Each(g, ss)[i] = g[ss[i]]
  <2>1. Maps(g, V, U)
    BY <1>5 DEF Maps
  <2>2. Mapped(g, ss, U)
    BY <1>a, <2>1, EachMapped, Zenon
  <2> QED BY <2>2, Zenon DEF Mapped
<1>9. FlattenSeq(FlattenSeq(Each(g, ss))) = FlattenSeq(Each(h, Each(g, ss)))
  <2>1. \A tt \in Seq(Seq(X)) : h[tt] = FlattenSeq(tt)
    BY <1>1, <1>6
  <2>2. \A sss \in Seq(Seq(Seq(X))) : FlattenSeq(FlattenSeq(sss)) = FlattenSeq(Each(h, sss))
    BY <2>1, FlattenFlatten, Zenon
  <2>3. Each(g, ss) \in Seq(Seq(Seq(X)))
    BY <1>1, <1>8
  <2> QED BY <2>2, <2>3
<1>10. Each(h, Each(g, ss)) = Expands(f, ss)
  <2>1. \A i \in DOMAIN ss : h[Each(g, ss)[i]] = Expand(f, ss[i])
    <3> TAKE i \in DOMAIN ss
    <3>1. ss[i] \in V
      BY <1>a
    <3>2. Each(g, ss)[i] = g[ss[i]] /\ g[ss[i]] = Each(f, ss[i]) /\ g[ss[i]] \in U
      BY <1>5, <1>8, <3>1
    <3>3. h[g[ss[i]]] = FlattenSeq(g[ss[i]])
      BY <1>6, <3>2, Zenon
    <3> QED BY <3>2, <3>3, Zenon DEF Expand
  <2> QED BY <1>8, <2>1, Zenon DEF Each, Expands
<1> QED BY <1>7, <1>9, <1>10, Zenon DEF Spreads, Expand

(* The items of two sequences joined, and when none is repeated.             *)
LEMMA ConcatItems ==
  ASSUME NEW S, NEW s \in Seq(S), NEW t \in Seq(S)
  PROVE  /\ ToSet(s \o t) = ToSet(s) \cup ToSet(t)
         /\ IsInjective(s \o t) <=> /\ IsInjective(s) /\ IsInjective(t)
                                    /\ ToSet(s) \cap ToSet(t) = {}
<1>1. PICK m, n \in Nat : m = Len(s) /\ n = Len(t)
  OBVIOUS
<1>2. PICK u \in Seq(S) : u = s \o t
  BY ConcatProperties
<1>3. /\ DOMAIN s = 1..m /\ DOMAIN t = 1..n /\ DOMAIN u = 1..(m + n)
      /\ \A i \in 1..m : u[i] = s[i]
      /\ \A i \in 1..n : u[m + i] = t[i] /\ m + i \in 1..(m + n)
  BY <1>1, <1>2, ConcatProperties
<1>4. \A k \in 1..(m + n) : k \in 1..m \/ \E i \in 1..n : k = m + i
  <2> TAKE k \in 1..(m + n)
  <2>1. CASE k <= m
    BY <2>1
  <2>2. CASE ~(k <= m)
    <3>1. k - m \in 1..n /\ k = m + (k - m)
      BY <2>2
    <3> QED BY <3>1
  <2> QED BY <2>1, <2>2
<1>5. ToSet(u) = ToSet(s) \cup ToSet(t)
  <2>1. \A k \in 1..(m + n) : u[k] \in ToSet(s) \cup ToSet(t)
    <3> TAKE k \in 1..(m + n)
    <3>1. CASE k \in 1..m
      BY <1>3, <3>1 DEF ToSet
    <3>2. CASE \E i \in 1..n : k = m + i
      <4>1. PICK i \in 1..n : k = m + i
        BY <3>2
      <4>2. u[k] = t[i]
        BY <1>3, <4>1
      <4> QED BY <1>3, <4>2 DEF ToSet
    <3> QED BY <1>4, <3>1, <3>2
  <2>2. \A k \in 1..m : s[k] \in ToSet(u)
    <3> TAKE k \in 1..m
    <3>1. k \in DOMAIN u /\ u[k] = s[k]
      BY <1>3
    <3> QED BY <3>1, Zenon DEF ToSet
  <2>3. \A k \in 1..n : t[k] \in ToSet(u)
    <3> TAKE k \in 1..n
    <3>1. m + k \in DOMAIN u /\ u[m + k] = t[k]
      BY <1>3
    <3> QED BY <3>1 DEF ToSet
  <2> QED BY <1>3, <2>1, <2>2, <2>3 DEF ToSet
<1>6. ASSUME IsInjective(u)
      PROVE  IsInjective(s) /\ IsInjective(t) /\ ToSet(s) \cap ToSet(t) = {}
  <2>1. IsInjective(s)
    <3> SUFFICES ASSUME NEW a \in 1..m, NEW b \in 1..m, s[a] = s[b] PROVE a = b
      BY <1>3 DEF IsInjective
    <3>1. u[a] = u[b] /\ a \in 1..(m + n) /\ b \in 1..(m + n)
      BY <1>3
    <3> QED BY <1>3, <1>6, <3>1 DEF IsInjective
  <2>2. IsInjective(t)
    <3> SUFFICES ASSUME NEW a \in 1..n, NEW b \in 1..n, t[a] = t[b] PROVE a = b
      BY <1>3 DEF IsInjective
    <3>1. u[m + a] = u[m + b] /\ m + a \in DOMAIN u /\ m + b \in DOMAIN u
      BY <1>3
    <3>2. m + a = m + b
      BY <1>6, <3>1 DEF IsInjective
    <3> QED BY <3>2
  <2>3. ASSUME NEW a \in 1..m, NEW b \in 1..n, s[a] = t[b] PROVE FALSE
    <3>1. u[a] = u[m + b] /\ a \in DOMAIN u /\ m + b \in DOMAIN u
      BY <1>3, <2>3
    <3>2. a = m + b
      BY <1>6, <3>1 DEF IsInjective
    <3> QED BY <3>2
  <2> QED BY <1>3, <2>1, <2>2, <2>3 DEF ToSet
<1>7. ASSUME IsInjective(s), IsInjective(t), ToSet(s) \cap ToSet(t) = {}
      PROVE  IsInjective(u)
  <2> SUFFICES ASSUME NEW a \in 1..(m + n), NEW b \in 1..(m + n), u[a] = u[b] PROVE a = b
    BY <1>3 DEF IsInjective
  <2>1. CASE a \in 1..m /\ b \in 1..m
    BY <1>3, <1>7, <2>1 DEF IsInjective
  <2>2. CASE a \in 1..m /\ \E j \in 1..n : b = m + j
    <3>1. PICK j \in 1..n : b = m + j
      BY <2>2
    <3>2. s[a] = t[j]
      BY <1>3, <2>2, <3>1
    <3> QED BY <1>3, <1>7, <2>2, <3>2 DEF ToSet
  <2>3. CASE b \in 1..m /\ \E i \in 1..n : a = m + i
    <3>1. PICK i \in 1..n : a = m + i
      BY <2>3
    <3>2. s[b] = t[i]
      BY <1>3, <2>3, <3>1
    <3> QED BY <1>3, <1>7, <2>3, <3>2 DEF ToSet
  <2>4. CASE (\E i \in 1..n : a = m + i) /\ \E j \in 1..n : b = m + j
    <3>1. PICK i, j \in 1..n : a = m + i /\ b = m + j
      BY <2>4
    <3>2. t[i] = t[j]
      BY <1>3, <3>1
    <3>3. i = j
      BY <1>3, <1>7, <3>2 DEF IsInjective
    <3> QED BY <3>1, <3>3
  <2> QED BY <1>4, <2>1, <2>2, <2>3, <2>4
<1> QED BY <1>2, <1>5, <1>6, <1>7

(* Each sequence has no item twice, and no two an item in common.            *)
Apart(ss) ==
    /\ \A i \in DOMAIN ss : IsInjective(ss[i])
    /\ \A i, j \in DOMAIN ss : i # j => ToSet(ss[i]) \cap ToSet(ss[j]) = {}

Items(ss) == UNION {ToSet(ss[i]) : i \in DOMAIN ss}

(* The items of flattened sequences, and when none is repeated.              *)
LEMMA FlattenItems ==
  ASSUME NEW S
  PROVE  \A ss \in Seq(Seq(S)) : /\ ToSet(FlattenSeq(ss)) = Items(ss)
                                 /\ IsInjective(FlattenSeq(ss)) <=> Apart(ss)
<1>0. PICK T : T = Seq(S)
  OBVIOUS
<1> DEFINE P == {ss \in Seq(T) : /\ ToSet(FlattenSeq(ss)) = Items(ss)
                                 /\ IsInjective(FlattenSeq(ss)) <=> Apart(ss)}
<1>1. <<>> \in P
  <2>1. <<>> \in Seq(T)
    OBVIOUS
  <2>2. FlattenSeq(<<>>) = <<>> /\ DOMAIN <<>> = {}
    BY FlattenEmpty
  <2>3. ToSet(<<>>) = {} /\ IsInjective(<<>>)
    BY DEF ToSet, IsInjective
  <2>4. Items(<<>>) = {} /\ Apart(<<>>)
    BY DEF Items, Apart
  <2> QED BY <2>1, <2>2, <2>3, <2>4
<1>2. ASSUME NEW ss \in P, NEW s \in T PROVE Append(ss, s) \in P
  <2>1. ss \in Seq(T) /\ Append(ss, s) \in Seq(T)
    BY AppendProperties
  <2>2. PICK n \in Nat : n = Len(ss)
    BY <2>1
  <2>3. PICK tt \in Seq(T) : tt = Append(ss, s)
    BY <2>1
  <2>4. /\ DOMAIN ss = 1..n /\ DOMAIN tt = 1..(n + 1) /\ tt[n + 1] = s
        /\ \A i \in 1..n : tt[i] = ss[i]
    BY <2>1, <2>2, <2>3, AppendProperties
  <2>5. FlattenSeq(tt) = FlattenSeq(ss) \o s /\ FlattenSeq(ss) \in Seq(S) /\ s \in Seq(S)
    BY <1>0, <2>1, <2>3, FlattenAppend, FlattenTyped
  <2>6. PICK u \in Seq(S) : u = FlattenSeq(ss)
    BY <2>5
  <2>7. /\ ToSet(u \o s) = ToSet(u) \cup ToSet(s)
        /\ IsInjective(u \o s) <=> /\ IsInjective(u) /\ IsInjective(s)
                                   /\ ToSet(u) \cap ToSet(s) = {}
    BY <2>5, ConcatItems
  <2>8. ToSet(u) = Items(ss) /\ (IsInjective(u) <=> Apart(ss))
    BY <2>6
  <2>9. n + 1 \in 1..(n + 1) /\ \A i \in 1..(n + 1) : i \in 1..n \/ i = n + 1
    OBVIOUS
  <2>10. \A i \in 1..n : i \in 1..(n + 1) /\ i # n + 1
    OBVIOUS
  <2>11. Items(tt) = Items(ss) \cup ToSet(s)
    BY <2>4, <2>9, <2>10, Zenon DEF Items
  <2>12. Apart(tt) <=> /\ Apart(ss) /\ IsInjective(s) /\ Items(ss) \cap ToSet(s) = {}
    <3>1. ASSUME Apart(tt) PROVE Apart(ss) /\ IsInjective(s) /\ Items(ss) \cap ToSet(s) = {}
      <4>1. \A i \in 1..n : IsInjective(ss[i]) /\ ToSet(ss[i]) \cap ToSet(s) = {}
        BY <2>4, <2>9, <2>10, <3>1, Zenon DEF Apart
      <4>2. \A i, j \in 1..n : i # j => ToSet(ss[i]) \cap ToSet(ss[j]) = {}
        BY <2>4, <2>10, <3>1, Zenon DEF Apart
      <4>3. IsInjective(s)
        BY <2>4, <2>9, <3>1, Zenon DEF Apart
      <4>4. Items(ss) \cap ToSet(s) = {}
        BY <2>4, <4>1 DEF Items
      <4> QED BY <2>4, <4>1, <4>2, <4>3, <4>4, Zenon DEF Apart
    <3>2. ASSUME Apart(ss), IsInjective(s), Items(ss) \cap ToSet(s) = {} PROVE Apart(tt)
      <4>1. \A i \in 1..n : ToSet(ss[i]) \cap ToSet(s) = {} /\ ToSet(s) \cap ToSet(ss[i]) = {}
        BY <2>4, <3>2 DEF Items
      <4>2. \A i \in 1..(n + 1) : IsInjective(tt[i])
        BY <2>4, <2>9, <3>2, Zenon DEF Apart
      <4>3. \A i, j \in 1..(n + 1) : i # j => ToSet(tt[i]) \cap ToSet(tt[j]) = {}
        <5> SUFFICES ASSUME NEW i \in 1..(n + 1), NEW j \in 1..(n + 1), i # j
                     PROVE  ToSet(tt[i]) \cap ToSet(tt[j]) = {}
          BY Zenon
        <5>1. CASE i = n + 1
          <6>1. j \in 1..n
            BY <5>1
          <6> QED BY <2>4, <4>1, <5>1, <6>1, Zenon
        <5>2. CASE j = n + 1
          <6>1. i \in 1..n
            BY <5>2
          <6> QED BY <2>4, <4>1, <5>2, <6>1, Zenon
        <5>3. CASE i # n + 1 /\ j # n + 1
          <6>1. i \in 1..n /\ j \in 1..n
            BY <5>3
          <6> QED BY <2>4, <3>2, <6>1, Zenon DEF Apart
        <5> QED BY <5>1, <5>2, <5>3
      <4> QED BY <2>4, <4>2, <4>3, Zenon DEF Apart
    <3> QED BY <3>1, <3>2
  <2>13. ToSet(FlattenSeq(tt)) = Items(tt) /\ (IsInjective(FlattenSeq(tt)) <=> Apart(tt))
    BY <2>5, <2>6, <2>7, <2>8, <2>11, <2>12
  <2> QED BY <2>3, <2>13
<1>3. P = Seq(T)
  <2>1. P \in SUBSET Seq(T)
    OBVIOUS
  <2> HIDE DEF P
  <2> QED BY <1>1, <1>2, <2>1, InductionOnSeq
<1> QED BY <1>0, <1>3

(* What an expansion needs to repeat no item: no item's sequence repeats one, *)
(* and no two items' sequences share one.                                     *)
Spread(f, A) ==
    /\ \A x \in A : IsInjective(f[x])
    /\ \A x, y \in A : x # y => ToSet(f[x]) \cap ToSet(f[y]) = {}

ExpandsTo(f, s) ==
    /\ ToSet(Expand(f, s)) = UNION {ToSet(f[x]) : x \in ToSet(s)}
    /\ IsInjective(s) /\ Spread(f, ToSet(s)) => IsInjective(Expand(f, s))

(* A sequence without repetition stays one when each item becomes a sequence *)
(* without repetition and no two items overlap.                              *)
LEMMA ExpandItems ==
  ASSUME NEW S, NEW X, NEW f, Maps(f, S, Seq(X)), NEW s \in Seq(S)
  PROVE  ExpandsTo(f, s)
<1>1. PICK T : T = Seq(X)
  OBVIOUS
<1>2. PICK e : e = Each(f, s)
  OBVIOUS
<1>3. e \in Seq(T) /\ DOMAIN e = DOMAIN s /\ \A i \in DOMAIN s : e[i] = f[s[i]]
  <2>1. Maps(f, S, T)
    BY <1>1
  <2>2. Mapped(f, s, T)
    BY <2>1, EachMapped, Zenon
  <2> QED BY <1>2, <2>2, Zenon DEF Mapped
<1>4. /\ ToSet(FlattenSeq(e)) = Items(e)
      /\ IsInjective(FlattenSeq(e)) <=> Apart(e)
  BY <1>1, <1>3, FlattenItems
<1>5. Items(e) = UNION {ToSet(f[x]) : x \in ToSet(s)}
  <2>1. \A x : x \in ToSet(s) <=> \E i \in DOMAIN s : x = s[i]
    BY Zenon DEF ToSet
  <2>2. \A z : z \in Items(e) <=> \E i \in DOMAIN s : z \in ToSet(f[s[i]])
    BY <1>3, Zenon DEF Items
  <2>3. \A z : z \in UNION {ToSet(f[x]) : x \in ToSet(s)} <=> \E x \in ToSet(s) : z \in ToSet(f[x])
    BY Zenon
  <2> QED BY <2>1, <2>2, <2>3, Zenon
<1>6. ASSUME IsInjective(s), \A x \in ToSet(s) : IsInjective(f[x]),
             \A x, y \in ToSet(s) : x # y => ToSet(f[x]) \cap ToSet(f[y]) = {}
      PROVE  Apart(e)
  <2>1. \A i \in DOMAIN s : s[i] \in ToSet(s)
    BY Zenon DEF ToSet
  <2>2. \A i, j \in DOMAIN s : i # j => s[i] # s[j]
    BY <1>6, Zenon DEF IsInjective
  <2>3. \A i \in DOMAIN e : IsInjective(e[i])
    BY <1>3, <1>6, <2>1, Zenon
  <2>4. ASSUME NEW i \in DOMAIN e, NEW j \in DOMAIN e, i # j
        PROVE  ToSet(e[i]) \cap ToSet(e[j]) = {}
    <3>1. i \in DOMAIN s /\ j \in DOMAIN s /\ e[i] = f[s[i]] /\ e[j] = f[s[j]]
      BY <1>3, Zenon
    <3>2. s[i] # s[j] /\ s[i] \in ToSet(s) /\ s[j] \in ToSet(s)
      BY <2>1, <2>2, <2>4, <3>1, Zenon
    <3>3. ToSet(f[s[i]]) \cap ToSet(f[s[j]]) = {}
      BY <1>6, <3>2, Zenon
    <3> QED BY <3>1, <3>3, Zenon
  <2> QED BY <2>3, <2>4, Zenon DEF Apart
<1> QED BY <1>2, <1>4, <1>5, <1>6, Zenon DEF Expand, ExpandsTo, Spread

TreeLists == [t \in Trees |-> ListPanes(t)]

(* The panes of several trees, one tree after the other.                     *)
AllOf(kids) == Expand(TreeLists, kids)

(* The panes of a tree are a sequence of panes.                              *)
LEMMA ListTyped == \A t \in Trees : ListPanes(t) \in Seq(Nat) /\ TreeLists[t] = ListPanes(t)
<1>1. PICK F \in [Trees -> Seq(Nat)] : \A t \in Trees : ListPanes(t) = F[t]
  BY ListFolds
<1>2. ASSUME NEW t \in Trees PROVE ListPanes(t) \in Seq(Nat) /\ TreeLists[t] = ListPanes(t)
  <2>1. TreeLists[t] = ListPanes(t)
    BY Zenon DEF TreeLists
  <2>2. F[t] \in Seq(Nat)
    OBVIOUS
  <2> QED BY <1>1, <2>1, <2>2, Zenon
<1> QED BY <1>2

(* Every tree has one.                                                       *)
LEMMA TreeListsMap == Maps(TreeLists, Trees, Seq(Nat))
  BY ListTyped, Zenon DEF Maps

(* A leaf lists its pane, ...                                                *)
LEMMA ListLeaf == \A p \in Nat : ListPanes(Leaf(p)) = <<p>>
  BY ListFolds, LeafTree

(* What the panes of several trees are.                                      *)
LEMMA AllOfIs ==
  \A kids \in Seq(Trees) : /\ AllOf(kids) \in Seq(Nat)
                           /\ AllOf(kids) = FlattenSeq(Each(TreeLists, kids))
                           /\ Mapped(TreeLists, kids, Seq(Nat))
<1> SUFFICES ASSUME NEW kids \in Seq(Trees)
             PROVE  /\ AllOf(kids) \in Seq(Nat)
                    /\ AllOf(kids) = FlattenSeq(Each(TreeLists, kids))
                    /\ Mapped(TreeLists, kids, Seq(Nat))
  OBVIOUS
<1>1. Mapped(TreeLists, kids, Seq(Nat))
  BY TreeListsMap, EachMapped, Zenon
<1>2. AllOf(kids) \in Seq(Nat)
  BY TreeListsMap, ExpandTyped, Zenon DEF AllOf
<1> QED BY <1>1, <1>2, Zenon DEF AllOf, Expand

(* ... and a split the panes of its children in turn.                        *)
LEMMA ListSplit ==
  \A d \in Dirs, kids \in Seq(Trees) : ListPanes(Split(d, kids)) = AllOf(kids)
<1>1. PICK F \in [Trees -> Seq(Nat)] :
         /\ \A t \in Trees : ListPanes(t) = F[t]
         /\ \A d \in Dirs, kids \in Seq(Trees) : F[Split(d, kids)] = FlattenSeq(Each(F, kids))
  BY ListFolds, Zenon
<1>2. F = TreeLists
  <2>1. \A t \in Trees : F[t] = TreeLists[t]
    BY <1>1, ListTyped, Zenon
  <2> QED BY <2>1 DEF TreeLists
<1> QED BY <1>1, <1>2, SplitTree, AllOfIs, Zenon

(* No trees have no panes.                                                   *)
LEMMA AllOfEmpty == AllOf(<<>>) = <<>>
  BY EachEmpty, FlattenEmpty, Zenon DEF AllOf, Expand

(* One tree has its own.                                                     *)
LEMMA AllOfSingle == \A t \in Trees : AllOf(<<t>>) = ListPanes(t)
<1> SUFFICES ASSUME NEW t \in Trees PROVE AllOf(<<t>>) = ListPanes(t)
  OBVIOUS
<1>1. Each(TreeLists, <<t>>) = <<TreeLists[t]>>
  BY DEF Each
<1>2. TreeLists[t] = ListPanes(t) /\ ListPanes(t) \in Seq(Nat)
  BY ListTyped
<1>3. FlattenSeq(<<ListPanes(t)>>) = ListPanes(t)
  BY <1>2, FlattenSingle
<1> QED BY <1>1, <1>2, <1>3, Zenon DEF AllOf, Expand

AllOfEach(kss) == [i \in DOMAIN kss |-> AllOf(kss[i])]

(* Trees grouped in sequences list theirs group by group.                    *)
LEMMA AllOfFlatten ==
  \A kss \in Seq(Seq(Trees)) : AllOf(FlattenSeq(kss)) = FlattenSeq(AllOfEach(kss))
<1> TAKE kss \in Seq(Seq(Trees))
<1>1. Spreads(TreeLists, kss)
  BY TreeListsMap, ExpandFlatten, Zenon
<1>2. Expands(TreeLists, kss) = AllOfEach(kss)
  BY Zenon DEF Expands, AllOfEach, AllOf
<1> QED BY <1>1, <1>2, Zenon DEF Spreads, AllOf

(* Merging changes no pane and no order.                                     *)
LEMMA MergedList ==
  ASSUME NEW t \in Splits(Trees), NEW kids \in Seq(Trees)
  PROVE  ListPanes(Merged(t, kids)) = AllOf(kids)
<1>1. PICK d \in Dirs : d = t.direction
  BY ForkIs
<1>2. PICK up \in Seq(Seq(Trees)) : up = Lifting(d, kids)
  BY LiftingTyped
<1>3. PICK all \in Seq(Trees) : all = FlattenSeq(up)
  BY FlattenTyped
<1>4. Merged(t, kids) = IF Len(all) = 1 THEN all[1] ELSE Split(d, all)
  BY <1>1, <1>2, <1>3, MergedIs, Zenon
<1>5. DOMAIN up = DOMAIN kids
  BY <1>2, Zenon DEF Lifting
<1>6. \A i \in DOMAIN kids : AllOf(up[i]) = TreeLists[kids[i]]
  <2> TAKE i \in DOMAIN kids
  <2>1. PICK k \in Trees : k = kids[i]
    OBVIOUS
  <2>2. up[i] = IF k.type = "split" /\ k.direction = d THEN k.children ELSE <<k>>
    BY <1>2, <2>1, Zenon DEF Lifting
  <2>3. TreeLists[k] = ListPanes(k)
    BY ListTyped
  <2>4. CASE k.type = "split" /\ k.direction = d
    <3>1. PICK e \in Dirs, ks \in Seq(Trees) : k = Split(e, ks)
      <4>1. \A p \in Nat : Leaf(p).type # "split"
        BY LeafIs
      <4> QED BY <2>4, <4>1, TreeCases
    <3>2. k.children = ks
      BY <3>1, SplitIs
    <3>3. up[i] = ks
      BY <2>2, <2>4, <3>2
    <3> QED BY <2>1, <2>3, <3>1, <3>3, ListSplit, Zenon
  <2>5. CASE ~(k.type = "split" /\ k.direction = d)
    <3>1. up[i] = <<k>>
      BY <2>2, <2>5
    <3> QED BY <2>1, <2>3, <3>1, AllOfSingle, Zenon
  <2> QED BY <2>4, <2>5
<1>7. AllOfEach(up) = Each(TreeLists, kids)
  BY <1>5, <1>6, Zenon DEF AllOfEach, Each
<1>8. AllOf(all) = AllOf(kids)
  BY <1>3, <1>7, AllOfFlatten, AllOfIs, Zenon
<1>9. CASE Len(all) = 1
  <2>1. all = <<all[1]>> /\ all[1] \in Trees
    <3>1. 1 \in 1..Len(all)
      BY <1>9
    <3>2. all[1] \in Trees
      BY <3>1, ElementOfSeq
    <3> QED BY <1>9, <3>2
  <2>2. AllOf(<<all[1]>>) = ListPanes(all[1])
    BY <2>1, AllOfSingle
  <2>3. Merged(t, kids) = all[1]
    BY <1>4, <1>9
  <2> QED BY <1>8, <2>1, <2>2, <2>3, Zenon
<1>10. CASE Len(all) # 1
  <2>1. Merged(t, kids) = Split(d, all)
    BY <1>4, <1>10
  <2>2. ListPanes(Split(d, all)) = AllOf(all)
    BY ListSplit
  <2> QED BY <1>8, <2>1, <2>2, Zenon
<1> QED BY <1>9, <1>10

NormaliseTo(F) ==
    /\ \A t \in Trees : Normalise(t) = F[t]
    /\ \A p \in Nat : F[Leaf(p)] = Leaf(p)
    /\ \A d \in Dirs, kids \in Seq(Trees) :
          F[Split(d, kids)] = Merged(Split(d, kids), Each(F, kids))

(* Normalising changes no pane and no order.                                 *)
LEMMA NormaliseList == \A t \in Trees : ListPanes(Normalise(t)) = ListPanes(t)
<1>1. PICK F \in [Trees -> Trees] : NormaliseTo(F)
  BY NormaliseFolds, Zenon DEF NormaliseTo
<1> DEFINE P == {t \in Trees : ListPanes(F[t]) = ListPanes(t)}
<1>2. ASSUME NEW p \in Nat PROVE Leaf(p) \in P
  <2>1. F[Leaf(p)] = Leaf(p)
    BY <1>1, Zenon DEF NormaliseTo
  <2> QED BY <2>1, LeafTree
<1>3. ASSUME NEW d \in Dirs, NEW kids \in Seq(P) PROVE Split(d, kids) \in P
  <2>1. kids \in Seq(Trees)
    BY SeqGrows
  <2>2. F[Split(d, kids)] = Merged(Split(d, kids), Each(F, kids))
    BY <1>1, <2>1, Zenon DEF NormaliseTo
  <2>3. Mapped(F, kids, Trees)
    <3>1. Maps(F, Trees, Trees)
      BY DEF Maps
    <3> QED BY <2>1, <3>1, EachMapped, Zenon
  <2>4. PICK ns \in Seq(Trees) : ns = Each(F, kids)
    BY <2>3, Zenon DEF Mapped
  <2>5. DOMAIN ns = DOMAIN kids /\ \A i \in DOMAIN kids : ns[i] = F[kids[i]]
    BY <2>3, <2>4, Zenon DEF Mapped
  <2>6. \A i \in DOMAIN kids : TreeLists[ns[i]] = TreeLists[kids[i]]
    <3> TAKE i \in DOMAIN kids
    <3>1. PICK k \in P : k = kids[i]
      OBVIOUS
    <3>2. ListPanes(F[k]) = ListPanes(k) /\ F[k] \in Trees /\ k \in Trees
      OBVIOUS
    <3> HIDE DEF P
    <3> QED BY <2>5, <3>1, <3>2, ListTyped, Zenon
  <2>7. Each(TreeLists, ns) = Each(TreeLists, kids)
    BY <2>5, <2>6, Zenon DEF Each
  <2>8. Split(d, kids) \in Splits(Trees)
    BY <2>1, SplitIs
  <2>9. ListPanes(Merged(Split(d, kids), ns)) = AllOf(ns)
    BY <2>8, MergedList
  <2>10. AllOf(ns) = AllOf(kids)
    BY <2>7, Zenon DEF AllOf, Expand
  <2>11. ListPanes(F[Split(d, kids)]) = ListPanes(Split(d, kids))
    BY <2>1, <2>2, <2>4, <2>9, <2>10, ListSplit, Zenon
  <2> QED BY <2>1, <2>11, SplitTree
<1>4. P = Trees
  <2>1. P \in SUBSET Trees
    OBVIOUS
  <2> HIDE DEF P
  <2> QED BY <1>2, <1>3, <2>1, TreeInduction
<1>5. \A t \in Trees : ListPanes(F[t]) = ListPanes(t)
  BY <1>4
<1> QED BY <1>1, <1>5, Zenon DEF NormaliseTo

-----------------------------------------------------------------------------
(* Normalising, replacing and removing keep a tree normal, and do to its     *)
(* panes what they say.                                                      *)

(* Three ways to say that a sequence has an item.                            *)
LEMMA Filled ==
  ASSUME NEW S, NEW s \in Seq(S)
  PROVE  /\ s # <<>> <=> 1 \in DOMAIN s
         /\ s # <<>> <=> Len(s) >= 1
         /\ s # <<>> => s[1] \in S
<1>1. PICK n \in Nat : n = Len(s) /\ DOMAIN s = 1..n
  OBVIOUS
<1>2. n = 0 <=> s = <<>>
  BY <1>1, EmptySeq
<1>3. s # <<>> <=> 1 \in DOMAIN s
  BY <1>1, <1>2
<1>4. s # <<>> <=> Len(s) >= 1
  BY <1>1, <1>2
<1>5. s # <<>> => s[1] \in S
  BY <1>1, <1>3, ElementOfSeq
<1> QED BY <1>3, <1>4, <1>5

NormalTrees == {t \in Trees : Normal(t)}

NormalKids(d, kids) ==
    /\ Len(kids) >= 2
    /\ \A i \in DOMAIN kids : /\ Normal(kids[i])
                              /\ kids[i].type = "split" => kids[i].direction # d

(* A leaf is normal.                                                         *)
LEMMA NormalLeaf == \A p \in Nat : Normal(Leaf(p)) /\ Leaf(p) \in NormalTrees
<1>1. PICK F \in [Trees -> BOOLEAN] :
         /\ \A t \in Trees : Normal(t) = F[t]
         /\ \A p \in Nat : F[Leaf(p)] = TRUE
  BY NormalFolds, Zenon
<1>2. \A p \in Nat : Normal(Leaf(p))
  BY <1>1, LeafTree, Zenon
<1> QED BY <1>2, LeafTree, Zenon DEF NormalTrees

(* When a split is normal: at least two normal children, none of which is    *)
(* split the same way.                                                       *)
LEMMA NormalSplitIs ==
  \A d \in Dirs, kids \in Seq(Trees) : Normal(Split(d, kids)) <=> NormalKids(d, kids)
<1>1. PICK F \in [Trees -> BOOLEAN] :
         /\ \A t \in Trees : Normal(t) = F[t]
         /\ \A p \in Nat : F[Leaf(p)] = TRUE
         /\ \A d \in Dirs, kids \in Seq(Trees) :
               F[Split(d, kids)] = NormalSplit(Split(d, kids), Each(F, kids))
  BY NormalFolds, Zenon
<1>2. ASSUME NEW d \in Dirs, NEW kids \in Seq(Trees)
      PROVE  Normal(Split(d, kids)) <=> NormalKids(d, kids)
  <2>1. Normal(Split(d, kids)) <=> NormalSplit(Split(d, kids), Each(F, kids))
    BY <1>1, SplitTree, Zenon
  <2>2. Maps(F, Trees, BOOLEAN)
    BY DEF Maps
  <2>3. Mapped(F, kids, BOOLEAN)
    BY <2>2, EachMapped, Zenon
  <2>4. PICK v \in Seq(BOOLEAN) : v = Each(F, kids) /\ \A i \in DOMAIN kids : v[i] = F[kids[i]]
    BY <2>3, Zenon DEF Mapped
  <2>5. Split(d, kids).direction = d /\ Split(d, kids).children = kids
    BY SplitIs
  <2>6. \A i \in DOMAIN kids : kids[i] \in Trees
    OBVIOUS
  <2>7. \A i \in DOMAIN kids : v[i] <=> Normal(kids[i])
    BY <1>1, <2>4, <2>6, Zenon
  <2>8. NormalSplit(Split(d, kids), v)
           <=> /\ Len(kids) >= 2
               /\ \A i \in DOMAIN kids :
                     v[i] /\ (kids[i].type = "split" => kids[i].direction # d)
    BY <2>5, Zenon DEF NormalSplit
  <2>9. NormalSplit(Split(d, kids), v) <=> NormalKids(d, kids)
    BY <2>7, <2>8, Zenon DEF NormalKids
  <2> QED BY <2>1, <2>4, <2>9, Zenon
<1> QED BY <1>2

(* A normal tree shows a pane.                                               *)
LEMMA NormalShows == \A t \in NormalTrees : ListPanes(t) # <<>>
<1> DEFINE P == {t \in Trees : Normal(t) => ListPanes(t) # <<>>}
<1>1. ASSUME NEW p \in Nat PROVE Leaf(p) \in P
  <2>1. <<p>> # <<>>
    OBVIOUS
  <2> QED BY <2>1, ListLeaf, LeafTree, Zenon
<1>2. ASSUME NEW d \in Dirs, NEW kids \in Seq(P) PROVE Split(d, kids) \in P
  <2>1. kids \in Seq(Trees)
    BY SeqGrows
  <2>2. SUFFICES ASSUME NormalKids(d, kids) PROVE ListPanes(Split(d, kids)) # <<>>
    BY <2>1, NormalSplitIs, SplitTree, Zenon
  <2>3. PICK lists \in Seq(Seq(Nat)) :
           lists = Each(TreeLists, kids) /\ DOMAIN lists = DOMAIN kids
           /\ \A i \in DOMAIN kids : lists[i] = TreeLists[kids[i]]
    BY <2>1, AllOfIs, Zenon DEF Mapped
  <2>4. \A i \in DOMAIN kids : kids[i] \in P
    OBVIOUS
  <2>5. \A i \in DOMAIN kids : ListPanes(kids[i]) # <<>> /\ kids[i] \in Trees
    BY <2>2, <2>4, Zenon DEF NormalKids
  <2>6. \A i \in DOMAIN lists : lists[i] # <<>>
    <3> TAKE i \in DOMAIN lists
    <3>1. PICK k \in Trees : k = kids[i] /\ ListPanes(k) # <<>>
      BY <2>3, <2>5
    <3>2. TreeLists[k] = ListPanes(k)
      BY <3>1, ListTyped
    <3> QED BY <2>3, <3>1, <3>2
  <2>7. lists # <<>>
    <3>1. 1 \in DOMAIN kids
      BY <2>1, <2>2 DEF NormalKids
    <3>2. DOMAIN <<>> = {}
      OBVIOUS
    <3> QED BY <2>3, <3>1, <3>2, Zenon
  <2>8. PICK T : T = Seq(Nat)
    OBVIOUS
  <2>9. FlattenSeq(lists) # <<>>
    BY <2>6, <2>7, FlattenNonempty, Zenon
  <2>10. ListPanes(Split(d, kids)) = FlattenSeq(lists)
    BY <2>1, <2>3, ListSplit, AllOfIs, Zenon
  <2> QED BY <2>9, <2>10
<1>3. P = Trees
  <2>1. P \in SUBSET Trees
    OBVIOUS
  <2> HIDE DEF P
  <2> QED BY <1>1, <1>2, <2>1, TreeInduction
<1> QED BY <1>3, Zenon DEF NormalTrees

(* What a child of a merged split gives it: itself, or its own children.     *)
Fitting(d) == {k \in NormalTrees : k.type = "split" => k.direction # d}

(* What is known of a normal split, its children under a name of their own.  *)
LEMMA NormalForks ==
  ASSUME NEW k \in NormalTrees, k.type = "split"
  PROVE  k.children \in Seq(Fitting(k.direction)) /\ Len(k.children) >= 2 /\ k.direction \in Dirs
<1>1. PICK e \in Dirs, ks \in Seq(Trees) : k = Split(e, ks)
  <2>1. \A p \in Nat : Leaf(p).type # "split"
    BY LeafIs
  <2>2. k \in Trees
    BY Zenon DEF NormalTrees
  <2> QED BY <2>1, <2>2, TreeCases, Zenon
<1>2. k.direction = e /\ k.children = ks
  BY <1>1, SplitIs
<1>3. NormalKids(e, ks)
  BY <1>1, NormalSplitIs, Zenon DEF NormalTrees
<1>4. \A i \in DOMAIN ks : ks[i] \in Trees
  OBVIOUS
<1>5. \A i \in DOMAIN ks : ks[i] \in Fitting(e)
  BY <1>3, <1>4, Zenon DEF NormalKids, Fitting, NormalTrees
<1>6. PICK S : S = Fitting(e)
  OBVIOUS
<1>7. ks \in Seq(S)
  BY <1>5, <1>6
<1>8. Len(ks) >= 2
  BY <1>3, Zenon DEF NormalKids
<1> QED BY <1>2, <1>6, <1>7, <1>8

(* What may be put in a split is a normal tree.                              *)
LEMMA FittingIs == \A d : Fitting(d) \subseteq NormalTrees /\ NormalTrees \subseteq Trees
  BY Zenon DEF Fitting, NormalTrees

(* Children that are normal make a normal node.                              *)
LEMMA MergedNormal ==
  ASSUME NEW t \in Splits(Trees), NEW kids \in Seq(NormalTrees), kids # <<>>
  PROVE  Merged(t, kids) \in NormalTrees
<1>1. PICK d \in Dirs : d = t.direction
  BY ForkIs
<1>2. kids \in Seq(Trees)
  BY FittingIs, SeqGrows
<1>3. PICK up \in Seq(Seq(Trees)) : up = Lifting(d, kids)
  BY <1>2, LiftingTyped
<1>4. PICK all \in Seq(Trees) : all = FlattenSeq(up)
  BY FlattenTyped
<1>5. Merged(t, kids) = IF Len(all) = 1 THEN all[1] ELSE Split(d, all)
  BY <1>1, <1>3, <1>4, MergedIs, Zenon
<1>6. PICK S : S = Fitting(d)
  OBVIOUS
<1>7. DOMAIN up = DOMAIN kids
  BY <1>3, Zenon DEF Lifting
<1>8. \A i \in DOMAIN kids : up[i] \in Seq(S) /\ up[i] # <<>>
  <2> TAKE i \in DOMAIN kids
  <2>1. PICK k \in NormalTrees : k = kids[i]
    OBVIOUS
  <2>2. up[i] = IF k.type = "split" /\ k.direction = d THEN k.children ELSE <<k>>
    BY <1>3, <2>1, Zenon DEF Lifting
  <2>3. CASE k.type = "split" /\ k.direction = d
    <3>1. k.children \in Seq(S) /\ Len(k.children) >= 2
      BY <1>6, <2>3, NormalForks, Zenon
    <3>2. k.children # <<>>
      BY <3>1
    <3> QED BY <2>2, <2>3, <3>1, <3>2
  <2>4. CASE ~(k.type = "split" /\ k.direction = d)
    <3>1. k \in S
      BY <1>6, <2>4, Zenon DEF Fitting
    <3> QED BY <2>2, <2>4, <3>1
  <2> QED BY <2>3, <2>4
<1>9. PICK T : T = Seq(S)
  OBVIOUS
<1>10. up \in Seq(T)
  BY <1>7, <1>8, <1>9
<1>11. up # <<>>
  <2>1. 1 \in DOMAIN kids
    BY Filled
  <2>2. DOMAIN <<>> = {}
    OBVIOUS
  <2> QED BY <1>7, <2>1, <2>2, Zenon
<1>12. all \in Seq(S)
  BY <1>4, <1>9, <1>10, FlattenTyped
<1>13. all # <<>>
  BY <1>4, <1>7, <1>8, <1>9, <1>10, <1>11, FlattenNonempty, Zenon
<1>14. CASE Len(all) = 1
  <2>1. 1 \in 1..Len(all)
    BY <1>14
  <2>2. all[1] \in S
    BY <1>12, <2>1, ElementOfSeq
  <2> QED BY <1>5, <1>6, <1>14, <2>2, FittingIs, Zenon
<1>15. CASE Len(all) # 1
  <2>1. Len(all) >= 2
    <3>1. Len(all) >= 1
      BY <1>13, Filled, Zenon
    <3>2. PICK n \in Nat : n = Len(all)
      OBVIOUS
    <3>3. n >= 1 /\ n # 1
      BY <1>15, <3>1, <3>2, Zenon
    <3>4. n >= 2
      BY <3>3
    <3> QED BY <3>2, <3>4, Zenon
  <2>2. \A i \in DOMAIN all : all[i] \in S
    BY <1>12
  <2>3. NormalKids(d, all)
    BY <1>6, <2>1, <2>2, Zenon DEF NormalKids, Fitting, NormalTrees
  <2>4. Normal(Split(d, all)) /\ Split(d, all) \in Trees
    BY <2>3, NormalSplitIs, SplitTree, Zenon
  <2> QED BY <1>5, <1>15, <2>4, Zenon DEF NormalTrees
<1> QED BY <1>14, <1>15

(* The trees that normalising makes normal.                                  *)
Mendable == {t \in Trees : Normalise(t) \in NormalTrees}

(* A split of trees that normalising makes normal is one itself, ...         *)
LEMMA MendableSplit ==
  ASSUME NEW d \in Dirs, NEW kids \in Seq(Mendable), kids # <<>>
  PROVE  Split(d, kids) \in Mendable /\ Split(d, kids) \in Trees
<1>1. PICK F \in [Trees -> Trees] : NormaliseTo(F)
  BY NormaliseFolds, Zenon DEF NormaliseTo
<1>2. Mendable \subseteq Trees
  BY Zenon DEF Mendable
<1>3. kids \in Seq(Trees)
  BY <1>2, SeqGrows
<1>4. F[Split(d, kids)] = Merged(Split(d, kids), Each(F, kids))
  BY <1>1, <1>3, Zenon DEF NormaliseTo
<1>5. Maps(F, Mendable, NormalTrees)
  BY <1>1, <1>2, Zenon DEF Maps, Mendable, NormaliseTo
<1>6. Mapped(F, kids, NormalTrees)
  BY <1>5, EachMapped, Zenon
<1>7. PICK ns \in Seq(NormalTrees) : ns = Each(F, kids) /\ DOMAIN ns = DOMAIN kids
  BY <1>6, Zenon DEF Mapped
<1>8. ns # <<>>
  <2>1. 1 \in DOMAIN kids
    BY Filled
  <2>2. 1 \in DOMAIN ns
    BY <1>7, <2>1
  <2> QED BY <2>2, Filled
<1>9. Split(d, kids) \in Splits(Trees)
  BY <1>3, SplitIs
<1>10. Merged(Split(d, kids), ns) \in NormalTrees
  BY <1>8, <1>9, MergedNormal
<1>11. Split(d, kids) \in Trees
  BY <1>3, SplitTree
<1>12. Normalise(Split(d, kids)) \in NormalTrees
  BY <1>1, <1>4, <1>7, <1>10, <1>11, Zenon DEF NormaliseTo
<1> QED BY <1>11, <1>12, Zenon DEF Mendable

(* ... and so is a leaf.                                                     *)
LEMMA MendableLeaf == \A p \in Nat : Leaf(p) \in Mendable
<1>1. PICK F \in [Trees -> Trees] : NormaliseTo(F)
  BY NormaliseFolds, Zenon DEF NormaliseTo
<1>2. \A p \in Nat : Normalise(Leaf(p)) = Leaf(p)
  BY <1>1, LeafTree, Zenon DEF NormaliseTo
<1> QED BY <1>2, NormalLeaf, LeafTree, Zenon DEF Mendable

(* Normalising keeps a normal tree normal.                                   *)
LEMMA NormalMendable == NormalTrees \subseteq Mendable
<1> DEFINE P == {t \in Trees : Normal(t) => t \in Mendable}
<1>1. ASSUME NEW p \in Nat PROVE Leaf(p) \in P
  BY MendableLeaf, LeafTree, Zenon
<1>2. ASSUME NEW d \in Dirs, NEW kids \in Seq(P) PROVE Split(d, kids) \in P
  <2>1. kids \in Seq(Trees)
    BY SeqGrows
  <2>2. SUFFICES ASSUME NormalKids(d, kids) PROVE Split(d, kids) \in Mendable
    BY <2>1, NormalSplitIs, SplitTree, Zenon
  <2>3. \A i \in DOMAIN kids : kids[i] \in P
    OBVIOUS
  <2>4. \A i \in DOMAIN kids : kids[i] \in Mendable
    BY <2>2, <2>3, Zenon DEF NormalKids
  <2>5. PICK S : S = Mendable
    OBVIOUS
  <2>6. kids \in Seq(S)
    BY <2>4, <2>5
  <2>7. kids # <<>>
    <3>1. Len(kids) >= 2
      BY <2>2, Zenon DEF NormalKids
    <3> QED BY <3>1
  <2> QED BY <2>5, <2>6, <2>7, MendableSplit, Zenon
<1>3. P = Trees
  <2>1. P \in SUBSET Trees
    OBVIOUS
  <2> HIDE DEF P
  <2> QED BY <1>1, <1>2, <2>1, TreeInduction
<1> QED BY <1>3, Zenon DEF NormalTrees

-----------------------------------------------------------------------------
(* The folds that replace leaves.                                            *)

FoldsWith(F, L) ==
    /\ \A p \in Nat : F[Leaf(p)] = L[p]
    /\ \A d \in Dirs, kids \in Seq(Trees) :
          F[Split(d, kids)] = With(Split(d, kids), Each(F, kids))

FoldedSplit(F, d, kids) ==
    /\ Each(F, kids) \in Seq(Trees) /\ DOMAIN Each(F, kids) = DOMAIN kids
    /\ \A i \in DOMAIN kids : Each(F, kids)[i] = F[kids[i]]
    /\ F[Split(d, kids)] = Split(d, Each(F, kids))

(* What such a fold makes of a split is normalised from what it makes of the *)
(* children.                                                                 *)
LEMMA FoldedSplits ==
  ASSUME NEW L, NEW F \in [Trees -> Trees], FoldsWith(F, L), NEW d \in Dirs, NEW kids \in Seq(Trees)
  PROVE  FoldedSplit(F, d, kids)
<1>1. Maps(F, Trees, Trees)
  BY DEF Maps
<1>2. Mapped(F, kids, Trees)
  BY <1>1, EachMapped, Zenon
<1>3. PICK ns \in Seq(Trees) : ns = Each(F, kids)
  BY <1>2, Zenon DEF Mapped
<1>4. F[Split(d, kids)] = With(Split(d, kids), ns)
  BY <1>3, Zenon DEF FoldsWith
<1>5. Split(d, kids) \in Splits(Trees) /\ Split(d, kids).direction = d
  BY SplitIs
<1>6. With(Split(d, kids), ns) = Split(d, ns)
  BY <1>5, WithIs
<1> QED BY <1>2, <1>3, <1>4, <1>6, Zenon DEF Mapped, FoldedSplit

ListsOf(L) == [p \in Nat |-> ListPanes(L[p])]

(* Replacing leaves expands the list of panes in place.                      *)
LEMMA WithList ==
  ASSUME NEW L \in [Nat -> Trees], NEW F \in [Trees -> Trees], FoldsWith(F, L)
  PROVE  \A t \in Trees : ListPanes(F[t]) = Expand(ListsOf(L), ListPanes(t))
<1>1. PICK M : M = ListsOf(L)
  OBVIOUS
<1>2. Maps(M, Nat, Seq(Nat))
  <2>1. \A p \in Nat : L[p] \in Trees
    OBVIOUS
  <2> QED BY <1>1, <2>1, ListTyped, Zenon DEF ListsOf, Maps
<1> DEFINE P == {t \in Trees : ListPanes(F[t]) = Expand(M, ListPanes(t))}
<1>3. ASSUME NEW p \in Nat PROVE Leaf(p) \in P
  <2>1. ListPanes(F[Leaf(p)]) = M[p]
    BY <1>1, Zenon DEF FoldsWith, ListsOf
  <2>2. PICK m \in Seq(Nat) : m = M[p]
    BY <1>2, Zenon DEF Maps
  <2>3. Each(M, <<p>>) = <<m>>
    BY <2>2 DEF Each
  <2>4. Expand(M, <<p>>) = m
    BY <2>3, FlattenSingle, Zenon DEF Expand
  <2> QED BY <2>1, <2>2, <2>4, ListLeaf, LeafTree, Zenon
<1>4. ASSUME NEW d \in Dirs, NEW kids \in Seq(P) PROVE Split(d, kids) \in P
  <2>1. kids \in Seq(Trees)
    BY SeqGrows
  <2>2. FoldedSplit(F, d, kids)
    BY <2>1, FoldedSplits, Zenon
  <2>3. PICK ns \in Seq(Trees) : /\ ns = Each(F, kids) /\ DOMAIN ns = DOMAIN kids
                                 /\ \A i \in DOMAIN kids : ns[i] = F[kids[i]]
                                 /\ F[Split(d, kids)] = Split(d, ns)
    BY <2>2, Zenon DEF FoldedSplit
  <2>4. PICK lists \in Seq(Seq(Nat)) :
           lists = Each(TreeLists, kids) /\ DOMAIN lists = DOMAIN kids
           /\ \A i \in DOMAIN kids : lists[i] = TreeLists[kids[i]]
    BY <2>1, AllOfIs, Zenon DEF Mapped
  <2>5. \A i \in DOMAIN kids : TreeLists[ns[i]] = Expand(M, lists[i])
    <3> TAKE i \in DOMAIN kids
    <3>1. PICK k \in P : k = kids[i]
      OBVIOUS
    <3>2. ListPanes(F[k]) = Expand(M, ListPanes(k)) /\ F[k] \in Trees /\ k \in Trees
      OBVIOUS
    <3> HIDE DEF P
    <3> QED BY <2>3, <2>4, <3>1, <3>2, ListTyped, Zenon
  <2>6. Each(TreeLists, ns) = Expands(M, lists)
    BY <2>3, <2>4, <2>5, Zenon DEF Each, Expands
  <2>7. Spreads(M, lists)
    BY <1>2, ExpandFlatten, Zenon
  <2>8. ListPanes(Split(d, ns)) = FlattenSeq(Each(TreeLists, ns))
    BY ListSplit, AllOfIs, Zenon
  <2>9. ListPanes(Split(d, kids)) = FlattenSeq(lists)
    BY <2>1, <2>4, ListSplit, AllOfIs, Zenon
  <2>10. ListPanes(F[Split(d, kids)]) = Expand(M, ListPanes(Split(d, kids)))
    BY <2>3, <2>6, <2>7, <2>8, <2>9, Zenon DEF Spreads
  <2> QED BY <2>1, <2>10, SplitTree
<1>5. P = Trees
  <2>1. P \in SUBSET Trees
    OBVIOUS
  <2> HIDE DEF P
  <2> QED BY <1>3, <1>4, <2>1, TreeInduction
<1>6. \A t \in Trees : ListPanes(F[t]) = Expand(M, ListPanes(t))
  BY <1>5
<1> QED BY <1>1, <1>6, Zenon

(* And leaves a normal tree one that normalising makes normal again.         *)
LEMMA WithMendable ==
  ASSUME NEW L, NEW F \in [Trees -> Trees], FoldsWith(F, L), \A p \in Nat : L[p] \in Mendable
  PROVE  \A t \in NormalTrees : F[t] \in Mendable
<1> DEFINE P == {t \in Trees : Normal(t) => F[t] \in Mendable}
<1>1. ASSUME NEW p \in Nat PROVE Leaf(p) \in P
  BY LeafTree, Zenon DEF FoldsWith
<1>2. ASSUME NEW d \in Dirs, NEW kids \in Seq(P) PROVE Split(d, kids) \in P
  <2>1. kids \in Seq(Trees)
    BY SeqGrows
  <2>2. SUFFICES ASSUME NormalKids(d, kids) PROVE F[Split(d, kids)] \in Mendable
    BY <2>1, NormalSplitIs, SplitTree, Zenon
  <2>3. FoldedSplit(F, d, kids)
    BY <2>1, FoldedSplits, Zenon
  <2>4. PICK ns \in Seq(Trees) : /\ DOMAIN ns = DOMAIN kids
                                 /\ \A i \in DOMAIN kids : ns[i] = F[kids[i]]
                                 /\ F[Split(d, kids)] = Split(d, ns)
    BY <2>3, Zenon DEF FoldedSplit
  <2>5. \A i \in DOMAIN kids : kids[i] \in P
    OBVIOUS
  <2>6. \A i \in DOMAIN ns : ns[i] \in Mendable
    BY <2>2, <2>4, <2>5, Zenon DEF NormalKids
  <2>7. PICK S : S = Mendable
    OBVIOUS
  <2>8. ns \in Seq(S)
    BY <2>6, <2>7
  <2>9. ns # <<>>
    <3>1. Len(kids) >= 2
      BY <2>2, Zenon DEF NormalKids
    <3>2. 1 \in DOMAIN kids
      BY <2>1, <3>1
    <3>3. 1 \in DOMAIN ns
      BY <2>4, <3>2
    <3> QED BY <3>3, Filled
  <2> QED BY <2>4, <2>7, <2>8, <2>9, MendableSplit, Zenon
<1>3. P = Trees
  <2>1. P \in SUBSET Trees
    OBVIOUS
  <2> HIDE DEF P
  <2> QED BY <1>1, <1>2, <2>1, TreeInduction
<1> QED BY <1>3, Zenon DEF NormalTrees

Alike(t, u) == u.type = t.type /\ (t.type = "split" => u.direction = t.direction)

(* Renaming the panes keeps a normal tree normal.                            *)
LEMMA WithLeaves ==
  ASSUME NEW L, NEW F \in [Trees -> Trees], FoldsWith(F, L),
         \A p \in Nat : \E q \in Nat : L[p] = Leaf(q)
  PROVE  \A t \in NormalTrees : F[t] \in NormalTrees
<1>1. ASSUME NEW t \in Trees PROVE Alike(t, F[t])
  <2>1. ASSUME NEW p \in Nat, t = Leaf(p) PROVE Alike(t, F[t])
    <3>1. PICK q \in Nat : L[p] = Leaf(q)
      OBVIOUS
    <3>2. F[t] = Leaf(q)
      BY <2>1, <3>1, Zenon DEF FoldsWith
    <3>3. t.type = "leaf" /\ F[t].type = "leaf"
      BY <2>1, <3>2, LeafIs
    <3> QED BY <3>3 DEF Alike
  <2>2. ASSUME NEW d \in Dirs, NEW kids \in Seq(Trees), t = Split(d, kids) PROVE Alike(t, F[t])
    <3>1. PICK ns \in Seq(Trees) : F[t] = Split(d, ns)
      BY <2>2, FoldedSplits, Zenon DEF FoldedSplit
    <3>2. t.type = "split" /\ t.direction = d
      BY <2>2, SplitIs
    <3>3. F[t].type = "split" /\ F[t].direction = d
      BY <3>1, SplitIs
    <3> QED BY <3>2, <3>3, Zenon DEF Alike
  <2> QED BY <2>1, <2>2, TreeCases, Zenon
<1> DEFINE P == {t \in Trees : Normal(t) => Normal(F[t])}
<1>2. ASSUME NEW p \in Nat PROVE Leaf(p) \in P
  <2>1. PICK q \in Nat : F[Leaf(p)] = Leaf(q)
    BY Zenon DEF FoldsWith
  <2> QED BY <2>1, LeafTree, NormalLeaf, Zenon
<1>3. ASSUME NEW d \in Dirs, NEW kids \in Seq(P) PROVE Split(d, kids) \in P
  <2>1. kids \in Seq(Trees)
    BY SeqGrows
  <2>2. SUFFICES ASSUME NormalKids(d, kids) PROVE Normal(F[Split(d, kids)])
    BY <2>1, NormalSplitIs, SplitTree, Zenon
  <2>3. FoldedSplit(F, d, kids)
    BY <2>1, FoldedSplits, Zenon
  <2>4. PICK ns \in Seq(Trees) : /\ DOMAIN ns = DOMAIN kids
                                 /\ \A i \in DOMAIN kids : ns[i] = F[kids[i]]
                                 /\ F[Split(d, kids)] = Split(d, ns)
    BY <2>3, Zenon DEF FoldedSplit
  <2>5. \A i \in DOMAIN kids : kids[i] \in P
    OBVIOUS
  <2>6. \A i \in DOMAIN kids : Normal(ns[i]) /\ Alike(kids[i], ns[i])
    BY <1>1, <2>2, <2>4, <2>5, Zenon DEF NormalKids
  <2>7. Len(ns) = Len(kids)
    BY <2>1, <2>4
  <2>8. Len(ns) >= 2
    BY <2>2, <2>7, Zenon DEF NormalKids
  <2>9. \A i \in DOMAIN ns : ns[i].type = "split" => ns[i].direction # d
    <3> TAKE i \in DOMAIN ns
    <3>1. i \in DOMAIN kids
      BY <2>4
    <3>2. kids[i].type = "split" => kids[i].direction # d
      BY <2>2, <3>1, Zenon DEF NormalKids
    <3>3. ns[i].type = kids[i].type /\ (kids[i].type = "split" => ns[i].direction = kids[i].direction)
      BY <2>6, <3>1, Zenon DEF Alike
    <3> QED BY <3>2, <3>3
  <2>10. NormalKids(d, ns)
    BY <2>4, <2>6, <2>8, <2>9, Zenon DEF NormalKids
  <2> QED BY <2>4, <2>10, NormalSplitIs, Zenon
<1>4. P = Trees
  <2>1. P \in SUBSET Trees
    OBVIOUS
  <2> HIDE DEF P
  <2> QED BY <1>2, <1>3, <2>1, TreeInduction
<1>5. \A t \in Trees : Normal(t) => Normal(F[t])
  BY <1>4
<1>6. \A t \in Trees : F[t] \in Trees
  OBVIOUS
<1> QED BY <1>5, <1>6, Zenon DEF NormalTrees

-----------------------------------------------------------------------------
(* The folds that may leave no tree.                                         *)

FoldsAround(F, L) ==
    /\ \A p \in Nat : F[Leaf(p)] = L[p]
    /\ \A d \in Dirs, kids \in Seq(Trees) :
          F[Split(d, kids)] = Around(Split(d, kids), Each(F, kids))

AtMostOne == {s \in Seq(NormalTrees) : Len(s) <= 1}

AroundKept(d, kept) == IF kept = <<>> THEN <<>> ELSE <<Normalise(Split(d, kept))>>

(* What is known of a split's fold: what was kept of its children, in order. *)
KeptSplit(F, d, kids) ==
    \E built \in Seq(Seq(Trees)), kept \in Seq(Trees) :
       /\ DOMAIN built = DOMAIN kids /\ \A i \in DOMAIN kids : built[i] = F[kids[i]]
       /\ kept = FlattenSeq(built)
       /\ F[Split(d, kids)] = AroundKept(d, kept)

(* What such a fold leaves of a split comes from what it leaves of the       *)
(* children.                                                                 *)
LEMMA KeptSplits ==
  ASSUME NEW L, NEW F \in [Trees -> Seq(Trees)], FoldsAround(F, L),
         NEW d \in Dirs, NEW kids \in Seq(Trees)
  PROVE  KeptSplit(F, d, kids)
<1>1. PICK S : S = Seq(Trees)
  OBVIOUS
<1>2. Maps(F, Trees, S)
  BY <1>1 DEF Maps
<1>3. Mapped(F, kids, S)
  BY <1>2, EachMapped, Zenon
<1>4. PICK built \in Seq(S) : built = Each(F, kids)
  BY <1>3, Zenon DEF Mapped
<1>5. PICK kept \in Seq(Trees) : kept = FlattenSeq(built)
  BY <1>1, FlattenTyped
<1>6. F[Split(d, kids)] = Around(Split(d, kids), built)
  BY <1>4, Zenon DEF FoldsAround
<1>7. Split(d, kids).direction = d
  BY SplitIs
<1>8. Around(Split(d, kids), built) = AroundKept(d, kept)
  BY <1>5, <1>7, Zenon DEF Around, AroundKept
<1> QED BY <1>1, <1>3, <1>4, <1>5, <1>6, <1>8, Zenon DEF KeptSplit, Mapped

(* However a tree is cut down, what is left is at most one normal tree.      *)
LEMMA AroundNormal ==
  ASSUME NEW L, NEW F \in [Trees -> Seq(Trees)], FoldsAround(F, L),
         \A p \in Nat : L[p] \in AtMostOne
  PROVE  \A t \in Trees : F[t] \in AtMostOne
<1> DEFINE P == {t \in Trees : F[t] \in AtMostOne}
<1>1. ASSUME NEW p \in Nat PROVE Leaf(p) \in P
  BY LeafTree, Zenon DEF FoldsAround
<1>2. ASSUME NEW d \in Dirs, NEW kids \in Seq(P) PROVE Split(d, kids) \in P
  <2>1. kids \in Seq(Trees)
    BY SeqGrows
  <2>2. KeptSplit(F, d, kids)
    BY <2>1, KeptSplits, Zenon
  <2>3. PICK built \in Seq(Seq(Trees)), kept \in Seq(Trees) :
           /\ DOMAIN built = DOMAIN kids /\ \A i \in DOMAIN kids : built[i] = F[kids[i]]
           /\ kept = FlattenSeq(built)
           /\ F[Split(d, kids)] = AroundKept(d, kept)
    BY <2>2, Zenon DEF KeptSplit
  <2>4. \A i \in DOMAIN kids : kids[i] \in P
    OBVIOUS
  <2>5. \A i \in DOMAIN built : built[i] \in Seq(NormalTrees)
    BY <2>3, <2>4, Zenon DEF AtMostOne
  <2>6. PICK S : S = NormalTrees
    OBVIOUS
  <2>7. PICK T : T = Seq(S)
    OBVIOUS
  <2>8. built \in Seq(T)
    BY <2>5, <2>6, <2>7
  <2>9. kept \in Seq(S)
    BY <2>3, <2>7, <2>8, FlattenTyped
  <2>10. CASE kept = <<>>
    <3>1. F[Split(d, kids)] = <<>>
      BY <2>3, <2>10, Zenon DEF AroundKept
    <3>2. <<>> \in Seq(NormalTrees) /\ Len(<<>>) <= 1
      OBVIOUS
    <3> QED BY <2>1, <3>1, <3>2, SplitTree, Zenon DEF AtMostOne
  <2>11. CASE kept # <<>>
    <3>1. kept \in Seq(Mendable)
      BY <2>6, <2>9, NormalMendable, SeqGrows
    <3>2. PICK n \in NormalTrees : n = Normalise(Split(d, kept))
      BY <2>11, <3>1, MendableSplit, Zenon DEF Mendable
    <3>3. F[Split(d, kids)] = <<n>>
      BY <2>3, <2>11, <3>2, Zenon DEF AroundKept
    <3>4. <<n>> \in Seq(NormalTrees) /\ Len(<<n>>) <= 1
      OBVIOUS
    <3> QED BY <2>1, <3>3, <3>4, SplitTree, Zenon DEF AtMostOne
  <2> QED BY <2>10, <2>11
<1>3. P = Trees
  <2>1. P \in SUBSET Trees
    OBVIOUS
  <2> HIDE DEF P
  <2> QED BY <1>1, <1>2, <2>1, TreeInduction
<1> QED BY <1>3, Zenon

ListsOfAll(L) == [p \in Nat |-> AllOf(L[p])]

(* And its panes are the old ones, each replaced in place.                   *)
LEMMA AroundList ==
  ASSUME NEW L \in [Nat -> Seq(Trees)], NEW F \in [Trees -> Seq(Trees)], FoldsAround(F, L)
  PROVE  \A t \in Trees : AllOf(F[t]) = Expand(ListsOfAll(L), ListPanes(t))
<1>1. PICK M : M = ListsOfAll(L)
  OBVIOUS
<1>2. Maps(M, Nat, Seq(Nat))
  <2>1. \A p \in Nat : L[p] \in Seq(Trees)
    OBVIOUS
  <2> QED BY <1>1, <2>1, AllOfIs, Zenon DEF ListsOfAll, Maps
<1> DEFINE P == {t \in Trees : AllOf(F[t]) = Expand(M, ListPanes(t))}
<1>3. ASSUME NEW p \in Nat PROVE Leaf(p) \in P
  <2>1. AllOf(F[Leaf(p)]) = M[p]
    BY <1>1, Zenon DEF FoldsAround, ListsOfAll
  <2>2. PICK m \in Seq(Nat) : m = M[p]
    BY <1>2, Zenon DEF Maps
  <2>3. Each(M, <<p>>) = <<m>>
    BY <2>2 DEF Each
  <2>4. Expand(M, <<p>>) = m
    BY <2>3, FlattenSingle, Zenon DEF Expand
  <2> QED BY <2>1, <2>2, <2>4, ListLeaf, LeafTree, Zenon
<1>4. ASSUME NEW d \in Dirs, NEW kids \in Seq(P) PROVE Split(d, kids) \in P
  <2>1. kids \in Seq(Trees)
    BY SeqGrows
  <2>2. KeptSplit(F, d, kids)
    BY <2>1, KeptSplits, Zenon
  <2>3. PICK built \in Seq(Seq(Trees)), kept \in Seq(Trees) :
           /\ DOMAIN built = DOMAIN kids /\ \A i \in DOMAIN kids : built[i] = F[kids[i]]
           /\ kept = FlattenSeq(built)
           /\ F[Split(d, kids)] = AroundKept(d, kept)
    BY <2>2, Zenon DEF KeptSplit
  <2>4. PICK lists \in Seq(Seq(Nat)) :
           lists = Each(TreeLists, kids) /\ DOMAIN lists = DOMAIN kids
           /\ \A i \in DOMAIN kids : lists[i] = TreeLists[kids[i]]
    BY <2>1, AllOfIs, Zenon DEF Mapped
  <2>5. \A i \in DOMAIN kids : AllOf(built[i]) = Expand(M, lists[i])
    <3> TAKE i \in DOMAIN kids
    <3>1. PICK k \in P : k = kids[i]
      OBVIOUS
    <3>2. AllOf(F[k]) = Expand(M, ListPanes(k)) /\ k \in Trees
      OBVIOUS
    <3> HIDE DEF P
    <3> QED BY <2>3, <2>4, <3>1, <3>2, ListTyped, Zenon
  <2>6. AllOfEach(built) = Expands(M, lists)
    BY <2>3, <2>4, <2>5, Zenon DEF AllOfEach, Expands
  <2>7. Spreads(M, lists)
    BY <1>2, ExpandFlatten, Zenon
  <2>8. AllOf(kept) = FlattenSeq(AllOfEach(built))
    BY <2>3, AllOfFlatten
  <2>9. ListPanes(Split(d, kids)) = FlattenSeq(lists)
    BY <2>1, <2>4, ListSplit, AllOfIs, Zenon
  <2>10. AllOf(AroundKept(d, kept)) = AllOf(kept)
    <3>1. CASE kept = <<>>
      BY <3>1, Zenon DEF AroundKept
    <3>2. CASE kept # <<>>
      <4>1. PICK s \in Trees : s = Split(d, kept)
        BY SplitTree
      <4>2. PICK n \in Trees : n = Normalise(s)
        BY NormaliseTyped
      <4>3. AroundKept(d, kept) = <<n>>
        BY <3>2, <4>1, <4>2, Zenon DEF AroundKept
      <4>4. AllOf(<<n>>) = ListPanes(s)
        BY <4>2, AllOfSingle, NormaliseList, Zenon
      <4> QED BY <4>1, <4>3, <4>4, ListSplit, Zenon
    <3> QED BY <3>1, <3>2
  <2>11. AllOf(F[Split(d, kids)]) = Expand(M, ListPanes(Split(d, kids)))
    BY <2>3, <2>6, <2>7, <2>8, <2>9, <2>10, Zenon DEF Spreads
  <2> QED BY <2>1, <2>11, SplitTree
<1>5. P = Trees
  <2>1. P \in SUBSET Trees
    OBVIOUS
  <2> HIDE DEF P
  <2> QED BY <1>3, <1>4, <2>1, TreeInduction
<1>6. \A t \in Trees : AllOf(F[t]) = Expand(M, ListPanes(t))
  BY <1>5
<1> QED BY <1>1, <1>6, Zenon

-----------------------------------------------------------------------------
(* The trees of a sound layout, under the operations of panes.ts.            *)

(* The trees of a sound layout: normal, and each pane in one place.          *)
Proper == {t \in NormalTrees : IsInjective(ListPanes(t))}

(* What is known of such a tree.                                             *)
LEMMA ProperIs ==
  ASSUME NEW t \in Proper
  PROVE  /\ t \in NormalTrees /\ t \in Trees /\ Normal(t)
         /\ ListPanes(t) \in Seq(Nat) /\ IsInjective(ListPanes(t)) /\ ListPanes(t) # <<>>
         /\ PaneSet(t) \subseteq Nat /\ PaneSet(t) # {} /\ ListPanes(t)[1] \in PaneSet(t)
<1>1. t \in NormalTrees /\ IsInjective(ListPanes(t))
  BY Zenon DEF Proper
<1>2. t \in Trees /\ Normal(t)
  BY <1>1, Zenon DEF NormalTrees
<1>3. PICK s \in Seq(Nat) : s = ListPanes(t)
  BY <1>2, ListTyped
<1>4. s # <<>>
  BY <1>1, <1>3, NormalShows
<1>5. 1 \in DOMAIN s
  BY <1>4, Filled
<1>6. ToSet(s) \subseteq Nat
  BY DEF ToSet
<1>7. s[1] \in ToSet(s)
  BY <1>5, Zenon DEF ToSet
<1> QED BY <1>1, <1>2, <1>3, <1>4, <1>6, <1>7, Zenon DEF PaneSet

(* One item, ...                                                             *)
LEMMA SingleItems == \A p : ToSet(<<p>>) = {p} /\ IsInjective(<<p>>)
  BY DEF ToSet, IsInjective

(* ... and two.                                                              *)
LEMMA PairItems == \A p, q : p # q => ToSet(<<p, q>>) = {p, q} /\ IsInjective(<<p, q>>)
<1> TAKE p, q
<1> HAVE p # q
<1>1. DOMAIN <<p, q>> = {1, 2}
  OBVIOUS
<1>2. <<p, q>>[1] = p /\ <<p, q>>[2] = q
  OBVIOUS
<1>3. PICK s : s = <<p, q>>
  OBVIOUS
<1>4. ToSet(s) = {p, q}
  BY <1>1, <1>2, <1>3, Zenon DEF ToSet
<1>5. IsInjective(s)
  BY <1>1, <1>2, <1>3, Zenon DEF IsInjective
<1> QED BY <1>3, <1>4, <1>5

(* A leaf is a tree of a sound layout.                                       *)
LEMMA LeafProper == \A p \in Nat : Leaf(p) \in Proper /\ PaneSet(Leaf(p)) = {p}
  BY NormalLeaf, ListLeaf, SingleItems, Zenon DEF Proper, PaneSet

(* The panes of a tree, each replaced by panes no other is replaced by.      *)
LEMMA Expanded ==
  ASSUME NEW f, Maps(f, Nat, Seq(Nat)), NEW t \in Proper
  PROVE  /\ ToSet(Expand(f, ListPanes(t))) = UNION {ToSet(f[x]) : x \in PaneSet(t)}
         /\ Spread(f, PaneSet(t)) => IsInjective(Expand(f, ListPanes(t)))
<1>1. PICK s \in Seq(Nat) : s = ListPanes(t) /\ IsInjective(s)
  BY ProperIs
<1>2. PaneSet(t) = ToSet(s)
  BY <1>1, Zenon DEF PaneSet
<1>3. ExpandsTo(f, s)
  BY ExpandItems, Zenon
<1> QED BY <1>1, <1>2, <1>3, Zenon DEF ExpandsTo

(* Sequences of one and of two items.                                        *)
LEMMA TwoItems ==
  ASSUME NEW S, NEW x \in S, NEW y \in S
  PROVE  /\ <<x>> \in Seq(S) /\ <<x, y>> \in Seq(S)
         /\ Append(<<x>>, y) = <<x, y>> /\ <<x>> \o <<y>> = <<x, y>>
<1>1. <<x>> \in Seq(S)
  OBVIOUS
<1>2. <<x, y>> \in Seq(S)
  OBVIOUS
<1>3. Append(<<x>>, y) = <<x, y>>
  <2>1. PICK a \in Seq(S) : a = <<x>>
    BY <1>1
  <2>2. Len(a) = 1 /\ a[1] = x
    BY <2>1
  <2>3. PICK c : c = Append(a, y)
    OBVIOUS
  <2>4. /\ c \in Seq(S) /\ Len(c) = Len(a) + 1 /\ c[Len(a) + 1] = y
        /\ \A i \in 1..Len(a) : c[i] = a[i]
    BY <2>3, AppendProperties
  <2>5. c = <<x, y>>
    BY <2>2, <2>4
  <2> QED BY <2>1, <2>3, <2>5, Zenon
<1>4. <<x>> \o <<y>> = Append(<<x>>, y)
  BY <1>1, AppendIsConcat
<1> QED BY <1>1, <1>2, <1>3, <1>4

(* Two panes, side by side.                                                  *)
LEMMA ForkNormal ==
  \A d \in Dirs, p, q \in Nat :
     /\ Split(d, <<Leaf(p), Leaf(q)>>) \in NormalTrees
     /\ ListPanes(Split(d, <<Leaf(p), Leaf(q)>>)) = <<p, q>>
<1> TAKE d \in Dirs, p \in Nat, q \in Nat
<1>1. PICK a \in Trees : a = Leaf(p) /\ a.type = "leaf" /\ Normal(a) /\ ListPanes(a) = <<p>>
  BY LeafTree, LeafIs, NormalLeaf, ListLeaf, Zenon
<1>2. PICK b \in Trees : b = Leaf(q) /\ b.type = "leaf" /\ Normal(b) /\ ListPanes(b) = <<q>>
  BY LeafTree, LeafIs, NormalLeaf, ListLeaf, Zenon
<1>3. PICK kids \in Seq(Trees) : kids = <<a, b>>
  BY TwoItems, Zenon
<1>4. DOMAIN kids = {1, 2} /\ kids[1] = a /\ kids[2] = b /\ Len(kids) >= 2
  BY <1>3
<1>5. "leaf" # "split"
  OBVIOUS
<1>6. NormalKids(d, kids)
  BY <1>1, <1>2, <1>4, <1>5, Zenon DEF NormalKids
<1>7. Split(d, kids) \in NormalTrees
  BY <1>6, NormalSplitIs, SplitTree, Zenon DEF NormalTrees
<1>8. Each(TreeLists, kids) = <<TreeLists[a], TreeLists[b]>>
  BY <1>3 DEF Each
<1>9. Each(TreeLists, kids) = <<<<p>>, <<q>>>>
  BY <1>1, <1>2, <1>8, ListTyped, Zenon
<1>10. FlattenSeq(<<<<p>>, <<q>>>>) = <<p, q>>
  <2>1. <<<<p>>>> \in Seq(Seq(Nat)) /\ <<q>> \in Seq(Nat) /\ <<p>> \in Seq(Nat)
    OBVIOUS
  <2>2. Append(<<<<p>>>>, <<q>>) = <<<<p>>, <<q>>>>
    <3>1. PICK T : T = Seq(Nat)
      OBVIOUS
    <3>2. PICK x \in T, y \in T : x = <<p>> /\ y = <<q>>
      BY <2>1, <3>1, Zenon
    <3>3. Append(<<x>>, y) = <<x, y>>
      BY TwoItems, Zenon
    <3> QED BY <3>2, <3>3
  <2>3. FlattenSeq(Append(<<<<p>>>>, <<q>>)) = FlattenSeq(<<<<p>>>>) \o <<q>>
    BY <2>1, FlattenAppend
  <2>4. FlattenSeq(<<<<p>>>>) = <<p>>
    BY <2>1, FlattenSingle
  <2>5. <<p>> \o <<q>> = <<p, q>>
    BY TwoItems, Zenon
  <2> QED BY <2>2, <2>3, <2>4, <2>5, Zenon
<1>11. ListPanes(Split(d, kids)) = <<p, q>>
  BY <1>9, <1>10, ListSplit, AllOfIs, Zenon
<1> QED BY <1>1, <1>2, <1>3, <1>7, <1>11, Zenon

Adds(v, t, p) == v \in Proper /\ PaneSet(v) = PaneSet(t) \cup {p}

(* Splitting a pane of a normal tree with each pane in one place leaves such *)
(* a tree, with one pane more (panes.ts splitPane and normalise).            *)
THEOREM SplitProper ==
  ASSUME NEW t \in Proper, NEW target \in PaneSet(t), NEW d \in Dirs,
         NEW new \in Nat, new \notin PaneSet(t)
  PROVE  Adds(SplitPane(t, target, d, new), t, new)
<1>0. t \in Trees /\ t \in NormalTrees /\ PaneSet(t) \subseteq Nat
  BY ProperIs
<1>1. target \in Nat /\ target # new
  BY <1>0
<1>2. PICK node \in NormalTrees : /\ node = Split(d, <<Leaf(target), Leaf(new)>>)
                                  /\ ListPanes(node) = <<target, new>>
  BY <1>1, ForkNormal, Zenon
<1>3. node \in Trees
  BY FittingIs
<1>4. PICK L : L = [p \in Nat |-> IF p = target THEN node ELSE Leaf(p)]
  OBVIOUS
<1>5. L \in [Nat -> Trees]
  BY <1>3, <1>4, LeafTree
<1>6. PICK F \in [Trees -> Trees] : ReplaceTo(F, target, node)
  BY <1>3, ReplaceFolds, Zenon
<1>7. FoldsWith(F, L)
  BY <1>4, <1>6, Zenon DEF FoldsWith, ReplaceTo
<1>8. \A p \in Nat : L[p] \in Mendable
  BY <1>4, MendableLeaf, NormalMendable, Zenon
<1>9. F[t] \in Mendable
  BY <1>0, <1>7, <1>8, WithMendable, Zenon
<1>10. SplitPane(t, target, d, new) = Normalise(F[t])
  BY <1>0, <1>2, <1>6, Zenon DEF SplitPane, ReplaceTo
<1>11. SplitPane(t, target, d, new) \in NormalTrees
  BY <1>9, <1>10, Zenon DEF Mendable
<1>12. PICK M : M = ListsOf(L)
  OBVIOUS
<1>13. ListPanes(SplitPane(t, target, d, new)) = Expand(M, ListPanes(t))
  <2>1. F[t] \in Trees
    BY <1>0
  <2>2. ListPanes(F[t]) = Expand(M, ListPanes(t))
    BY <1>0, <1>5, <1>7, <1>12, WithList, Zenon
  <2> QED BY <1>10, <2>1, <2>2, NormaliseList, Zenon
<1>14. \A p \in Nat : M[p] = IF p = target THEN <<target, new>> ELSE <<p>>
  BY <1>2, <1>4, <1>12, ListLeaf, Zenon DEF ListsOf
<1>15. Maps(M, Nat, Seq(Nat))
  <2>1. <<target, new>> \in Seq(Nat) /\ \A p \in Nat : <<p>> \in Seq(Nat)
    BY <1>1
  <2> QED BY <1>14, <2>1, Zenon DEF Maps
<1>16. ToSet(M[target]) = {target, new} /\ IsInjective(M[target])
  <2>1. M[target] = <<target, new>>
    BY <1>1, <1>14, Zenon
  <2>2. PICK w : w = <<target, new>>
    OBVIOUS
  <2>3. ToSet(w) = {target, new} /\ IsInjective(w)
    BY <1>1, <2>2, PairItems
  <2> QED BY <2>1, <2>2, <2>3, Zenon
<1>17. \A p \in PaneSet(t) : p # target => ToSet(M[p]) = {p} /\ IsInjective(M[p])
  BY <1>0, <1>14, SingleItems, Zenon
<1>18. Spread(M, PaneSet(t))
  <2>1. ASSUME NEW x \in PaneSet(t), NEW y \in PaneSet(t), x # y
        PROVE  ToSet(M[x]) \cap ToSet(M[y]) = {}
    <3>1. x # new /\ y # new
      OBVIOUS
    <3> QED BY <1>16, <1>17, <2>1, <3>1
  <2>2. \A x \in PaneSet(t) : IsInjective(M[x])
    BY <1>16, <1>17, Zenon
  <2> QED BY <2>1, <2>2, Zenon DEF Spread
<1>19. UNION {ToSet(M[x]) : x \in PaneSet(t)} = PaneSet(t) \cup {new}
  <2>1. \A z : z \in UNION {ToSet(M[x]) : x \in PaneSet(t)}
               <=> \E x \in PaneSet(t) : z \in ToSet(M[x])
    BY Zenon
  <2>2. \A z : (\E x \in PaneSet(t) : z \in ToSet(M[x])) <=> z \in PaneSet(t) \/ z = new
    BY <1>16, <1>17
  <2> QED BY <2>1, <2>2
<1>20. Expand(M, ListPanes(t)) \in Seq(Nat)
  BY <1>15, ProperIs, ExpandTyped, Zenon
<1>21. IsInjective(Expand(M, ListPanes(t))) /\ ToSet(Expand(M, ListPanes(t))) = PaneSet(t) \cup {new}
  BY <1>15, <1>18, <1>19, Expanded, Zenon
<1> QED BY <1>11, <1>13, <1>21, Zenon DEF Adds, Proper, PaneSet

(* A tab's root that shows A: no tree when there is nothing to show.         *)
RootOf(s, A) == \/ s = <<>> /\ A = {}
                \/ \E u \in Proper : s = <<u>> /\ PaneSet(u) = A

(* At most one tree: none, or one.                                           *)
LEMMA AtMostOneIs ==
  ASSUME NEW s \in AtMostOne
  PROVE  s = <<>> \/ \E u \in NormalTrees : u \in Trees /\ s = <<u>>
<1>1. s \in Seq(NormalTrees) /\ Len(s) <= 1
  BY Zenon DEF AtMostOne
<1>2. PICK n \in Nat : n = Len(s) /\ DOMAIN s = 1..n
  BY <1>1
<1>3. CASE n = 0
  BY <1>1, <1>2, <1>3, EmptySeq
<1>4. CASE n # 0
  <2>1. n = 1
    BY <1>1, <1>2, <1>4
  <2>2. s[1] \in NormalTrees
    BY <1>1, <1>2, <2>1
  <2>3. s = <<s[1]>>
    BY <1>1, <1>2, <2>1
  <2> QED BY <2>2, <2>3, FittingIs
<1> QED BY <1>3, <1>4

(* What is left of a tree with no pane twice fits a root.                    *)
LEMMA RootFits ==
  ASSUME NEW s \in AtMostOne, IsInjective(AllOf(s)) PROVE RootOf(s, ToSet(AllOf(s)))
<1>1. CASE s = <<>>
  <2>1. ToSet(<<>>) = {}
    BY DEF ToSet
  <2> QED BY <1>1, <2>1, AllOfEmpty, Zenon DEF RootOf
<1>2. CASE s # <<>>
  <2>1. PICK u \in NormalTrees : u \in Trees /\ s = <<u>>
    BY <1>2, AtMostOneIs
  <2>2. AllOf(s) = ListPanes(u)
    BY <2>1, AllOfSingle, Zenon
  <2> QED BY <2>1, <2>2, Zenon DEF RootOf, Proper, PaneSet
<1> QED BY <1>1, <1>2

(* A leaf may be all that is left, ...                                       *)
LEMMA LeafAlone == \A p \in Nat : <<Leaf(p)>> \in AtMostOne /\ AllOf(<<Leaf(p)>>) = <<p>>
                                  /\ <<Leaf(p)>> \in Seq(Trees)
<1> TAKE p \in Nat
<1>1. PICK a \in NormalTrees : a = Leaf(p) /\ a \in Trees
  BY NormalLeaf, LeafTree
<1>2. <<a>> \in Seq(NormalTrees) /\ Len(<<a>>) <= 1 /\ <<a>> \in Seq(Trees)
  BY <1>1
<1> QED BY <1>1, <1>2, AllOfSingle, ListLeaf, LeafTree, Zenon DEF AtMostOne

(* ... or nothing.                                                           *)
LEMMA NoneAlone == <<>> \in AtMostOne /\ <<>> \in Seq(Trees)
  BY DEF AtMostOne

(* Closing a pane of such a tree takes it out and leaves such a tree, or     *)
(* none when it was the last (panes.ts closePane).                           *)
THEOREM CloseProper ==
  ASSUME NEW t \in Proper, NEW gone
  PROVE  RootOf(ClosePane(t, gone), PaneSet(t) \ {gone})
<1>0. t \in Trees /\ PaneSet(t) \subseteq Nat
  BY ProperIs
<1>1. PICK F \in [Trees -> Seq(Trees)] : CloseTo(F, gone)
  BY CloseFolds, Zenon
<1>2. PICK L : L = [p \in Nat |-> IF p = gone THEN <<>> ELSE <<Leaf(p)>>]
  OBVIOUS
<1>3. \A p \in Nat : L[p] \in AtMostOne /\ L[p] \in Seq(Trees)
                     /\ AllOf(L[p]) = IF p = gone THEN <<>> ELSE <<p>>
  BY <1>2, LeafAlone, NoneAlone, AllOfEmpty, Zenon
<1>4. L \in [Nat -> Seq(Trees)]
  BY <1>2, <1>3
<1>5. FoldsAround(F, L)
  BY <1>1, <1>2, Zenon DEF FoldsAround, CloseTo
<1>6. F[t] \in AtMostOne
  BY <1>0, <1>3, <1>5, AroundNormal, Zenon
<1>7. PICK M : M = ListsOfAll(L)
  OBVIOUS
<1>8. AllOf(F[t]) = Expand(M, ListPanes(t))
  BY <1>0, <1>4, <1>5, <1>7, AroundList, Zenon
<1>9. \A p \in Nat : M[p] = IF p = gone THEN <<>> ELSE <<p>>
  BY <1>3, <1>7, Zenon DEF ListsOfAll
<1>10. Maps(M, Nat, Seq(Nat))
  <2>1. <<>> \in Seq(Nat) /\ \A p \in Nat : <<p>> \in Seq(Nat)
    OBVIOUS
  <2> QED BY <1>9, <2>1, Zenon DEF Maps
<1>11. ToSet(<<>>) = {} /\ IsInjective(<<>>)
  BY DEF ToSet, IsInjective
<1>12. \A p \in Nat : p # gone => ToSet(M[p]) = {p} /\ IsInjective(M[p])
  BY <1>9, SingleItems, Zenon
<1>13. \A p \in Nat : p = gone => ToSet(M[p]) = {} /\ IsInjective(M[p])
  BY <1>9, <1>11, Zenon
<1>14. Spread(M, PaneSet(t))
  <2>1. ASSUME NEW x \in PaneSet(t), NEW y \in PaneSet(t), x # y
        PROVE  ToSet(M[x]) \cap ToSet(M[y]) = {}
    <3>0. x \in Nat /\ y \in Nat
      BY <1>0
    <3>1. CASE x = gone
      <4>1. ToSet(M[x]) = {}
        BY <1>13, <3>0, <3>1, Zenon
      <4> QED BY <4>1
    <3>2. CASE y = gone
      <4>1. ToSet(M[y]) = {}
        BY <1>13, <3>0, <3>2, Zenon
      <4> QED BY <4>1
    <3>3. CASE x # gone /\ y # gone
      <4>1. ToSet(M[x]) = {x} /\ ToSet(M[y]) = {y}
        BY <1>12, <3>0, <3>3, Zenon
      <4> QED BY <2>1, <4>1
    <3> QED BY <3>1, <3>2, <3>3
  <2>2. \A x \in PaneSet(t) : IsInjective(M[x])
    BY <1>0, <1>12, <1>13, Zenon
  <2> QED BY <2>1, <2>2, Zenon DEF Spread
<1>15. UNION {ToSet(M[x]) : x \in PaneSet(t)} = PaneSet(t) \ {gone}
  <2>1. \A z : z \in UNION {ToSet(M[x]) : x \in PaneSet(t)}
               <=> \E x \in PaneSet(t) : z \in ToSet(M[x])
    BY Zenon
  <2>2. \A z : (\E x \in PaneSet(t) : z \in ToSet(M[x])) <=> z \in PaneSet(t) /\ z # gone
    BY <1>0, <1>12, <1>13
  <2> QED BY <2>1, <2>2
<1>16. IsInjective(AllOf(F[t])) /\ ToSet(AllOf(F[t])) = PaneSet(t) \ {gone}
  BY <1>8, <1>10, <1>14, <1>15, Expanded, Zenon
<1>17. ClosePane(t, gone) = F[t]
  BY <1>0, <1>1, Zenon DEF CloseTo
<1> QED BY <1>6, <1>16, <1>17, RootFits, Zenon

(* Swapping two panes of such a tree leaves such a tree, of the same panes   *)
(* (panes.ts swapPanes).                                                     *)
THEOREM SwapProper ==
  ASSUME NEW t \in Proper, NEW a \in PaneSet(t), NEW b \in PaneSet(t)
  PROVE  SwapPanes(t, a, b) \in Proper /\ PaneSet(SwapPanes(t, a, b)) = PaneSet(t)
<1>0. t \in Trees /\ t \in NormalTrees /\ PaneSet(t) \subseteq Nat
  BY ProperIs
<1>1. a \in Nat /\ b \in Nat
  BY <1>0
<1>2. PICK F \in [Trees -> Trees] : SwapTo(F, a, b)
  BY <1>1, SwapFolds, Zenon
<1>3. PICK g : g = [p \in Nat |-> IF p = a THEN b ELSE IF p = b THEN a ELSE p]
  OBVIOUS
<1>4. \A p \in Nat : g[p] \in Nat /\ g[p] = IF p = a THEN b ELSE IF p = b THEN a ELSE p
  BY <1>1, <1>3
<1>5. PICK L : L = [p \in Nat |-> Leaf(g[p])]
  OBVIOUS
<1>6. L \in [Nat -> Trees]
  BY <1>4, <1>5, LeafTree
<1>7. FoldsWith(F, L)
  <2>1. \A p \in Nat : F[Leaf(p)] = L[p]
    BY <1>2, <1>4, <1>5, Zenon DEF SwapTo
  <2> QED BY <1>2, <2>1, Zenon DEF SwapTo, FoldsWith
<1>8. \A p \in Nat : \E q \in Nat : L[p] = Leaf(q)
  BY <1>4, <1>5, Zenon
<1>9. SwapPanes(t, a, b) = F[t]
  BY <1>0, <1>2, Zenon DEF SwapTo
<1>10. F[t] \in NormalTrees
  BY <1>0, <1>7, <1>8, WithLeaves, Zenon
<1>11. PICK M : M = ListsOf(L)
  OBVIOUS
<1>12. ListPanes(F[t]) = Expand(M, ListPanes(t))
  BY <1>0, <1>6, <1>7, <1>11, WithList, Zenon
<1>13. \A p \in Nat : M[p] = <<g[p]>>
  BY <1>4, <1>5, <1>11, ListLeaf, Zenon DEF ListsOf
<1>14. Maps(M, Nat, Seq(Nat))
  <2>1. \A p \in Nat : <<p>> \in Seq(Nat)
    OBVIOUS
  <2> QED BY <1>4, <1>13, <2>1, Zenon DEF Maps
<1>15. \A p \in Nat : ToSet(M[p]) = {g[p]} /\ IsInjective(M[p])
  BY <1>13, SingleItems, Zenon
<1>16. Spread(M, PaneSet(t))
  <2>1. ASSUME NEW x \in PaneSet(t), NEW y \in PaneSet(t), x # y
        PROVE  ToSet(M[x]) \cap ToSet(M[y]) = {}
    <3>1. g[x] # g[y]
      BY <1>0, <1>1, <1>4, <2>1
    <3>2. ToSet(M[x]) = {g[x]} /\ ToSet(M[y]) = {g[y]}
      BY <1>0, <1>15, Zenon
    <3> QED BY <3>1, <3>2
  <2>2. \A x \in PaneSet(t) : IsInjective(M[x])
    BY <1>0, <1>15, Zenon
  <2> QED BY <2>1, <2>2, Zenon DEF Spread
<1>17. UNION {ToSet(M[x]) : x \in PaneSet(t)} = PaneSet(t)
  <2>1. \A z : z \in UNION {ToSet(M[x]) : x \in PaneSet(t)}
               <=> \E x \in PaneSet(t) : z \in ToSet(M[x])
    BY Zenon
  <2>2. \A x \in PaneSet(t) : ToSet(M[x]) = {g[x]}
    BY <1>0, <1>15, Zenon
  <2>3. \A z : (\E x \in PaneSet(t) : z \in ToSet(M[x])) <=> \E x \in PaneSet(t) : z = g[x]
    BY <2>2
  <2>4. \A z \in PaneSet(t) : g[z] \in PaneSet(t) /\ g[g[z]] = z
    BY <1>0, <1>4
  <2>5. \A z : (\E x \in PaneSet(t) : z = g[x]) <=> z \in PaneSet(t)
    BY <2>4, Zenon
  <2> QED BY <2>1, <2>3, <2>5
<1>18. IsInjective(ListPanes(F[t])) /\ ToSet(ListPanes(F[t])) = PaneSet(t)
  BY <1>12, <1>14, <1>16, <1>17, Expanded, Zenon
<1> QED BY <1>9, <1>10, <1>18, Zenon DEF Proper, PaneSet

(* The next pane round is one of the tree's.                                 *)
LEMMA BesideIn ==
  ASSUME NEW t \in Proper, NEW p \in PaneSet(t), NEW forward \in BOOLEAN
  PROVE  Beside(t, p, forward) \in PaneSet(t)
<1>1. PICK all \in Seq(Nat) : all = ListPanes(t)
  BY ProperIs
<1>2. PICK n \in Nat : n = Len(all) /\ DOMAIN all = 1..n
  OBVIOUS
<1>3. PICK at : at = CHOOSE i \in DOMAIN ListPanes(t) : ListPanes(t)[i] = p
  OBVIOUS
<1>4. at \in 1..n
  <2>1. \E i \in DOMAIN ListPanes(t) : ListPanes(t)[i] = p
    BY Zenon DEF PaneSet, ToSet
  <2>2. at \in DOMAIN all
    BY <1>1, <1>3, <2>1, Zenon
  <2> QED BY <1>2, <2>2
<1>5. n >= 1 /\ at \in Nat /\ at >= 1
  BY <1>4
<1>6. (at % n) + 1 \in 1..n
  BY <1>5
<1>7. ((at + n - 2) % n) + 1 \in 1..n
  <2>1. PICK k \in Int : k = at + n - 2
    BY <1>5
  <2>2. (k % n) + 1 \in 1..n
    BY <1>5
  <2> QED BY <2>1, <2>2
<1>8. \A i \in 1..n : all[i] \in PaneSet(t)
  BY <1>1, <1>2, Zenon DEF PaneSet, ToSet
<1>9. Beside(t, p, forward) = IF forward THEN all[(at % n) + 1] ELSE all[((at + n - 2) % n) + 1]
  <2> DEFINE found == CHOOSE i \in DOMAIN ListPanes(t) : ListPanes(t)[i] = p
  <2>1. Beside(t, p, forward) =
           IF forward THEN ListPanes(t)[(found % Len(ListPanes(t))) + 1]
           ELSE ListPanes(t)[((found + Len(ListPanes(t)) - 2) % Len(ListPanes(t))) + 1]
    BY DEF Beside
  <2>2. found = at
    BY <1>3
  <2> HIDE DEF found
  <2> QED BY <1>1, <1>2, <2>1, <2>2
<1> QED BY <1>6, <1>7, <1>8, <1>9, Zenon

(* Expanding each item into one is mapping it.                               *)
Singly(f, g, S) == \A x \in S : f[x] = <<g[x]>>

SameOn(f, g, S) == \A s \in Seq(S) : Expand(f, s) = Each(g, s)

(* Each item into one is each item renamed.                                  *)
LEMMA ExpandSingles ==
  ASSUME NEW S, NEW X, NEW g, Maps(g, S, X), NEW f, Singly(f, g, S)
  PROVE  SameOn(f, g, S)
<1>0. PICK T : T = Seq(X)
  OBVIOUS
<1>1. \A x \in S : <<g[x]>> \in T /\ g[x] \in X
  <2> TAKE x \in S
  <2>1. g[x] \in X
    BY DEF Maps
  <2> QED BY <1>0, <2>1
<1>2. Maps(f, S, T)
  BY <1>1, Zenon DEF Maps, Singly
<1> DEFINE P == {s \in Seq(S) : Expand(f, s) = Each(g, s)}
<1>3. <<>> \in P
  <2>1. <<>> \in Seq(S)
    OBVIOUS
  <2> QED BY <2>1, EachEmpty, FlattenEmpty, Zenon DEF Expand
<1>4. ASSUME NEW s \in P, NEW e \in S PROVE Append(s, e) \in P
  <2>1. s \in Seq(S) /\ Append(s, e) \in Seq(S)
    OBVIOUS
  <2>2. Appended(f, s, e) /\ Appended(g, s, e)
    BY <1>2, <2>1, EachAppend, Zenon
  <2>3. Mapped(f, s, T) /\ Mapped(g, s, X)
    BY <1>2, <2>1, EachMapped, Zenon
  <2>4. PICK fs \in Seq(Seq(X)) : fs = Each(f, s)
    BY <1>0, <2>3, Zenon DEF Mapped
  <2>5. PICK gs \in Seq(X) : gs = Each(g, s)
    BY <2>3, Zenon DEF Mapped
  <2>6. PICK y \in X : y = g[e]
    BY <1>1
  <2>7. <<y>> \in Seq(X)
    OBVIOUS
  <2>8. FlattenSeq(Append(fs, <<y>>)) = FlattenSeq(fs) \o <<y>>
    BY <2>7, FlattenAppend
  <2>9. FlattenSeq(fs) = gs
    BY <2>4, <2>5, Zenon DEF Expand
  <2>10. gs \o <<y>> = Append(gs, y)
    BY AppendIsConcat
  <2>11. f[e] = <<y>>
    BY <2>6, Zenon DEF Singly
  <2> QED BY <2>1, <2>2, <2>4, <2>5, <2>6, <2>8, <2>9, <2>10, <2>11, Zenon DEF Expand, Appended
<1>5. P = Seq(S)
  <2>1. P \in SUBSET Seq(S)
    OBVIOUS
  <2> HIDE DEF P
  <2> QED BY <1>3, <1>4, <2>1, InductionOnSeq
<1>6. \A s \in Seq(S) : Expand(f, s) = Each(g, s)
  BY <1>5
<1> QED BY <1>6, Zenon DEF SameOn

(* A sequence is one over its own items.                                     *)
LEMMA SeqOfItems == ASSUME NEW S, NEW s \in Seq(S) PROVE s \in Seq(ToSet(s))
<1>1. \A i \in DOMAIN s : s[i] \in ToSet(s)
  BY Zenon DEF ToSet
<1>2. PICK T : T = ToSet(s)
  OBVIOUS
<1>3. s \in Seq(T)
  BY <1>1, <1>2
<1> QED BY <1>2, <1>3

(* A saved tree comes back as such a tree, its panes renamed in place        *)
(* (panes.ts deserialise).                                                   *)
THEOREM RestoreProper ==
  ASSUME NEW t \in Proper, NEW fresh, PaneSet(t) \subseteq DOMAIN fresh,
         \A p \in DOMAIN fresh : fresh[p] \in Nat,
         \A p, q \in DOMAIN fresh : fresh[p] = fresh[q] => p = q
  PROVE  \E u \in Proper : /\ Deserialise(t, fresh) = <<u>>
                           /\ ListPanes(u) = Each(fresh, ListPanes(t))
<1>0. t \in Trees /\ PaneSet(t) \subseteq Nat
  BY ProperIs
<1>1. PICK F \in [Trees -> Seq(Trees)] : DeserialiseTo(F, fresh)
  BY DeserialiseFolds, Zenon
<1>2. PICK L : L = [p \in Nat |-> IF p \in DOMAIN fresh THEN <<Leaf(fresh[p])>> ELSE <<>>]
  OBVIOUS
<1>3. \A p \in Nat : L[p] \in AtMostOne /\ L[p] \in Seq(Trees)
                     /\ AllOf(L[p]) = IF p \in DOMAIN fresh THEN <<fresh[p]>> ELSE <<>>
  BY <1>2, LeafAlone, NoneAlone, AllOfEmpty, Zenon
<1>4. L \in [Nat -> Seq(Trees)]
  BY <1>2, <1>3
<1>5. FoldsAround(F, L)
  BY <1>1, <1>2, Zenon DEF FoldsAround, DeserialiseTo
<1>6. F[t] \in AtMostOne
  BY <1>0, <1>3, <1>5, AroundNormal, Zenon
<1>7. PICK M : M = ListsOfAll(L)
  OBVIOUS
<1>8. AllOf(F[t]) = Expand(M, ListPanes(t))
  BY <1>0, <1>4, <1>5, <1>7, AroundList, Zenon
<1>9. PICK A : A = PaneSet(t)
  OBVIOUS
<1>10. Singly(M, fresh, A)
  BY <1>0, <1>3, <1>7, <1>9, Zenon DEF ListsOfAll, Singly
<1>11. Maps(fresh, A, Nat)
  BY <1>9, Zenon DEF Maps
<1>12. PICK s \in Seq(A) : s = ListPanes(t) /\ IsInjective(s) /\ s # <<>>
  <2>1. ListPanes(t) \in Seq(ToSet(ListPanes(t)))
    BY ProperIs, SeqOfItems, Zenon
  <2> QED BY <1>9, <2>1, ProperIs, Zenon DEF PaneSet
<1>13. AllOf(F[t]) = Each(fresh, s)
  <2>1. SameOn(M, fresh, A)
    BY <1>10, <1>11, ExpandSingles, Zenon
  <2> QED BY <1>8, <1>12, <2>1, Zenon DEF SameOn
<1>14. Mapped(fresh, s, Nat)
  BY <1>11, EachMapped, Zenon
<1>15. PICK m \in Seq(Nat) : /\ m = Each(fresh, s) /\ DOMAIN m = DOMAIN s
                             /\ \A i \in DOMAIN s : m[i] = fresh[s[i]]
  BY <1>14, Zenon DEF Mapped
<1>16. IsInjective(m)
  <2>1. \A i \in DOMAIN s : s[i] \in DOMAIN fresh
    BY <1>9
  <2> SUFFICES ASSUME NEW i \in DOMAIN s, NEW j \in DOMAIN s, m[i] = m[j] PROVE i = j
    BY <1>15, Zenon DEF IsInjective
  <2>2. s[i] = s[j]
    BY <1>15, <2>1, Zenon
  <2> QED BY <1>12, <2>2, Zenon DEF IsInjective
<1>17. F[t] # <<>>
  <2>1. 1 \in DOMAIN s
    BY <1>12, Filled
  <2>2. m # <<>>
    BY <1>15, <2>1, Filled
  <2> QED BY <1>13, <1>15, <2>2, AllOfEmpty, Zenon
<1>18. PICK u \in NormalTrees : u \in Trees /\ F[t] = <<u>>
  BY <1>6, <1>17, AtMostOneIs
<1>19. ListPanes(u) = m
  BY <1>13, <1>15, <1>18, AllOfSingle, Zenon
<1>20. u \in Proper
  BY <1>16, <1>19, Zenon DEF Proper
<1>21. Deserialise(t, fresh) = F[t]
  BY <1>0, <1>1, Zenon DEF DeserialiseTo
<1> QED BY <1>12, <1>15, <1>18, <1>19, <1>20, <1>21, Zenon

-----------------------------------------------------------------------------
(* Workspace: the layouts those trees make, under the operations of the      *)
(* store.                                                                    *)

(* The panes of a tab's tree.                                                *)
Shown(tab) == PaneSet(tab.root[1])

Roots == {<<u>> : u \in Proper}

TabShapes == [id : Nat, root : Roots, focus : Nat, zoomed : Nat]

(* The tabs of a sound layout.                                               *)
Tabs == {t \in TabShapes : /\ None \notin Shown(t) /\ t.focus \in Shown(t)
                           /\ t.zoomed # None => t.zoomed \in Shown(t)}

Layouts == [tabs : Seq(Tabs), active : Nat, panes : SUBSET Nat]

(* Tabs have ids of their own and share no pane.                             *)
Apart2(t, u) == t.id # u.id /\ Shown(t) \cap Shown(u) = {}

AllApart(tabs) == \A i, j \in DOMAIN tabs : i # j => Apart2(tabs[i], tabs[j])

LayoutOK(l) ==
    /\ l \in Layouts
    /\ AllApart(l.tabs)
    /\ \A i \in DOMAIN l.tabs : Shown(l.tabs[i]) \subseteq l.panes
    /\ l.tabs # <<>> => \E i \in DOMAIN l.tabs : l.tabs[i].id = l.active

(* A root is one tree.                                                       *)
LEMMA RootIs ==
  ASSUME NEW r \in Roots PROVE r[1] \in Proper /\ r = <<r[1]>> /\ r # <<>>
<1>1. PICK u \in Proper : r = <<u>>
  BY Zenon DEF Roots
<1>2. <<u>>[1] = u /\ <<u>> # <<>>
  OBVIOUS
<1> QED BY <1>1, <1>2

(* The fields of a tab.                                                      *)
LEMMA ShapeIs ==
  ASSUME NEW t \in TabShapes
  PROVE  /\ t.id \in Nat /\ t.root \in Roots /\ t.focus \in Nat /\ t.zoomed \in Nat
         /\ t.root # <<>> /\ t.root[1] \in Proper /\ t.root = <<t.root[1]>>
         /\ Shown(t) \subseteq Nat /\ Shown(t) # {}
         /\ t = [id |-> t.id, root |-> t.root, focus |-> t.focus, zoomed |-> t.zoomed]
<1>1. t.id \in Nat /\ t.root \in Roots /\ t.focus \in Nat /\ t.zoomed \in Nat
  BY DEF TabShapes
<1>2. t.root # <<>> /\ t.root[1] \in Proper /\ t.root = <<t.root[1]>>
  BY <1>1, RootIs
<1>3. PICK u \in Proper : u = t.root[1]
  BY <1>2
<1>4. PaneSet(u) \subseteq Nat /\ PaneSet(u) # {}
  BY ProperIs
<1>5. t = [id |-> t.id, root |-> t.root, focus |-> t.focus, zoomed |-> t.zoomed]
  BY DEF TabShapes
<1> QED BY <1>1, <1>2, <1>3, <1>4, <1>5 DEF Shown

(* What is known of a tab of a sound layout.                                 *)
LEMMA TabIs ==
  ASSUME NEW t \in Tabs
  PROVE  /\ t \in TabShapes /\ t.focus \in Shown(t) /\ (t.zoomed # None => t.zoomed \in Shown(t))
         /\ None \notin Shown(t) /\ t.focus # None
  BY Zenon DEF Tabs

(* Shows, of a tab with a tree.                                              *)
LEMMA ShowsIs == \A t \in TabShapes : \A p : Shows(t, p) <=> p \in Shown(t)
  BY ShapeIs, Zenon DEF Shows, Shown

(* A tab, from its parts.                                                    *)
LEMMA NewShape ==
  ASSUME NEW id \in Nat, NEW u \in Proper, NEW focus \in Nat, NEW zoomed \in Nat, NEW t,
         t = [id |-> id, root |-> <<u>>, focus |-> focus, zoomed |-> zoomed]
  PROVE  /\ t \in TabShapes /\ Shown(t) = PaneSet(u)
         /\ t.id = id /\ t.root = <<u>> /\ t.focus = focus /\ t.zoomed = zoomed
<1>1. <<u>> \in Roots
  BY Zenon DEF Roots
<1>2. t \in TabShapes
  BY <1>1 DEF TabShapes
<1>3. t.id = id /\ t.root = <<u>> /\ t.focus = focus /\ t.zoomed = zoomed
  OBVIOUS
<1>4. t.root[1] = u
  BY <1>3
<1> QED BY <1>2, <1>3, <1>4, Zenon DEF Shown

(* The fields of a layout.                                                   *)
LEMMA LayoutIs ==
  ASSUME NEW l \in Layouts
  PROVE  /\ l.tabs \in Seq(Tabs) /\ l.active \in Nat /\ l.panes \subseteq Nat
         /\ l = [tabs |-> l.tabs, active |-> l.active, panes |-> l.panes]
         /\ \A i \in DOMAIN l.tabs : l.tabs[i] \in Tabs /\ l.tabs[i] \in TabShapes
<1>1. /\ l.tabs \in Seq(Tabs) /\ l.active \in Nat /\ l.panes \subseteq Nat
      /\ l = [tabs |-> l.tabs, active |-> l.active, panes |-> l.panes]
  BY DEF Layouts
<1>2. \A i \in DOMAIN l.tabs : l.tabs[i] \in Tabs
  BY <1>1
<1> QED BY <1>1, <1>2, TabIs, Zenon

(* A layout without tabs is sound.                                           *)
LEMMA EmptyOK == LayoutOK(Empty) /\ Empty.panes = {} /\ Empty.tabs = <<>>
<1>1. Empty.tabs = <<>> /\ Empty.panes = {} /\ Empty.active = None
  BY DEF Empty
<1>2. None \in Nat /\ {} \in SUBSET Nat /\ <<>> \in Seq(Tabs)
  BY DEF None
<1>3. Empty \in Layouts
  BY <1>2 DEF Empty, Layouts
<1>4. DOMAIN <<>> = {}
  OBVIOUS
<1> QED BY <1>1, <1>3, <1>4, Zenon DEF LayoutOK, AllApart

(* The one index of the active tab.                                          *)
LEMMA ActiveIs ==
  ASSUME NEW l, LayoutOK(l)
  PROVE  /\ \A i, j \in ActiveAt(l) : i = j
         /\ l.tabs # <<>> => \E i \in DOMAIN l.tabs : ActiveAt(l) = {i}
         /\ l.tabs = <<>> => ActiveAt(l) = {}
<1>1. \A i, j \in ActiveAt(l) : i = j
  BY Zenon DEF LayoutOK, ActiveAt, AllApart, Apart2
<1>2. ASSUME l.tabs # <<>> PROVE \E i \in DOMAIN l.tabs : ActiveAt(l) = {i}
  <2>1. PICK i \in DOMAIN l.tabs : i \in ActiveAt(l)
    BY <1>2, Zenon DEF LayoutOK, ActiveAt
  <2> QED BY <1>1, <2>1
<1>3. ASSUME l.tabs = <<>> PROVE ActiveAt(l) = {}
  <2>1. DOMAIN <<>> = {}
    OBVIOUS
  <2> QED BY <1>3, <2>1, Zenon DEF ActiveAt
<1> QED BY <1>1, <1>2, <1>3

PaneLists(tabs) ==
    [i \in DOMAIN tabs |-> IF tabs[i].root = <<>> THEN <<>> ELSE ListPanes(tabs[i].root[1])]

(* The panes of each tab, none twice.                                        *)
LEMMA PaneListsAre ==
  ASSUME NEW tabs \in Seq(Tabs)
  PROVE  /\ PaneLists(tabs) \in Seq(Seq(Nat)) /\ DOMAIN PaneLists(tabs) = DOMAIN tabs
         /\ \A i \in DOMAIN tabs : /\ PaneLists(tabs)[i] = ListPanes(tabs[i].root[1])
                                   /\ ToSet(PaneLists(tabs)[i]) = Shown(tabs[i])
                                   /\ IsInjective(PaneLists(tabs)[i])
<1>1. ASSUME NEW i \in DOMAIN tabs
      PROVE  /\ PaneLists(tabs)[i] = ListPanes(tabs[i].root[1])
             /\ ToSet(PaneLists(tabs)[i]) = Shown(tabs[i])
             /\ IsInjective(PaneLists(tabs)[i]) /\ PaneLists(tabs)[i] \in Seq(Nat)
  <2>1. tabs[i] \in TabShapes
    BY TabIs
  <2>2. tabs[i].root # <<>> /\ tabs[i].root[1] \in Proper
    BY <2>1, ShapeIs
  <2>3. PaneLists(tabs)[i] = ListPanes(tabs[i].root[1])
    BY <2>2, Zenon DEF PaneLists
  <2> QED BY <2>2, <2>3, ProperIs, Zenon DEF Shown, PaneSet
<1>2. PICK n \in Nat : n = Len(tabs) /\ DOMAIN tabs = 1..n
  OBVIOUS
<1>3. PICK T : T = Seq(Nat)
  OBVIOUS
<1>4. DOMAIN PaneLists(tabs) = 1..n
  BY <1>2 DEF PaneLists
<1>5. \A i \in 1..n : PaneLists(tabs)[i] \in T
  BY <1>1, <1>2, <1>3
<1>6. PaneLists(tabs) \in Seq(T)
  <2>1. PaneLists(tabs) = [i \in 1..n |-> PaneLists(tabs)[i]]
    BY <1>2, Zenon DEF PaneLists
  <2> QED BY <1>5, <2>1
<1> QED BY <1>1, <1>2, <1>3, <1>4, <1>6

(* A layout is sound when its tabs are what they should be.                  *)
LEMMA LayoutIsSound == ASSUME NEW l, LayoutOK(l) PROVE Sound(l)
<1>1. l \in Layouts
  BY DEF LayoutOK
<1>2. PICK tabs \in Seq(Tabs) : tabs = l.tabs
  BY <1>1, LayoutIs
<1>3. \A i \in DOMAIN tabs : tabs[i] \in Tabs /\ tabs[i] \in TabShapes
  BY <1>1, <1>2, LayoutIs
<1>4. \A i \in DOMAIN tabs : /\ tabs[i].root # <<>>
                             /\ Normal(tabs[i].root[1])
                             /\ Shows(tabs[i], tabs[i].focus)
                             /\ tabs[i].zoomed # None => Shows(tabs[i], tabs[i].zoomed)
  BY <1>3, TabIs, ShapeIs, ShowsIs, ProperIs, Zenon
<1>5. PICK lists \in Seq(Seq(Nat)) :
         /\ lists = PaneLists(tabs) /\ DOMAIN lists = DOMAIN tabs
         /\ \A i \in DOMAIN tabs : ToSet(lists[i]) = Shown(tabs[i]) /\ IsInjective(lists[i])
  BY PaneListsAre, Zenon
<1>6. AllPanes(l) = FlattenSeq(lists)
  BY <1>2, <1>5, Zenon DEF AllPanes, PaneLists
<1>7. Apart(lists)
  <2>1. ASSUME NEW i \in DOMAIN lists, NEW j \in DOMAIN lists, i # j
        PROVE  ToSet(lists[i]) \cap ToSet(lists[j]) = {}
    <3>1. Shown(tabs[i]) \cap Shown(tabs[j]) = {}
      BY <1>2, <1>5, <2>1, Zenon DEF LayoutOK, AllApart, Apart2
    <3> QED BY <1>5, <3>1, Zenon
  <2> QED BY <1>5, <2>1, Zenon DEF Apart
<1>8. IsInjective(FlattenSeq(lists)) /\ ToSet(FlattenSeq(lists)) = Items(lists)
  BY <1>7, FlattenItems
<1>9. Items(lists) \subseteq l.panes
  <2>1. \A i \in DOMAIN lists : ToSet(lists[i]) \subseteq l.panes
    BY <1>2, <1>5, Zenon DEF LayoutOK
  <2> QED BY <2>1, Zenon DEF Items
<1> QED BY <1>2, <1>4, <1>6, <1>8, <1>9, ActiveIs, Zenon DEF Sound

(* A tab's id is always free, since fewer tabs than ids are counted.         *)
LEMMA NextTabIdFree ==
  ASSUME NEW l, NEW n \in Nat, DOMAIN l.tabs = 1..n, Len(l.tabs) = n
  PROVE  NextTabId(l) \in Nat /\ NextTabId(l) \notin TabIds(l)
<1> DEFINE I == TabIds(l)
           P == {k \in Nat : k <= n + 1 => 1..k \subseteq I}
<1>1. I = {l.tabs[i].id : i \in 1..n}
  BY Zenon DEF TabIds
<1>2. IsFiniteSet(I) /\ Cardinality(I) <= n
  <2> DEFINE f == [i \in 1..n |-> l.tabs[i].id]
  <2>1. IsFiniteSet(1..n) /\ Cardinality(1..n) = n
    <3>1. Cardinality(1..n) = IF 1 > n THEN 0 ELSE n - 1 + 1
      BY FS_Interval
    <3>2. CASE n = 0
      BY <3>1, <3>2, FS_Interval
    <3>3. CASE n # 0
      BY <3>1, <3>3, FS_Interval
    <3> QED BY <3>2, <3>3
  <2>2. f \in Surjection(1..n, I)
    BY <1>1 DEF Surjection
  <2>3. IsFiniteSet(I) /\ Cardinality(I) <= Cardinality(1..n)
    <3> HIDE DEF f, I
    <3> QED BY <2>1, <2>2, FS_Surjection
  <2> QED BY <2>1, <2>3
<1>3. ~(1..n + 1 \subseteq I)
  <2> SUFFICES ASSUME 1..n + 1 \subseteq I PROVE FALSE
    OBVIOUS
  <2>1. Cardinality(1..n + 1) <= Cardinality(I)
    BY <1>2, FS_Subset
  <2>2. Cardinality(1..n + 1) = n + 1
    BY FS_Interval
  <2>3. Cardinality(I) \in Nat
    BY <1>2, FS_CardinalityType
  <2> HIDE DEF I
  <2> QED BY <1>2, <2>1, <2>2, <2>3
<1>4. \E k \in 1..n + 1 : k \notin I /\ 1..k - 1 \subseteq I
  <2> SUFFICES ASSUME \A k \in 1..n + 1 : 1..k - 1 \subseteq I => k \in I PROVE FALSE
    OBVIOUS
  <2>1. 0 \in P
    OBVIOUS
  <2>2. ASSUME NEW k \in P PROVE k + 1 \in P
    <3>1. k \in Nat /\ k + 1 \in Nat
      OBVIOUS
    <3> SUFFICES ASSUME k + 1 <= n + 1 PROVE 1..k + 1 \subseteq I
      BY <3>1
    <3>2. 1..k \subseteq I
      OBVIOUS
    <3>3. k + 1 \in 1..n + 1 /\ (k + 1) - 1 = k
      BY <3>1
    <3> HIDE DEF I, P
    <3>4. k + 1 \in I
      BY <3>2, <3>3, Zenon
    <3>5. 1..k + 1 = 1..k \cup {k + 1}
      BY <3>1
    <3> QED BY <3>2, <3>4, <3>5
  <2>3. P = Nat
    <3>1. P \in SUBSET Nat
      OBVIOUS
    <3> HIDE DEF P
    <3> QED BY <2>1, <2>2, <3>1, Induction
  <2>4. n + 1 \in P
    <3>1. n + 1 \in Nat
      OBVIOUS
    <3> HIDE DEF P
    <3> QED BY <2>3, <3>1, Zenon
  <2> QED BY <1>3, <2>4
<1>5. NextTabId(l) = CHOOSE k \in 1..n + 1 : k \notin I /\ 1..k - 1 \subseteq I
  BY DEF NextTabId
<1>6. NextTabId(l) \in 1..n + 1 /\ NextTabId(l) \notin I
  <2> HIDE DEF I
  <2> QED BY <1>4, <1>5, Zenon
<1> QED BY <1>6

OKWith(m, l, A) == LayoutOK(m) /\ m.panes = l.panes \cup A

WithTab(l, t, A) == [tabs |-> Append(l.tabs, t), active |-> t.id, panes |-> l.panes \cup A]

Opens(l, t, A) == t.id \notin TabIds(l) /\ Shown(t) \subseteq A /\ A \cap l.panes = {}

(* One more tab, with a tree of its own panes, at the end of the strip.      *)
LEMMA AppendTab ==
  ASSUME NEW l, LayoutOK(l), NEW t \in Tabs, NEW A \in SUBSET Nat, Opens(l, t, A)
  PROVE  OKWith(WithTab(l, t, A), l, A)
<1>0. PICK m : m = WithTab(l, t, A)
  OBVIOUS
<1>1. l \in Layouts
  BY DEF LayoutOK
<1>2. PICK s \in Seq(Tabs) : s = l.tabs
  BY <1>1, LayoutIs
<1>3. PICK n \in Nat : n = Len(s) /\ DOMAIN s = 1..n
  OBVIOUS
<1>4. PICK r : r = Append(s, t)
  OBVIOUS
<1>5. /\ r \in Seq(Tabs) /\ DOMAIN r = 1..n + 1 /\ r[n + 1] = t /\ r # <<>>
      /\ \A i \in 1..n : r[i] = s[i]
  BY <1>3, <1>4, AppendProperties
<1>6. m.tabs = r /\ m.active = t.id /\ m.panes = l.panes \cup A
  BY <1>0, <1>2, <1>4 DEF WithTab
<1>7. t.id \in Nat /\ l.panes \subseteq Nat
  BY <1>1, LayoutIs, TabIs, ShapeIs
<1>8. m \in Layouts
  BY <1>0, <1>2, <1>4, <1>5, <1>7 DEF Layouts, WithTab
<1>9. \A i \in 1..n : s[i].id # t.id /\ Shown(s[i]) \cap Shown(t) = {} /\ Shown(s[i]) \subseteq l.panes
  <2> TAKE i \in 1..n
  <2>1. s[i].id # t.id
    BY <1>2, <1>3, Zenon DEF TabIds, Opens
  <2>2. Shown(s[i]) \subseteq l.panes
    BY <1>2, <1>3, Zenon DEF LayoutOK
  <2> QED BY <2>1, <2>2 DEF Opens
<1>10. AllApart(r)
  <2> SUFFICES ASSUME NEW i \in 1..n + 1, NEW j \in 1..n + 1, i # j PROVE Apart2(r[i], r[j])
    BY <1>5, Zenon DEF AllApart
  <2>1. CASE i \in 1..n /\ j \in 1..n
    <3>1. Apart2(s[i], s[j])
      BY <1>2, <1>3, <2>1, Zenon DEF LayoutOK, AllApart
    <3> QED BY <1>5, <2>1, <3>1, Zenon
  <2>2. CASE i \in 1..n /\ j = n + 1
    BY <1>5, <1>9, <2>2 DEF Apart2
  <2>3. CASE j \in 1..n /\ i = n + 1
    BY <1>5, <1>9, <2>3 DEF Apart2
  <2> QED BY <2>1, <2>2, <2>3
<1>11. \A i \in 1..n + 1 : Shown(r[i]) \subseteq m.panes
  <2> TAKE i \in 1..n + 1
  <2>1. CASE i \in 1..n
    BY <1>5, <1>6, <1>9, <2>1
  <2>2. CASE i = n + 1
    BY <1>5, <1>6, <2>2 DEF Opens
  <2> QED BY <2>1, <2>2
<1>12. n + 1 \in DOMAIN r /\ r[n + 1].id = m.active
  BY <1>5, <1>6
<1> QED BY <1>0, <1>5, <1>6, <1>8, <1>10, <1>11, <1>12, Zenon DEF LayoutOK, OKWith

(* The tabs as they were, with other ones of A in the active tab.            *)
Refits(l, tabs, A) ==
    /\ tabs \in Seq(Tabs) /\ DOMAIN tabs = DOMAIN l.tabs
    /\ \A i \in DOMAIN tabs :
          /\ tabs[i].id = l.tabs[i].id
          /\ l.tabs[i].id # l.active => Shown(tabs[i]) \subseteq Shown(l.tabs[i])
          /\ Shown(tabs[i]) \subseteq Shown(l.tabs[i]) \cup A

Refitted(l, tabs, active, A) == [tabs |-> tabs, active |-> active, panes |-> l.panes \cup A]

(* Tabs that keep their ids and take in new panes in one place make a sound  *)
(* layout.                                                                   *)
LEMMA RefitTabs ==
  ASSUME NEW l, LayoutOK(l), NEW tabs, NEW A \in SUBSET Nat, Refits(l, tabs, A), A \cap l.panes = {},
         NEW active \in Nat, tabs # <<>> => active \in TabIds(l)
  PROVE  OKWith(Refitted(l, tabs, active, A), l, A)
<1>0. PICK m : m = Refitted(l, tabs, active, A)
  OBVIOUS
<1>1. l \in Layouts
  BY DEF LayoutOK
<1>2. PICK s \in Seq(Tabs) : s = l.tabs
  BY <1>1, LayoutIs
<1>3. m.tabs = tabs /\ m.active = active /\ m.panes = l.panes \cup A
  BY <1>0 DEF Refitted
<1>4. tabs \in Seq(Tabs) /\ DOMAIN tabs = DOMAIN s
  BY <1>2, Zenon DEF Refits
<1>5. m \in Layouts
  <2>1. l.panes \subseteq Nat
    BY <1>1, LayoutIs
  <2> QED BY <1>0, <1>4, <2>1 DEF Layouts, Refitted
<1>6. \A i \in DOMAIN tabs : /\ tabs[i].id = s[i].id
                             /\ s[i].id # l.active => Shown(tabs[i]) \subseteq Shown(s[i])
                             /\ Shown(tabs[i]) \subseteq Shown(s[i]) \cup A
                             /\ Shown(s[i]) \subseteq l.panes
  BY <1>2, <1>4, Zenon DEF Refits, LayoutOK
<1>7. AllApart(tabs)
  <2> SUFFICES ASSUME NEW i \in DOMAIN tabs, NEW j \in DOMAIN tabs, i # j
               PROVE  Apart2(tabs[i], tabs[j])
    BY Zenon DEF AllApart
  <2>1. s[i].id # s[j].id /\ Shown(s[i]) \cap Shown(s[j]) = {}
    BY <1>2, <1>4, Zenon DEF LayoutOK, AllApart, Apart2
  <2>2. s[i].id # l.active \/ s[j].id # l.active
    BY <2>1
  <2> QED BY <1>6, <2>1, <2>2 DEF Apart2
<1>8. \A i \in DOMAIN tabs : Shown(tabs[i]) \subseteq m.panes
  BY <1>3, <1>6
<1>9. tabs # <<>> => \E i \in DOMAIN tabs : tabs[i].id = active
  BY <1>2, <1>4, <1>6, Zenon DEF TabIds
<1> QED BY <1>0, <1>3, <1>5, <1>7, <1>8, <1>9, Zenon DEF LayoutOK, OKWith

(* A tab for each tab.                                                       *)
LEMMA MapTabs ==
  ASSUME NEW s \in Seq(Tabs), NEW f, f = [i \in DOMAIN s |-> f[i]],
         \A i \in DOMAIN s : f[i] \in Tabs
  PROVE  f \in Seq(Tabs) /\ DOMAIN f = DOMAIN s
  OBVIOUS

(* A tab of one pane.                                                        *)
LEMMA LeafTab ==
  ASSUME NEW id \in Nat, NEW p \in Nat, p # None, NEW t,
         t = [id |-> id, root |-> <<Leaf(p)>>, focus |-> p, zoomed |-> None]
  PROVE  t \in Tabs /\ Shown(t) = {p} /\ t.id = id
<1>1. PICK u \in Proper : u = Leaf(p) /\ PaneSet(u) = {p}
  BY LeafProper, Zenon
<1>2. None \in Nat
  BY DEF None
<1>3. t = [id |-> id, root |-> <<u>>, focus |-> p, zoomed |-> None]
  BY <1>1, Zenon
<1>4. /\ t \in TabShapes /\ Shown(t) = PaneSet(u)
      /\ t.id = id /\ t.root = <<u>> /\ t.focus = p /\ t.zoomed = None
  BY <1>2, <1>3, NewShape
<1>5. p \in {p} /\ None \notin {p}
  OBVIOUS
<1> QED BY <1>1, <1>4, <1>5, Zenon DEF Tabs

(* A tab of which a pane was split.                                          *)
Divided(t, dir, p) ==
    [t EXCEPT !.root = <<SplitPane(t.root[1], t.focus, dir, p)>>, !.focus = p, !.zoomed = None]

TabAdds(x, t, p) == x \in Tabs /\ x.id = t.id /\ Shown(x) = Shown(t) \cup {p}

(* A split adds one pane to its tab.                                         *)
LEMMA DividedTab ==
  ASSUME NEW t \in Tabs, NEW dir \in Dirs, NEW p \in Nat, p # None, p \notin Shown(t)
  PROVE  TabAdds(Divided(t, dir, p), t, p)
<1>1. PICK u \in Proper : u = t.root[1]
  BY TabIs, ShapeIs
<1>2. t \in TabShapes /\ t.focus \in Shown(t) /\ None \notin Shown(t)
  BY TabIs
<1>3. Shown(t) = PaneSet(u)
  BY <1>1, Zenon DEF Shown
<1>4. PICK v \in Proper : v = SplitPane(u, t.focus, dir, p) /\ PaneSet(v) = PaneSet(u) \cup {p}
  <2>1. t.focus \in PaneSet(u) /\ p \notin PaneSet(u)
    BY <1>2, <1>3, Zenon
  <2>2. Adds(SplitPane(u, t.focus, dir, p), u, p)
    BY <2>1, SplitProper, Zenon
  <2> QED BY <2>2, Zenon DEF Adds
<1>5. PICK m : m = Divided(t, dir, p)
  OBVIOUS
<1>6. m = [t EXCEPT !.root = <<v>>, !.focus = p, !.zoomed = None]
  BY <1>1, <1>4, <1>5, Zenon DEF Divided
<1>7. t.id \in Nat /\ None \in Nat
  BY <1>2, ShapeIs DEF None
<1>8. m = [id |-> t.id, root |-> <<v>>, focus |-> p, zoomed |-> None]
  BY <1>2, <1>6 DEF TabShapes
<1>9. /\ m \in TabShapes /\ Shown(m) = PaneSet(v)
      /\ m.id = t.id /\ m.root = <<v>> /\ m.focus = p /\ m.zoomed = None
  BY <1>7, <1>8, NewShape
<1>10. p \in Shown(m) /\ None \notin Shown(m)
  BY <1>2, <1>3, <1>4, <1>9
<1> QED BY <1>3, <1>4, <1>5, <1>9, <1>10, Zenon DEF Tabs, TabAdds

(* A tab for a new pane.                                                     *)
LEMMA NewLeafTab ==
  ASSUME NEW l, LayoutOK(l), NEW p \in Nat, p # None, p \notin l.panes,
         NEW t, t = NewTab(l, <<Leaf(p)>>, p)
  PROVE  OKWith(WithTab(l, t, {p}), l, {p})
<1>1. l \in Layouts
  BY DEF LayoutOK
<1>2. PICK s \in Seq(Tabs) : s = l.tabs
  BY <1>1, LayoutIs
<1>3. PICK n \in Nat : n = Len(s) /\ DOMAIN s = 1..n
  OBVIOUS
<1>4. NextTabId(l) \in Nat /\ NextTabId(l) \notin TabIds(l)
  BY <1>2, <1>3, NextTabIdFree
<1>5. t \in Tabs /\ Shown(t) = {p} /\ t.id = NextTabId(l)
  BY <1>4, LeafTab DEF NewTab
<1>6. {p} \in SUBSET Nat /\ {p} \cap l.panes = {} /\ {p} \subseteq {p}
  OBVIOUS
<1>7. Opens(l, t, {p})
  BY <1>4, <1>5, <1>6, Zenon DEF Opens
<1> QED BY <1>5, <1>6, <1>7, AppendTab, Zenon

(* The tabs with the focused pane of the active one split.                   *)
DividedTabs(l, dir, p) ==
    [i \in DOMAIN l.tabs |-> IF l.tabs[i].id # l.active THEN l.tabs[i]
                             ELSE Divided(l.tabs[i], dir, p)]

(* A split in the active tab leaves the layout sound, with one pane more.    *)
LEMMA DivideOK ==
  ASSUME NEW l, LayoutOK(l), NEW dir \in Dirs, NEW p \in Nat, p # None, p \notin l.panes
  PROVE  OKWith(Refitted(l, DividedTabs(l, dir, p), l.active, {p}), l, {p})
<1>1. l \in Layouts
  BY DEF LayoutOK
<1>2. PICK s \in Seq(Tabs) : s = l.tabs
  BY <1>1, LayoutIs
<1>3. PICK f : f = DividedTabs(l, dir, p)
  OBVIOUS
<1>4. \A i \in DOMAIN s : s[i] \in Tabs /\ p \notin Shown(s[i])
  BY <1>1, <1>2, LayoutIs, Zenon DEF LayoutOK
<1>5. \A i \in DOMAIN s : f[i] = IF s[i].id # l.active THEN s[i] ELSE Divided(s[i], dir, p)
  BY <1>2, <1>3, Zenon DEF DividedTabs
<1>6. \A i \in DOMAIN s : /\ f[i] \in Tabs /\ f[i].id = s[i].id
                          /\ s[i].id # l.active => Shown(f[i]) \subseteq Shown(s[i])
                          /\ Shown(f[i]) \subseteq Shown(s[i]) \cup {p}
  <2> TAKE i \in DOMAIN s
  <2>1. CASE s[i].id # l.active
    BY <1>4, <1>5, <2>1
  <2>2. CASE s[i].id = l.active
    <3>1. f[i] = Divided(s[i], dir, p)
      BY <1>5, <2>2, Zenon
    <3>2. PICK x \in Tabs : x = s[i] /\ p \notin Shown(x)
      BY <1>4
    <3>3. TabAdds(Divided(x, dir, p), x, p)
      BY <3>2, DividedTab, Zenon
    <3> QED BY <2>2, <3>1, <3>2, <3>3, Zenon DEF TabAdds
  <2> QED BY <2>1, <2>2
<1>7. f \in Seq(Tabs) /\ DOMAIN f = DOMAIN s
  <2>1. f = [i \in DOMAIN s |-> f[i]]
    BY <1>2, <1>3, Zenon DEF DividedTabs
  <2> QED BY <1>6, <2>1, MapTabs, Zenon
<1>8. Refits(l, f, {p})
  BY <1>2, <1>6, <1>7, Zenon DEF Refits
<1>9. {p} \in SUBSET Nat /\ {p} \cap l.panes = {}
  OBVIOUS
<1>10. l.active \in Nat
  BY <1>1, LayoutIs
<1>11. f # <<>> => l.active \in TabIds(l)
  <2> HAVE f # <<>>
  <2>1. 1 \in DOMAIN f
    BY <1>7, Filled
  <2>2. DOMAIN <<>> = {}
    OBVIOUS
  <2>3. l.tabs # <<>>
    BY <1>2, <1>7, <2>1, <2>2, Zenon
  <2> QED BY <2>3, Zenon DEF LayoutOK, TabIds
<1> QED BY <1>3, <1>8, <1>9, <1>10, <1>11, RefitTabs, Zenon

(* A new pane goes into the active tab, or into a tab of its own.            *)
LEMMA AddPaneOK ==
  ASSUME NEW l, LayoutOK(l), NEW p \in Nat, p # None, p \notin l.panes
  PROVE  OKWith(AddPane(l, p), l, {p})
<1>1. l \in Layouts
  BY DEF LayoutOK
<1>2. PICK s \in Seq(Tabs) : s = l.tabs
  BY <1>1, LayoutIs
<1>3. PICK m : m = AddPane(l, p)
  OBVIOUS
<1>4. PICK t : t = NewTab(l, <<Leaf(p)>>, p)
  OBVIOUS
<1>5. CASE ActiveAt(l) = {}
  <2>1. m = [[l EXCEPT !.tabs = Append(l.tabs, t), !.active = t.id]
                EXCEPT !.panes = [l EXCEPT !.tabs = Append(l.tabs, t), !.active = t.id].panes \cup {p}]
    BY <1>3, <1>4, <1>5, Zenon DEF AddPane
  <2>2. m = WithTab(l, t, {p})
    BY <1>1, <2>1 DEF Layouts, WithTab
  <2> QED BY <1>3, <1>4, <2>2, NewLeafTab, Zenon
<1>6. CASE ActiveAt(l) # {}
  <2>1. \A i \in DOMAIN s : s[i].root # <<>>
    BY <1>1, <1>2, LayoutIs, ShapeIs, Zenon
  <2>2. [i \in DOMAIN l.tabs |->
            IF l.tabs[i].id # l.active THEN l.tabs[i]
            ELSE IF l.tabs[i].root = <<>>
                 THEN [l.tabs[i] EXCEPT !.root = <<Leaf(p)>>, !.focus = p]
                 ELSE [l.tabs[i] EXCEPT
                         !.root = <<SplitPane(l.tabs[i].root[1], l.tabs[i].focus, "row", p)>>,
                         !.focus = p, !.zoomed = None]] = DividedTabs(l, "row", p)
    BY <1>2, <2>1, Zenon DEF Divided, DividedTabs
  <2>3. PICK placed : placed = [l EXCEPT !.tabs = DividedTabs(l, "row", p)]
    OBVIOUS
  <2>4. m = [placed EXCEPT !.panes = placed.panes \cup {p}]
    BY <1>3, <1>6, <2>2, <2>3, Zenon DEF AddPane, EachTab
  <2>5. m = Refitted(l, DividedTabs(l, "row", p), l.active, {p})
    BY <1>1, <2>3, <2>4 DEF Layouts, Refitted
  <2>6. "row" \in Dirs
    BY Zenon DEF Dirs
  <2> QED BY <1>3, <2>5, <2>6, DivideOK, Zenon
<1> QED BY <1>5, <1>6

(* A split of the focused pane.                                              *)
LEMMA SplitFocusedOK ==
  ASSUME NEW l, LayoutOK(l), NEW dir \in Dirs, NEW p \in Nat, p # None, p \notin l.panes
  PROVE  OKWith(SplitFocusedPane(l, dir, p), l, {p})
<1>1. l \in Layouts
  BY DEF LayoutOK
<1>2. PICK m : m = SplitFocusedPane(l, dir, p)
  OBVIOUS
<1>3. \A i \in DOMAIN l.tabs : l.tabs[i].root # <<>> /\ l.tabs[i].focus # None
  BY <1>1, LayoutIs, TabIs, ShapeIs, Zenon
<1>4. [i \in DOMAIN l.tabs |->
          IF l.tabs[i].id # l.active THEN l.tabs[i]
          ELSE IF l.tabs[i].root = <<>> \/ l.tabs[i].focus = None
               THEN [l.tabs[i] EXCEPT !.root = <<Leaf(p)>>, !.focus = p]
               ELSE [l.tabs[i] EXCEPT
                       !.root = <<SplitPane(l.tabs[i].root[1], l.tabs[i].focus, dir, p)>>,
                       !.focus = p, !.zoomed = None]] = DividedTabs(l, dir, p)
  BY <1>3, Zenon DEF Divided, DividedTabs
<1>5. PICK placed : placed = [l EXCEPT !.tabs = DividedTabs(l, dir, p)]
  OBVIOUS
<1>6. m = [placed EXCEPT !.panes = placed.panes \cup {p}]
  BY <1>2, <1>4, <1>5, Zenon DEF SplitFocusedPane, EachTab
<1>7. m = Refitted(l, DividedTabs(l, dir, p), l.active, {p})
  BY <1>1, <1>5, <1>6 DEF Layouts, Refitted
<1> QED BY <1>2, <1>7, DivideOK, Zenon

(* The first pane of an empty layout.                                        *)
LEMMA FirstPaneOK ==
  ASSUME NEW l, LayoutOK(l), l.tabs = <<>>, l.panes = {}, NEW p \in Nat, p # None
  PROVE  OKWith(EnsureFirstPane(l, p), l, {p})
<1>1. PICK t : t = NewTab(l, <<Leaf(p)>>, p)
  OBVIOUS
<1>2. EnsureFirstPane(l, p) = [tabs |-> <<t>>, active |-> t.id, panes |-> {p}]
  BY <1>1, Zenon DEF EnsureFirstPane
<1>3. Append(<<>>, t) = <<t>> /\ {} \cup {p} = {p} /\ p \notin {}
  OBVIOUS
<1>4. EnsureFirstPane(l, p) = WithTab(l, t, {p})
  BY <1>2, <1>3, Zenon DEF WithTab
<1>5. p \notin l.panes
  OBVIOUS
<1> QED BY <1>1, <1>4, <1>5, NewLeafTab, Zenon

(* A new pane in a tab just opened for it.                                   *)
LEMMA AddInTabOK ==
  ASSUME NEW l, LayoutOK(l), NEW p \in Nat, p # None, p \notin l.panes
  PROVE  OKWith(AddPane(AddTab(l), p), l, {p})
<1>1. l \in Layouts
  BY DEF LayoutOK
<1>2. PICK s \in Seq(Tabs) : s = l.tabs
  BY <1>1, LayoutIs
<1>3. PICK n \in Nat : n = Len(s) /\ DOMAIN s = 1..n
  OBVIOUS
<1>4. PICK id \in Nat : id = NextTabId(l) /\ id \notin TabIds(l)
  BY <1>2, <1>3, NextTabIdFree
<1>5. PICK b : b = [id |-> id, root |-> <<>>, focus |-> None, zoomed |-> None]
  OBVIOUS
<1>6. PICK t : t = NewTab(l, <<Leaf(p)>>, p)
  OBVIOUS
<1>7. /\ b.id = id /\ b.root = <<>> /\ t.id = id
      /\ [b EXCEPT !.root = <<Leaf(p)>>, !.focus = p] = t
  <2>1. PICK x : x = <<Leaf(p)>>
    OBVIOUS
  <2>2. t = [id |-> id, root |-> x, focus |-> p, zoomed |-> None]
    BY <1>4, <1>6, <2>1, Zenon DEF NewTab
  <2>3. [b EXCEPT !.root = x, !.focus = p] = t
    <3>1. PICK R : x \in R /\ <<>> \in R
      <4>1. x \in {x, <<>>} /\ <<>> \in {x, <<>>}
        OBVIOUS
      <4> QED BY <4>1, Zenon
    <3>2. b \in [id : Nat, root : R, focus : Nat, zoomed : Nat]
      BY <1>5, <3>1 DEF None
    <3>3. [b EXCEPT !.root = x, !.focus = p] = [id |-> b.id, root |-> x, focus |-> p, zoomed |-> b.zoomed]
      <4>1. PICK q : q = [b EXCEPT !.root = x, !.focus = p]
        OBVIOUS
      <4>2. q \in [id : Nat, root : R, focus : Nat, zoomed : Nat]
        BY <3>1, <3>2, <4>1
      <4>3. q.id = b.id /\ q.root = x /\ q.focus = p /\ q.zoomed = b.zoomed
        BY <3>2, <4>1
      <4>4. q = [id |-> q.id, root |-> q.root, focus |-> q.focus, zoomed |-> q.zoomed]
        BY <4>2
      <4> QED BY <4>1, <4>3, <4>4, Zenon
    <3>4. b.id = id /\ b.zoomed = None
      BY <1>5
    <3> QED BY <2>2, <3>3, <3>4, Zenon
  <2>4. b.id = id /\ b.root = <<>> /\ t.id = id
    BY <1>5, <2>2
  <2> QED BY <2>1, <2>3, <2>4, Zenon
<1>8. PICK a : a = AddTab(l)
  OBVIOUS
<1>9. a = [l EXCEPT !.tabs = Append(l.tabs, b), !.active = b.id]
  BY <1>4, <1>5, <1>8, Zenon DEF AddTab, NewTab
<1>10. PICK r : r = Append(s, b)
  OBVIOUS
<1>11. a = [tabs |-> r, active |-> id, panes |-> l.panes]
  BY <1>1, <1>2, <1>7, <1>9, <1>10 DEF Layouts
<1>12. a.tabs = r /\ a.active = id /\ a.panes = l.panes
  BY <1>11
<1>13. DOMAIN r = 1..n + 1 /\ r[n + 1] = b /\ \A i \in 1..n : r[i] = s[i]
  <2>1. PICK S : s \in Seq(S) /\ b \in S
    <3>1. s \in Seq(Tabs \cup {b})
      BY SeqGrows
    <3> QED BY <3>1
  <2> QED BY <1>3, <1>10, <2>1, AppendProperties
<1>14. n + 1 \in ActiveAt(a)
  BY <1>7, <1>12, <1>13 DEF ActiveAt
<1>15. \A i \in 1..n : s[i].id # id
  BY <1>2, <1>3, <1>4, Zenon DEF TabIds
<1>16. PICK f : f = [i \in DOMAIN r |->
                       IF r[i].id # id THEN r[i]
                       ELSE IF r[i].root = <<>>
                            THEN [r[i] EXCEPT !.root = <<Leaf(p)>>, !.focus = p]
                            ELSE [r[i] EXCEPT
                                    !.root = <<SplitPane(r[i].root[1], r[i].focus, "row", p)>>,
                                    !.focus = p, !.zoomed = None]]
  OBVIOUS
<1>17. \A i \in 1..n : f[i] = s[i]
  <2> TAKE i \in 1..n
  <2>1. r[i] = s[i] /\ r[i].id # id /\ i \in DOMAIN r
    BY <1>13, <1>15
  <2> QED BY <1>16, <2>1, Zenon
<1>18. f[n + 1] = t
  <2>1. r[n + 1] = b /\ n + 1 \in DOMAIN r
    BY <1>13
  <2>2. f[n + 1] = [b EXCEPT !.root = <<Leaf(p)>>, !.focus = p]
    BY <1>7, <1>16, <2>1, Zenon
  <2> QED BY <1>7, <2>2
<1>19. f = Append(s, t)
  <2>1. PICK S : s \in Seq(S) /\ t \in S
    <3>1. s \in Seq(Tabs \cup {t})
      BY SeqGrows
    <3> QED BY <3>1
  <2>2. PICK g : g = Append(s, t)
    OBVIOUS
  <2>3. /\ g \in Seq(S) /\ Len(g) = Len(s) + 1 /\ g[Len(s) + 1] = t
        /\ \A i \in 1..Len(s) : g[i] = s[i]
    BY <2>1, <2>2, AppendProperties
  <2>4. /\ DOMAIN g = 1..n + 1 /\ g[n + 1] = t /\ \A i \in 1..n : g[i] = s[i]
        /\ g = [i \in 1..n + 1 |-> g[i]]
    BY <1>3, <2>3
  <2>5. f = [i \in 1..n + 1 |-> f[i]]
    BY <1>13, <1>16, Zenon
  <2>6. \A i \in 1..n + 1 : f[i] = g[i]
    <3> TAKE i \in 1..n + 1
    <3>1. i \in 1..n \/ i = n + 1
      OBVIOUS
    <3> QED BY <1>17, <1>18, <2>4, <3>1, Zenon
  <2>7. f = g
    BY <2>4, <2>5, <2>6, Zenon
  <2> QED BY <2>2, <2>7
<1>20. PICK placed : placed = [a EXCEPT !.tabs = f]
  OBVIOUS
<1>21. AddPane(a, p) = [placed EXCEPT !.panes = placed.panes \cup {p}]
  BY <1>12, <1>14, <1>16, <1>20, Zenon DEF AddPane, EachTab
<1>22. AddPane(a, p) = WithTab(l, t, {p})
  BY <1>2, <1>7, <1>11, <1>19, <1>20, <1>21 DEF WithTab
<1> QED BY <1>6, <1>8, <1>22, NewLeafTab, Zenon

(* A tab that is still itself, with no pane it did not have.                 *)
TabKeeps(x, t) == x \in Tabs /\ x.id = t.id /\ Shown(x) \subseteq Shown(t)

(* Tabs that are still themselves make a sound layout.                       *)
LEMMA KeepTabs ==
  ASSUME NEW l, LayoutOK(l), NEW f, f = [i \in DOMAIN l.tabs |-> f[i]],
         \A i \in DOMAIN l.tabs : TabKeeps(f[i], l.tabs[i]),
         NEW active \in Nat, l.tabs # <<>> => active \in TabIds(l)
  PROVE  OKWith(Refitted(l, f, active, {}), l, {})
<1>1. l \in Layouts
  BY DEF LayoutOK
<1>2. PICK s \in Seq(Tabs) : s = l.tabs
  BY <1>1, LayoutIs
<1>3. f \in Seq(Tabs) /\ DOMAIN f = DOMAIN s
  BY <1>2, MapTabs, Zenon DEF TabKeeps
<1>4. \A i \in DOMAIN f : /\ f[i].id = s[i].id
                          /\ s[i].id # l.active => Shown(f[i]) \subseteq Shown(s[i])
                          /\ Shown(f[i]) \subseteq Shown(s[i]) \cup {}
  <2> TAKE i \in DOMAIN f
  <2>1. TabKeeps(f[i], s[i])
    BY <1>2, <1>3, Zenon
  <2> QED BY <2>1 DEF TabKeeps
<1>5. Refits(l, f, {})
  BY <1>2, <1>3, <1>4, Zenon DEF Refits
<1>6. f # <<>> => active \in TabIds(l)
  <2>1. f # <<>> => 1 \in DOMAIN f
    BY <1>3, Filled
  <2>2. DOMAIN <<>> = {}
    OBVIOUS
  <2> QED BY <1>2, <1>3, <2>1, <2>2, Zenon
<1>7. {} \in SUBSET Nat /\ {} \cap l.panes = {}
  OBVIOUS
<1> QED BY <1>5, <1>6, <1>7, RefitTabs, Zenon

(* A tab with another tree of the same panes is still itself.                *)
LEMMA Reshaped ==
  ASSUME NEW t \in Tabs, NEW root \in Roots, NEW focus \in Nat, NEW zoomed \in Nat, NEW x,
         x = [id |-> t.id, root |-> root, focus |-> focus, zoomed |-> zoomed],
         PaneSet(root[1]) = Shown(t), focus \in Shown(t), zoomed # None => zoomed \in Shown(t)
  PROVE  TabKeeps(x, t)
<1>1. t \in TabShapes /\ None \notin Shown(t)
  BY TabIs
<1>2. t.id \in Nat
  BY <1>1, ShapeIs
<1>3. x \in TabShapes /\ x.id = t.id /\ x.root = root /\ x.focus = focus /\ x.zoomed = zoomed
  BY <1>2 DEF TabShapes
<1>4. Shown(x) = Shown(t)
  BY <1>3, Zenon DEF Shown
<1> QED BY <1>1, <1>3, <1>4, Zenon DEF Tabs, TabKeeps

(* So is one untouched, ...                                                  *)
LEMMA SameTab == \A t \in Tabs : TabKeeps(t, t)
  BY Zenon DEF TabKeeps

(* ... one with another focus, ...                                           *)
LEMMA FocusTab ==
  ASSUME NEW t \in Tabs, NEW p \in Shown(t) PROVE TabKeeps([t EXCEPT !.focus = p], t)
<1>1. t \in TabShapes /\ (t.zoomed # None => t.zoomed \in Shown(t))
  BY TabIs
<1>2. t.root \in Roots /\ t.zoomed \in Nat /\ p \in Nat
  BY <1>1, ShapeIs
<1>3. [t EXCEPT !.focus = p] = [id |-> t.id, root |-> t.root, focus |-> p, zoomed |-> t.zoomed]
  BY <1>1 DEF TabShapes
<1>4. PaneSet(t.root[1]) = Shown(t)
  BY Zenon DEF Shown
<1> QED BY <1>1, <1>2, <1>3, <1>4, Reshaped, Zenon

(* ... one zoomed or not, ...                                                *)
LEMMA ZoomTab ==
  ASSUME NEW t \in Tabs, NEW z, z = None \/ z \in Shown(t) PROVE TabKeeps([t EXCEPT !.zoomed = z], t)
<1>1. t \in TabShapes /\ t.focus \in Shown(t)
  BY TabIs
<1>2. t.root \in Roots /\ t.focus \in Nat /\ z \in Nat
  BY <1>1, ShapeIs DEF None
<1>3. [t EXCEPT !.zoomed = z] = [id |-> t.id, root |-> t.root, focus |-> t.focus, zoomed |-> z]
  BY <1>1 DEF TabShapes
<1>4. PaneSet(t.root[1]) = Shown(t)
  BY Zenon DEF Shown
<1>5. z # None => z \in Shown(t)
  OBVIOUS
<1> QED BY <1>1, <1>2, <1>3, <1>4, <1>5, Reshaped, Zenon

(* ... and one with two panes swapped.                                       *)
LEMMA SwapTab ==
  ASSUME NEW t \in Tabs
  PROVE  TabKeeps([t EXCEPT !.root =
            <<SwapPanes(t.root[1], t.focus, Beside(t.root[1], t.focus, TRUE))>>], t)
<1>1. t \in TabShapes /\ t.focus \in Shown(t) /\ (t.zoomed # None => t.zoomed \in Shown(t))
  BY TabIs
<1>2. t.focus \in Nat /\ t.zoomed \in Nat
  BY <1>1, ShapeIs
<1>3. PICK u \in Proper : u = t.root[1]
  BY <1>1, ShapeIs
<1>4. Shown(t) = PaneSet(u)
  BY <1>3, Zenon DEF Shown
<1>5. PICK q \in PaneSet(u) : q = Beside(u, t.focus, TRUE)
  <2>1. TRUE \in BOOLEAN /\ t.focus \in PaneSet(u)
    BY <1>1, <1>4
  <2>2. Beside(u, t.focus, TRUE) \in PaneSet(u)
    BY <2>1, BesideIn, Zenon
  <2> QED BY <2>2
<1>6. PICK v \in Proper : v = SwapPanes(u, t.focus, q) /\ PaneSet(v) = PaneSet(u)
  <2>1. t.focus \in PaneSet(u)
    BY <1>1, <1>4
  <2> QED BY <2>1, SwapProper
<1>7. PICK r \in Roots : r = <<v>>
  BY Zenon DEF Roots
<1>8. r[1] = v
  BY <1>7
<1>9. [t EXCEPT !.root = r] = [id |-> t.id, root |-> r, focus |-> t.focus, zoomed |-> t.zoomed]
  BY <1>1 DEF TabShapes
<1>10. PaneSet(r[1]) = Shown(t)
  BY <1>4, <1>6, <1>8
<1>11. TabKeeps([t EXCEPT !.root = r], t)
  BY <1>1, <1>2, <1>9, <1>10, Reshaped, Zenon
<1> QED BY <1>3, <1>5, <1>6, <1>7, <1>11, Zenon

(* Choosing a tab, ...                                                       *)
LEMMA SetActiveTabOK ==
  ASSUME NEW l, LayoutOK(l), NEW id \in TabIds(l) PROVE OKWith(SetActiveTab(l, id), l, {})
<1>1. l \in Layouts
  BY DEF LayoutOK
<1>2. l.tabs = [i \in DOMAIN l.tabs |-> l.tabs[i]]
  <2>1. PICK s \in Seq(Tabs) : s = l.tabs
    BY <1>1, LayoutIs
  <2>2. s = [i \in DOMAIN s |-> s[i]]
    OBVIOUS
  <2> QED BY <2>1, <2>2
<1>3. SetActiveTab(l, id) = Refitted(l, l.tabs, id, {})
  BY <1>1 DEF Layouts, SetActiveTab, Refitted
<1>4. \A i \in DOMAIN l.tabs : TabKeeps(l.tabs[i], l.tabs[i])
  BY <1>1, LayoutIs, SameTab, Zenon
<1>5. id \in Nat
  <2>1. PICK i \in DOMAIN l.tabs : l.tabs[i].id = id
    BY Zenon DEF TabIds
  <2> QED BY <1>1, <2>1, LayoutIs, ShapeIs, Zenon
<1> QED BY <1>2, <1>3, <1>4, <1>5, KeepTabs, Zenon

(* ... or a pane, ...                                                        *)
LEMMA SetActivePaneOK ==
  ASSUME NEW l, LayoutOK(l), NEW p PROVE OKWith(SetActivePane(l, p), l, {})
<1>1. l \in Layouts
  BY DEF LayoutOK
<1>2. PICK f : f = [i \in DOMAIN l.tabs |-> IF Shows(l.tabs[i], p) THEN [l.tabs[i] EXCEPT !.focus = p]
                                            ELSE l.tabs[i]]
  OBVIOUS
<1> DEFINE displayed == {i \in DOMAIN l.tabs : Shows(l.tabs[i], p)}
           first == CHOOSE i \in displayed : \A j \in displayed : i <= j
<1>5. PICK active : active = IF displayed = {} THEN l.active ELSE l.tabs[first].id
  <2> HIDE DEF displayed, first
  <2> QED BY Zenon
<1>6. PICK placed : placed = [l EXCEPT !.tabs = f]
  OBVIOUS
<1>7. SetActivePane(l, p) = [placed EXCEPT !.active = IF displayed = {} THEN placed.active ELSE l.tabs[first].id]
  <2> DEFINE fs == [i \in DOMAIN l.tabs |-> IF Shows(l.tabs[i], p) THEN [l.tabs[i] EXCEPT !.focus = p]
                                            ELSE l.tabs[i]]
             whole == [l EXCEPT !.tabs = fs]
  <2>1. SetActivePane(l, p) = [whole EXCEPT !.active = IF displayed = {} THEN whole.active ELSE l.tabs[first].id]
    BY DEF SetActivePane, EachTab
  <2>2. placed = whole
    BY <1>2, <1>6
  <2> HIDE DEF whole, fs, displayed, first
  <2> QED BY <2>1, <2>2
<1>3. \A i : i \in displayed <=> i \in DOMAIN l.tabs /\ Shows(l.tabs[i], p)
  OBVIOUS
<1>4. (\E i \in displayed : \A j \in displayed : i <= j) => first \in displayed
  <2> HIDE DEF displayed
  <2> QED OBVIOUS
<1> HIDE DEF displayed, first
<1>8. placed.active = l.active
  BY <1>1, <1>6 DEF Layouts
<1>9. SetActivePane(l, p) = [placed EXCEPT !.active = active]
  BY <1>5, <1>7, <1>8, Zenon
<1>10. SetActivePane(l, p) = Refitted(l, f, active, {})
  BY <1>1, <1>6, <1>9 DEF Layouts, Refitted
<1>11. \A i \in DOMAIN l.tabs : TabKeeps(f[i], l.tabs[i])
  <2> TAKE i \in DOMAIN l.tabs
  <2>1. PICK t \in Tabs : t = l.tabs[i] /\ t \in TabShapes
    BY <1>1, LayoutIs
  <2>2. CASE Shows(t, p)
    <3>1. p \in Shown(t)
      BY <2>1, <2>2, ShowsIs
    <3>2. f[i] = [t EXCEPT !.focus = p]
      BY <1>2, <2>1, <2>2, Zenon
    <3> QED BY <2>1, <3>1, <3>2, FocusTab, Zenon
  <2>3. CASE ~Shows(t, p)
    <3>1. f[i] = t
      BY <1>2, <2>1, <2>3, Zenon
    <3> QED BY <2>1, <3>1, SameTab, Zenon
  <2> QED BY <2>2, <2>3
<1>12. f = [i \in DOMAIN l.tabs |-> f[i]]
  BY <1>2, Zenon
<1>13. active \in Nat /\ (l.tabs # <<>> => active \in TabIds(l))
  <2>1. CASE displayed = {}
    <3>1. l.active \in Nat
      BY <1>1, LayoutIs
    <3> QED BY <1>5, <2>1, <3>1, Zenon DEF LayoutOK, TabIds
  <2>2. CASE displayed # {}
    <3>1. first \in displayed
      <4>1. PICK s \in Seq(Tabs) : s = l.tabs
        BY <1>1, LayoutIs
      <4>2. displayed \in SUBSET Nat
        BY <1>3, <4>1
      <4>3. Min(displayed) \in displayed /\ \A j \in displayed : Min(displayed) <= j
        BY <2>2, <4>2, MinIs
      <4> QED BY <1>4, <4>3, Zenon
    <3>2. first \in DOMAIN l.tabs
      BY <1>3, <3>1
    <3>3. l.tabs[first].id \in Nat
      BY <1>1, <3>2, LayoutIs, ShapeIs, Zenon
    <3> QED BY <1>5, <2>2, <3>2, <3>3, Zenon DEF TabIds
  <2> QED BY <2>1, <2>2
<1> QED BY <1>10, <1>11, <1>12, <1>13, KeepTabs, Zenon

(* The tabs, with one of those that keep its panes in the active one's place.*)
LEMMA ActiveKeeps ==
  ASSUME NEW l, LayoutOK(l), NEW f, f = [i \in DOMAIN l.tabs |-> f[i]],
         \A i \in DOMAIN l.tabs : f[i] = l.tabs[i] \/ TabKeeps(f[i], l.tabs[i]),
         NEW m, m = [l EXCEPT !.tabs = f]
  PROVE  OKWith(m, l, {})
<1>1. l \in Layouts
  BY DEF LayoutOK
<1>2. \A i \in DOMAIN l.tabs : TabKeeps(f[i], l.tabs[i])
  BY <1>1, LayoutIs, SameTab, Zenon
<1>3. m = Refitted(l, f, l.active, {})
  BY <1>1 DEF Layouts, Refitted
<1>4. l.active \in Nat /\ (l.tabs # <<>> => l.active \in TabIds(l))
  <2>1. l.active \in Nat
    BY <1>1, LayoutIs
  <2> QED BY <2>1, Zenon DEF LayoutOK, TabIds
<1>5. f = [i \in DOMAIN l.tabs |-> f[i]]
  OBVIOUS
<1>6. OKWith(Refitted(l, f, l.active, {}), l, {})
  BY <1>2, <1>4, <1>5, KeepTabs, Zenon
<1> QED BY <1>3, <1>6, Zenon

(* ... cycling through the panes, ...                                        *)
LEMMA FocusAdjacentOK ==
  ASSUME NEW l, LayoutOK(l), NEW forward \in BOOLEAN PROVE OKWith(FocusAdjacentPane(l, forward), l, {})
<1>1. l \in Layouts
  BY DEF LayoutOK
<1>2. PICK f : f = [i \in DOMAIN l.tabs |->
                      IF l.tabs[i].id = l.active /\ l.tabs[i].root # <<>> /\ l.tabs[i].focus # None
                      THEN [l.tabs[i] EXCEPT !.focus = Beside(l.tabs[i].root[1], l.tabs[i].focus, forward)]
                      ELSE l.tabs[i]]
  OBVIOUS
<1>3. FocusAdjacentPane(l, forward) = [l EXCEPT !.tabs = f]
  BY <1>2, Zenon DEF FocusAdjacentPane, OnFocused, EachTab
<1>4. \A i \in DOMAIN l.tabs : f[i] = l.tabs[i] \/ TabKeeps(f[i], l.tabs[i])
  <2> TAKE i \in DOMAIN l.tabs
  <2>1. PICK t \in Tabs : t = l.tabs[i] /\ t \in TabShapes /\ t.root[1] \in Proper /\ t.focus \in Shown(t)
    BY <1>1, LayoutIs, TabIs, ShapeIs
  <2>2. PICK p \in Shown(t) : p = Beside(t.root[1], t.focus, forward)
    <3>1. Beside(t.root[1], t.focus, forward) \in PaneSet(t.root[1])
      BY <2>1, BesideIn, Zenon DEF Shown
    <3> QED BY <3>1, Zenon DEF Shown
  <2>3. TabKeeps([t EXCEPT !.focus = p], t)
    BY FocusTab
  <2>4. f[i] = t \/ f[i] = [t EXCEPT !.focus = p]
    BY <1>2, <2>1, <2>2, Zenon
  <2> QED BY <2>1, <2>3, <2>4, Zenon
<1>5. f = [i \in DOMAIN l.tabs |-> f[i]]
  BY <1>2, Zenon
<1> QED BY <1>3, <1>4, <1>5, ActiveKeeps, Zenon

(* ... swapping the focused one with its neighbour ...                       *)
LEMMA SwapFocusedOK ==
  ASSUME NEW l, LayoutOK(l) PROVE OKWith(SwapFocusedPane(l), l, {})
<1>1. l \in Layouts
  BY DEF LayoutOK
<1>2. PICK f : f = [i \in DOMAIN l.tabs |->
                      IF l.tabs[i].id = l.active /\ l.tabs[i].root # <<>> /\ l.tabs[i].focus # None
                      THEN [l.tabs[i] EXCEPT !.root =
                              <<SwapPanes(l.tabs[i].root[1], l.tabs[i].focus,
                                          Beside(l.tabs[i].root[1], l.tabs[i].focus, TRUE))>>]
                      ELSE l.tabs[i]]
  OBVIOUS
<1>3. SwapFocusedPane(l) = [l EXCEPT !.tabs = f]
  BY <1>2, Zenon DEF SwapFocusedPane, OnFocused, EachTab
<1>4. \A i \in DOMAIN l.tabs : f[i] = l.tabs[i] \/ TabKeeps(f[i], l.tabs[i])
  <2> TAKE i \in DOMAIN l.tabs
  <2>1. l.tabs[i] \in Tabs
    BY <1>1, LayoutIs
  <2> QED BY <1>2, <2>1, SwapTab, Zenon
<1>5. f = [i \in DOMAIN l.tabs |-> f[i]]
  BY <1>2, Zenon
<1> QED BY <1>3, <1>4, <1>5, ActiveKeeps, Zenon

(* ... and zooming it.                                                       *)
LEMMA ToggleZoomOK ==
  ASSUME NEW l, LayoutOK(l) PROVE OKWith(ToggleZoom(l), l, {})
<1>1. l \in Layouts
  BY DEF LayoutOK
<1>2. PICK f : f = [i \in DOMAIN l.tabs |->
                      IF l.tabs[i].id # l.active THEN l.tabs[i]
                      ELSE [l.tabs[i] EXCEPT !.zoomed = IF l.tabs[i].zoomed # None THEN None
                                                        ELSE l.tabs[i].focus]]
  OBVIOUS
<1>3. ToggleZoom(l) = [l EXCEPT !.tabs = f]
  BY <1>2, Zenon DEF ToggleZoom, EachTab
<1>4. \A i \in DOMAIN l.tabs : f[i] = l.tabs[i] \/ TabKeeps(f[i], l.tabs[i])
  <2> TAKE i \in DOMAIN l.tabs
  <2>1. PICK t \in Tabs : t = l.tabs[i] /\ t.focus \in Shown(t)
    BY <1>1, LayoutIs, TabIs
  <2>2. PICK z : z = IF t.zoomed # None THEN None ELSE t.focus
    OBVIOUS
  <2>3. z = None \/ z \in Shown(t)
    BY <2>1, <2>2, Zenon
  <2>4. TabKeeps([t EXCEPT !.zoomed = z], t)
    BY <2>3, ZoomTab
  <2>5. f[i] = t \/ f[i] = [t EXCEPT !.zoomed = z]
    BY <1>2, <2>1, <2>2, Zenon
  <2> QED BY <2>1, <2>4, <2>5, Zenon
<1>5. f = [i \in DOMAIN l.tabs |-> f[i]]
  BY <1>2, Zenon
<1> QED BY <1>3, <1>4, <1>5, ActiveKeeps, Zenon

-----------------------------------------------------------------------------
(* Closing a pane, and with its last one a tab.                              *)

(* Tabs of which those that have a tree are as they should be.               *)
Partial(tabs, n) ==
    /\ DOMAIN tabs = 1..n
    /\ \A i \in 1..n : tabs[i].root # <<>> => tabs[i] \in Tabs
    /\ \A i, j \in 1..n : i # j /\ tabs[i].root # <<>> /\ tabs[j].root # <<>>
                             => Apart2(tabs[i], tabs[j])

Picks(kept, tabs, n) ==
    /\ kept \in Seq(Tabs) /\ AllApart(kept)
    /\ \A k \in DOMAIN kept : \E i \in 1..n : tabs[i].root # <<>> /\ kept[k] = tabs[i]
    /\ \A i \in 1..n : tabs[i].root # <<>> => \E k \in DOMAIN kept : kept[k] = tabs[i]

(* The tabs that have a tree, in order.                                      *)
LEMMA RootedPicks ==
  ASSUME NEW tabs, NEW n \in Nat, Partial(tabs, n)
  PROVE  Picks(Rooted(tabs), tabs, n)
<1>0. PICK T : T = Seq(Tabs)
  OBVIOUS
<1>1. PICK f : f = [i \in DOMAIN tabs |-> IF tabs[i].root = <<>> THEN <<>> ELSE <<tabs[i]>>]
  OBVIOUS
<1>2. DOMAIN f = 1..n /\ \A i \in 1..n : f[i] = IF tabs[i].root = <<>> THEN <<>> ELSE <<tabs[i]>>
  BY <1>1, Zenon DEF Partial
<1>3. PICK kept : kept = Rooted(tabs)
  OBVIOUS
<1>4. kept = FlattenSeq(f)
  BY <1>1, <1>3, Zenon DEF Rooted
<1>5. ToSet(<<>>) = {} /\ IsInjective(<<>>)
  BY DEF ToSet, IsInjective
<1>6. \A i \in 1..n : /\ f[i] \in T /\ IsInjective(f[i])
                      /\ tabs[i].root = <<>> => ToSet(f[i]) = {}
                      /\ tabs[i].root # <<>> => ToSet(f[i]) = {tabs[i]}
  <2> TAKE i \in 1..n
  <2>1. CASE tabs[i].root = <<>>
    <3>1. <<>> \in Seq(Tabs)
      OBVIOUS
    <3> QED BY <1>0, <1>2, <1>5, <2>1, <3>1, Zenon
  <2>2. CASE tabs[i].root # <<>>
    <3>1. PICK x \in Tabs : x = tabs[i]
      BY <2>2, Zenon DEF Partial
    <3>2. <<x>> \in Seq(Tabs)
      OBVIOUS
    <3>3. f[i] = <<x>>
      BY <1>2, <2>2, <3>1, Zenon
    <3> QED BY <1>0, <2>2, <3>1, <3>2, <3>3, SingleItems, Zenon
  <2> QED BY <2>1, <2>2
<1>7. f \in Seq(T)
  <2>1. f = [i \in 1..n |-> f[i]]
    BY <1>1, <1>2, Zenon
  <2> QED BY <1>6, <2>1
<1>8. kept \in Seq(Tabs)
  BY <1>0, <1>4, <1>7, FlattenTyped
<1>9. ToSet(kept) = Items(f) /\ (IsInjective(kept) <=> Apart(f))
  BY <1>0, <1>4, <1>7, FlattenItems
<1>10. Apart(f)
  <2>1. ASSUME NEW i \in 1..n, NEW j \in 1..n, i # j
        PROVE  ToSet(f[i]) \cap ToSet(f[j]) = {}
    <3>1. CASE tabs[i].root # <<>> /\ tabs[j].root # <<>>
      <4>1. tabs[i].id # tabs[j].id
        BY <2>1, <3>1, Zenon DEF Partial, Apart2
      <4>2. ToSet(f[i]) = {tabs[i]} /\ ToSet(f[j]) = {tabs[j]}
        BY <1>6, <3>1, Zenon
      <4>3. tabs[i] # tabs[j]
        BY <4>1, Zenon
      <4> QED BY <4>2, <4>3
    <3>2. CASE tabs[i].root = <<>> \/ tabs[j].root = <<>>
      <4>1. ToSet(f[i]) = {} \/ ToSet(f[j]) = {}
        BY <1>6, <3>2, Zenon
      <4> QED BY <4>1
    <3> QED BY <3>1, <3>2
  <2> QED BY <1>2, <1>6, <2>1, Zenon DEF Apart
<1>11. \A x : x \in ToSet(kept) <=> \E i \in 1..n : tabs[i].root # <<>> /\ x = tabs[i]
  <2>1. \A x : x \in ToSet(kept) <=> \E i \in 1..n : x \in ToSet(f[i])
    BY <1>2, <1>9, Zenon DEF Items
  <2>2. \A i \in 1..n : \A x : x \in ToSet(f[i]) <=> tabs[i].root # <<>> /\ x = tabs[i]
    BY <1>6
  <2> QED BY <2>1, <2>2, Zenon
<1>12. \A k \in DOMAIN kept : \E i \in 1..n : tabs[i].root # <<>> /\ kept[k] = tabs[i]
  <2> TAKE k \in DOMAIN kept
  <2>1. kept[k] \in ToSet(kept)
    BY Zenon DEF ToSet
  <2> QED BY <1>11, <2>1, Zenon
<1>13. \A i \in 1..n : tabs[i].root # <<>> => \E k \in DOMAIN kept : kept[k] = tabs[i]
  <2> TAKE i \in 1..n
  <2> HAVE tabs[i].root # <<>>
  <2>1. tabs[i] \in ToSet(kept)
    BY <1>11, Zenon
  <2> QED BY <2>1, Zenon DEF ToSet
<1>14. AllApart(kept)
  <2>1. IsInjective(kept)
    BY <1>9, <1>10
  <2> SUFFICES ASSUME NEW a \in DOMAIN kept, NEW b \in DOMAIN kept, a # b
               PROVE  Apart2(kept[a], kept[b])
    BY Zenon DEF AllApart
  <2>2. kept[a] # kept[b]
    BY <2>1, Zenon DEF IsInjective
  <2>3. PICK i \in 1..n : tabs[i].root # <<>> /\ kept[a] = tabs[i]
    BY <1>12, Zenon
  <2>4. PICK j \in 1..n : tabs[j].root # <<>> /\ kept[b] = tabs[j]
    BY <1>12, Zenon
  <2>5. i # j
    BY <2>2, <2>3, <2>4, Zenon
  <2> QED BY <2>3, <2>4, <2>5, Zenon DEF Partial
<1> QED BY <1>3, <1>8, <1>12, <1>13, <1>14, Zenon DEF Picks

(* A tab without a pane: without a tree when it showed no other.             *)
Without1(t, p) ==
    IF ~Shows(t, p) THEN t
    ELSE LET root == ClosePane(t.root[1], p)
         IN  [t EXCEPT !.root = root,
                       !.focus = IF @ # p THEN @
                                 ELSE IF root = <<>> THEN None
                                 ELSE ListPanes(root[1])[1],
                       !.zoomed = IF @ = p THEN None ELSE @]

Loses(x, t, p) ==
    x.id = t.id /\ (x.root # <<>> => x \in Tabs /\ Shown(x) = Shown(t) \ {p})

(* The first pane of a tree is one of its panes.                             *)
LEMMA FirstShown == ASSUME NEW t \in Proper PROVE ListPanes(t)[1] \in PaneSet(t)
<1>1. PICK all \in Seq(Nat) : all = ListPanes(t) /\ all # <<>>
  BY ProperIs
<1>2. 1 \in DOMAIN all
  BY <1>1, Filled
<1> QED BY <1>1, <1>2, Zenon DEF PaneSet, ToSet

(* A tab without a pane has lost that pane alone.                            *)
LEMMA WithoutLoses ==
  ASSUME NEW t \in Tabs, NEW p PROVE Loses(Without1(t, p), t, p)
<1>1. /\ t \in TabShapes /\ t.focus \in Shown(t) /\ None \notin Shown(t)
      /\ t.zoomed # None => t.zoomed \in Shown(t)
  BY TabIs
<1>2. Shows(t, p) <=> p \in Shown(t)
  BY <1>1, ShowsIs
<1>3. CASE ~Shows(t, p)
  <2>1. Without1(t, p) = t
    BY <1>3, Zenon DEF Without1
  <2>2. Shown(t) \ {p} = Shown(t)
    BY <1>2, <1>3
  <2> QED BY <2>1, <2>2, Zenon DEF Loses
<1>4. CASE Shows(t, p)
  <2>1. PICK u \in Proper : u = t.root[1]
    BY <1>1, ShapeIs
  <2>2. Shown(t) = PaneSet(u)
    BY <2>1, Zenon DEF Shown
  <2>3. PICK root : root = ClosePane(u, p)
    OBVIOUS
  <2>4. PICK focus : focus = IF t.focus # p THEN t.focus ELSE IF root = <<>> THEN None
                             ELSE ListPanes(root[1])[1]
    OBVIOUS
  <2>5. PICK zoomed : zoomed = IF t.zoomed = p THEN None ELSE t.zoomed
    OBVIOUS
  <2>6. Without1(t, p) = [t EXCEPT !.root = root, !.focus = focus, !.zoomed = zoomed]
    BY <1>4, <2>1, <2>3, <2>4, <2>5 DEF Without1
  <2>7. t.id \in Nat /\ None \in Nat /\ Shown(t) \subseteq Nat /\ t.zoomed \in Nat
    BY <1>1, ShapeIs DEF None
  <2>8. PICK x : x = [id |-> t.id, root |-> root, focus |-> focus, zoomed |-> zoomed]
    OBVIOUS
  <2>9. Without1(t, p) = x
    BY <1>1, <2>6, <2>8 DEF TabShapes
  <2>10. RootOf(root, PaneSet(u) \ {p})
    BY <2>3, CloseProper, Zenon
  <2>11. x.id = t.id /\ x.root = root
    BY <2>8
  <2>12. ASSUME root # <<>> PROVE x \in Tabs /\ Shown(x) = Shown(t) \ {p}
    <3>1. PICK v \in Proper : root = <<v>> /\ PaneSet(v) = PaneSet(u) \ {p}
      BY <2>10, <2>12, Zenon DEF RootOf
    <3>2. root[1] = v
      BY <3>1
    <3>3. focus \in PaneSet(v)
      <4>1. CASE t.focus # p
        BY <1>1, <2>2, <2>4, <3>1, <4>1
      <4>2. CASE t.focus = p
        <5>1. focus = ListPanes(v)[1]
          BY <2>4, <2>12, <3>2, <4>2
        <5> QED BY <5>1, FirstShown
      <4> QED BY <4>1, <4>2
    <3>4. zoomed # None => zoomed \in PaneSet(v)
      BY <1>1, <2>2, <2>5, <3>1
    <3>5. focus \in Nat /\ zoomed \in Nat
      BY <2>2, <2>5, <2>7, <3>1, <3>3
    <3>6. x = [id |-> t.id, root |-> <<v>>, focus |-> focus, zoomed |-> zoomed]
      BY <2>8, <3>1, Zenon
    <3>7. /\ x \in TabShapes /\ Shown(x) = PaneSet(v)
          /\ x.id = t.id /\ x.root = <<v>> /\ x.focus = focus /\ x.zoomed = zoomed
      BY <2>7, <3>5, <3>6, NewShape
    <3>8. None \notin PaneSet(v)
      BY <1>1, <2>2, <3>1
    <3> QED BY <2>2, <3>1, <3>3, <3>4, <3>7, <3>8, Zenon DEF Tabs
  <2> QED BY <2>9, <2>11, <2>12, Zenon DEF Loses
<1> QED BY <1>3, <1>4

(* Closing a pane leaves a sound layout without it, and closes its tab when  *)
(* it was the last of it.                                                    *)
LEMMA RemovePaneOK ==
  ASSUME NEW l, LayoutOK(l), NEW p
  PROVE  LayoutOK(RemovePane(l, p)) /\ RemovePane(l, p).panes = l.panes \ {p}
<1>1. l \in Layouts
  BY DEF LayoutOK
<1>2. PICK s \in Seq(Tabs) : s = l.tabs
  BY <1>1, LayoutIs
<1>3. PICK n \in Nat : n = Len(s) /\ DOMAIN s = 1..n
  OBVIOUS
<1>4. PICK tabs : tabs = [i \in DOMAIN s |-> Without1(s[i], p)]
  OBVIOUS
<1>5. DOMAIN tabs = 1..n /\ \A i \in 1..n : tabs[i] = Without1(s[i], p) /\ s[i] \in Tabs
  BY <1>3, <1>4
<1>6. \A i \in 1..n : Loses(tabs[i], s[i], p)
  BY <1>5, WithoutLoses, Zenon
<1>7. Partial(tabs, n)
  <2>1. \A i \in 1..n : tabs[i].root # <<>> => tabs[i] \in Tabs
    BY <1>6, Zenon DEF Loses
  <2>2. ASSUME NEW i \in 1..n, NEW j \in 1..n, i # j, tabs[i].root # <<>>, tabs[j].root # <<>>
        PROVE  Apart2(tabs[i], tabs[j])
    <3>1. s[i].id # s[j].id /\ Shown(s[i]) \cap Shown(s[j]) = {}
      BY <1>2, <1>3, <2>2, Zenon DEF LayoutOK, AllApart, Apart2
    <3>2. /\ tabs[i].id = s[i].id /\ Shown(tabs[i]) = Shown(s[i]) \ {p}
          /\ tabs[j].id = s[j].id /\ Shown(tabs[j]) = Shown(s[j]) \ {p}
      BY <1>6, <2>2, Zenon DEF Loses
    <3> QED BY <3>1, <3>2 DEF Apart2
  <2> QED BY <1>5, <2>1, <2>2, Zenon DEF Partial
<1>8. PICK kept : kept = Rooted(tabs)
  OBVIOUS
<1>9. Picks(kept, tabs, n)
  BY <1>7, <1>8, RootedPicks, Zenon
<1>10. kept \in Seq(Tabs) /\ AllApart(kept)
  BY <1>9, Zenon DEF Picks
<1>11. \A k \in DOMAIN kept : Shown(kept[k]) \subseteq l.panes \ {p}
  <2> TAKE k \in DOMAIN kept
  <2>1. PICK i \in 1..n : tabs[i].root # <<>> /\ kept[k] = tabs[i]
    BY <1>9, Zenon DEF Picks
  <2>2. Shown(tabs[i]) = Shown(s[i]) \ {p}
    BY <1>6, <2>1, Zenon DEF Loses
  <2>3. Shown(s[i]) \subseteq l.panes
    BY <1>2, <1>3, Zenon DEF LayoutOK
  <2> QED BY <2>1, <2>2, <2>3
<1>12. PICK active : active = IF \E i \in DOMAIN kept : kept[i].id = l.active THEN l.active
                              ELSE IF kept = <<>> THEN None ELSE kept[1].id
  OBVIOUS
<1>13. active \in Nat /\ (kept # <<>> => \E i \in DOMAIN kept : kept[i].id = active)
  <2>1. l.active \in Nat /\ None \in Nat
    BY <1>1, LayoutIs DEF None
  <2>2. CASE \E i \in DOMAIN kept : kept[i].id = l.active
    BY <1>12, <2>1, <2>2, Zenon
  <2>3. CASE ~(\E i \in DOMAIN kept : kept[i].id = l.active) /\ kept = <<>>
    BY <1>12, <2>1, <2>3, Zenon
  <2>4. CASE ~(\E i \in DOMAIN kept : kept[i].id = l.active) /\ kept # <<>>
    <3>1. 1 \in DOMAIN kept /\ kept[1] \in Tabs
      BY <1>10, <2>4, Filled
    <3>2. active = kept[1].id
      BY <1>12, <2>4, Zenon
    <3>3. kept[1].id \in Nat
      BY <3>1, TabIs, ShapeIs, Zenon
    <3> QED BY <3>1, <3>2, <3>3, Zenon
  <2> QED BY <2>2, <2>3, <2>4
<1>14. PICK there : there = l.panes \ {p}
  OBVIOUS
<1>15. PICK m : m = [tabs |-> kept, active |-> active, panes |-> there]
  OBVIOUS
<1>16. RemovePane(l, p) = m
  <2> DEFINE whole == EachTab(l, LAMBDA t : Without1(t, p))
  <2>1. whole = [l EXCEPT !.tabs = [i \in DOMAIN l.tabs |-> Without1(l.tabs[i], p)]]
    BY DEF EachTab
  <2>2. whole.tabs = tabs
    BY <1>1, <1>2, <1>4, <2>1 DEF Layouts
  <2>3. RemovePane(l, p) =
           [tabs   |-> Rooted(whole.tabs),
            active |-> IF \E i \in DOMAIN Rooted(whole.tabs) : Rooted(whole.tabs)[i].id = l.active
                       THEN l.active
                       ELSE IF Rooted(whole.tabs) = <<>> THEN None ELSE Rooted(whole.tabs)[1].id,
            panes  |-> l.panes \ {p}]
    BY DEF RemovePane, EachTab, Without1
  <2> HIDE DEF whole
  <2> QED BY <1>8, <1>12, <1>14, <1>15, <2>2, <2>3, Zenon
<1>17. m \in Layouts
  <2>1. there \in SUBSET Nat
    BY <1>1, <1>14, LayoutIs
  <2> QED BY <1>10, <1>13, <1>15, <2>1 DEF Layouts
<1>18. m.tabs = kept /\ m.active = active /\ m.panes = there
  BY <1>15
<1> QED BY <1>10, <1>11, <1>13, <1>14, <1>16, <1>17, <1>18, Zenon DEF LayoutOK

-----------------------------------------------------------------------------
(* Snapshots of a sound layout, and what is restored of them.                *)

(* Every tab of a sound layout has a tree.                                   *)
LEMMA RootedAll == ASSUME NEW s \in Seq(Tabs) PROVE Rooted(s) = s
<1>1. PICK f : f = [x \in Tabs |-> <<x>>]
  OBVIOUS
<1>2. PICK g : g = [x \in Tabs |-> x]
  OBVIOUS
<1>3. \A x \in Tabs : f[x] = <<x>> /\ g[x] = x
  BY <1>1, <1>2
<1>4. Maps(g, Tabs, Tabs) /\ Singly(f, g, Tabs)
  BY <1>3, Zenon DEF Maps, Singly
<1>5. Expand(f, s) = Each(g, s)
  <2>1. SameOn(f, g, Tabs)
    BY <1>4, ExpandSingles, Zenon
  <2> QED BY <2>1, Zenon DEF SameOn
<1>6. \A i \in DOMAIN s : s[i] \in Tabs /\ s[i].root # <<>>
  BY TabIs, ShapeIs
<1>7. Each(g, s) = s
  <2>1. Each(g, s) = [i \in DOMAIN s |-> s[i]]
    BY <1>3, <1>6 DEF Each
  <2>2. s = [i \in DOMAIN s |-> s[i]]
    OBVIOUS
  <2> QED BY <2>1, <2>2
<1>8. Each(f, s) = [i \in DOMAIN s |-> IF s[i].root = <<>> THEN <<>> ELSE <<s[i]>>]
  BY <1>3, <1>6, Zenon DEF Each
<1> QED BY <1>5, <1>7, <1>8, Zenon DEF Expand, Rooted

SavedTabs == {r \in [tree : Proper, focus : Nat] :
                 None \notin PaneSet(r.tree) /\ r.focus \in PaneSet(r.tree)}

TreesApart(tabs) ==
    \A i, j \in DOMAIN tabs : i # j => PaneSet(tabs[i].tree) \cap PaneSet(tabs[j].tree) = {}

(* A snapshot of a sound layout.                                             *)
SnapOK(snap) ==
    /\ snap \in [tabs : Seq(SavedTabs), at : Nat]
    /\ TreesApart(snap.tabs)
    /\ snap.tabs # <<>> => snap.at \in DOMAIN snap.tabs

SavedTab(t) == [tree |-> t.root[1], focus |-> t.focus]

SnapshotOf(l) == [tabs |-> [i \in DOMAIN l.tabs |-> SavedTab(l.tabs[i])],
                  at   |-> IF ActiveAt(l) = {} THEN 1 ELSE CHOOSE i \in ActiveAt(l) : TRUE]

(* Nothing is left out of a snapshot of one, and no focus is made up.        *)
LEMMA SnapshotIs == ASSUME NEW l, LayoutOK(l) PROVE BuildSnapshot(l) = SnapshotOf(l)
<1>1. l \in Layouts
  BY DEF LayoutOK
<1>2. PICK s \in Seq(Tabs) : s = l.tabs
  BY <1>1, LayoutIs
<1>3. Rooted(s) = s
  BY RootedAll
<1>4. \A i \in DOMAIN s : Shows(s[i], s[i].focus)
  <2> TAKE i \in DOMAIN s
  <2>1. PICK t \in Tabs : t = s[i] /\ t \in TabShapes /\ t.focus \in Shown(t)
    BY TabIs
  <2> QED BY <2>1, ShowsIs
<1>5. BuildSnapshot(l) =
        [tabs |-> [i \in DOMAIN Rooted(l.tabs) |->
                     [tree  |-> Rooted(l.tabs)[i].root[1],
                      focus |-> IF Shows(Rooted(l.tabs)[i], Rooted(l.tabs)[i].focus)
                                THEN Rooted(l.tabs)[i].focus
                                ELSE ListPanes(Rooted(l.tabs)[i].root[1])[1]]],
         at   |-> IF {i \in DOMAIN Rooted(l.tabs) : Rooted(l.tabs)[i].id = l.active} = {} THEN 1
                  ELSE CHOOSE i \in {i \in DOMAIN Rooted(l.tabs) : Rooted(l.tabs)[i].id = l.active} : TRUE]
  BY DEF BuildSnapshot
<1>6. BuildSnapshot(l) =
        [tabs |-> [i \in DOMAIN s |->
                     [tree  |-> s[i].root[1],
                      focus |-> IF Shows(s[i], s[i].focus) THEN s[i].focus
                                ELSE ListPanes(s[i].root[1])[1]]],
         at   |-> IF ActiveAt(l) = {} THEN 1 ELSE CHOOSE i \in ActiveAt(l) : TRUE]
  BY <1>2, <1>3, <1>5, Zenon DEF ActiveAt
<1>7. PICK a : a = [i \in DOMAIN s |->
                     [tree  |-> s[i].root[1],
                      focus |-> IF Shows(s[i], s[i].focus) THEN s[i].focus
                                ELSE ListPanes(s[i].root[1])[1]]]
  OBVIOUS
<1>8. a = [i \in DOMAIN s |-> SavedTab(s[i])]
  BY <1>4, <1>7, Zenon DEF SavedTab
<1> QED BY <1>2, <1>6, <1>7, <1>8, Zenon DEF SnapshotOf

(* What is saved of a tab is its tree and its focus.                         *)
LEMMA SavedTabOK ==
  ASSUME NEW t \in Tabs
  PROVE  SavedTab(t) \in SavedTabs /\ PaneSet(SavedTab(t).tree) = Shown(t)
<1>1. t \in TabShapes /\ t.focus \in Shown(t) /\ None \notin Shown(t)
  BY TabIs
<1>2. PICK u \in Proper : u = t.root[1]
  BY <1>1, ShapeIs
<1>3. t.focus \in Nat
  BY <1>1, ShapeIs
<1>4. PICK r : r = SavedTab(t)
  OBVIOUS
<1>5. r \in [tree : Proper, focus : Nat] /\ r.tree = u /\ r.focus = t.focus
  BY <1>2, <1>3, <1>4 DEF SavedTab
<1> QED BY <1>1, <1>2, <1>4, <1>5, Zenon DEF SavedTabs, Shown

(* A snapshot of a sound layout is one, of its panes.                        *)
LEMMA SnapshotOK ==
  ASSUME NEW l, LayoutOK(l)
  PROVE  /\ SnapOK(BuildSnapshot(l))
         /\ \A i \in DOMAIN BuildSnapshot(l).tabs :
               PaneSet(BuildSnapshot(l).tabs[i].tree) \subseteq l.panes
<1>1. l \in Layouts
  BY DEF LayoutOK
<1>2. PICK s \in Seq(Tabs) : s = l.tabs
  BY <1>1, LayoutIs
<1>3. PICK tabs : tabs = [i \in DOMAIN s |-> SavedTab(s[i])]
  OBVIOUS
<1>4. PICK at : at = IF ActiveAt(l) = {} THEN 1 ELSE CHOOSE i \in ActiveAt(l) : TRUE
  OBVIOUS
<1>5. PICK snap : snap = [tabs |-> tabs, at |-> at]
  OBVIOUS
<1>6. BuildSnapshot(l) = snap /\ snap.tabs = tabs /\ snap.at = at
  <2>1. BuildSnapshot(l) = snap
    BY <1>2, <1>3, <1>4, <1>5, SnapshotIs, Zenon DEF SnapshotOf
  <2> QED BY <1>5, <2>1
<1>7. \A i \in DOMAIN s : tabs[i] \in SavedTabs /\ PaneSet(tabs[i].tree) = Shown(s[i])
  <2> TAKE i \in DOMAIN s
  <2>1. PICK t \in Tabs : t = s[i]
    OBVIOUS
  <2>2. tabs[i] = SavedTab(t)
    BY <1>3, <2>1, Zenon
  <2> QED BY <2>1, <2>2, SavedTabOK
<1>8. tabs \in Seq(SavedTabs) /\ DOMAIN tabs = DOMAIN s
  <2>1. DOMAIN tabs = DOMAIN s /\ tabs = [i \in DOMAIN s |-> tabs[i]]
    BY <1>3, Zenon
  <2> QED BY <1>7, <2>1
<1>9. at \in Nat /\ (tabs # <<>> => at \in DOMAIN tabs)
  <2>1. DOMAIN s \subseteq Nat /\ 1 \in Nat
    OBVIOUS
  <2>2. ActiveAt(l) \subseteq DOMAIN s
    BY <1>2, Zenon DEF ActiveAt
  <2>3. CASE ActiveAt(l) = {}
    <3>1. tabs # <<>> => 1 \in DOMAIN tabs
      BY <1>8, Filled
    <3> QED BY <1>4, <2>1, <2>3, <3>1, Zenon
  <2>4. CASE ActiveAt(l) # {}
    <3>1. at \in ActiveAt(l)
      <4>1. at = CHOOSE i \in ActiveAt(l) : TRUE
        BY <1>4, <2>4, Zenon
      <4>2. \E i : i \in ActiveAt(l)
        BY <2>4
      <4> QED BY <4>1, <4>2, Zenon
    <3> QED BY <1>8, <2>1, <2>2, <3>1
  <2> QED BY <2>3, <2>4
<1>10. TreesApart(tabs)
  <2> SUFFICES ASSUME NEW i \in DOMAIN tabs, NEW j \in DOMAIN tabs, i # j
               PROVE  PaneSet(tabs[i].tree) \cap PaneSet(tabs[j].tree) = {}
    BY Zenon DEF TreesApart
  <2>1. Shown(s[i]) \cap Shown(s[j]) = {}
    BY <1>2, <1>8, Zenon DEF LayoutOK, AllApart, Apart2
  <2>2. PaneSet(tabs[i].tree) = Shown(s[i]) /\ PaneSet(tabs[j].tree) = Shown(s[j])
    BY <1>7, <1>8, Zenon
  <2> QED BY <2>1, <2>2, Zenon
<1>11. snap \in [tabs : Seq(SavedTabs), at : Nat]
  BY <1>5, <1>8, <1>9
<1>12. \A i \in DOMAIN tabs : PaneSet(tabs[i].tree) \subseteq l.panes
  BY <1>2, <1>7, <1>8, Zenon DEF LayoutOK
<1> QED BY <1>6, <1>9, <1>10, <1>11, <1>12, Zenon DEF SnapOK

SavedLists(snap) == [i \in DOMAIN snap.tabs |-> ListPanes(snap.tabs[i].tree)]

(* What is known of a saved tab.                                             *)
LEMMA SavedTabIs ==
  ASSUME NEW r \in SavedTabs
  PROVE  /\ r.tree \in Proper /\ r.focus \in Nat
         /\ None \notin PaneSet(r.tree) /\ r.focus \in PaneSet(r.tree)
  BY DEF SavedTabs

(* The panes of a snapshot's tabs, each once.                                *)
LEMMA SavedListsAre ==
  ASSUME NEW snap, SnapOK(snap)
  PROVE  /\ SavedLists(snap) \in Seq(Seq(Nat)) /\ DOMAIN SavedLists(snap) = DOMAIN snap.tabs
         /\ Apart(SavedLists(snap))
<1>1. PICK s \in Seq(SavedTabs) : s = snap.tabs
  BY DEF SnapOK
<1>2. PICK n \in Nat : DOMAIN s = 1..n
  OBVIOUS
<1>3. PICK T : T = Seq(Nat)
  OBVIOUS
<1>4. PICK lists : lists = SavedLists(snap)
  OBVIOUS
<1>5. /\ DOMAIN lists = 1..n /\ \A i \in 1..n : lists[i] = ListPanes(s[i].tree)
      /\ lists = [i \in 1..n |-> lists[i]]
  BY <1>1, <1>2, <1>4, Zenon DEF SavedLists
<1>6. \A i \in 1..n : lists[i] \in T /\ IsInjective(lists[i])
                      /\ ToSet(lists[i]) = PaneSet(s[i].tree)
  <2> TAKE i \in 1..n
  <2>1. s[i].tree \in Proper
    BY <1>2, SavedTabIs
  <2> QED BY <1>3, <1>5, <2>1, ProperIs, Zenon DEF PaneSet
<1>7. lists \in Seq(T)
  BY <1>5, <1>6
<1>8. Apart(lists)
  <2>1. \A i, j \in 1..n : i # j => ToSet(lists[i]) \cap ToSet(lists[j]) = {}
    BY <1>1, <1>2, <1>6, Zenon DEF SnapOK, TreesApart
  <2> QED BY <1>5, <1>6, <2>1, Zenon DEF Apart
<1> QED BY <1>1, <1>2, <1>3, <1>4, <1>5, <1>7, <1>8, Zenon

(* They are the panes of its trees.                                          *)
LEMMA SavedPanesAre ==
  ASSUME NEW snap, SnapOK(snap)
  PROVE  /\ SavedPanes(snap) \in Seq(Nat) /\ IsInjective(SavedPanes(snap))
         /\ \A p : p \in ToSet(SavedPanes(snap))
                      <=> \E i \in DOMAIN snap.tabs : p \in PaneSet(snap.tabs[i].tree)
<1>1. PICK lists \in Seq(Seq(Nat)) :
         /\ lists = SavedLists(snap) /\ DOMAIN lists = DOMAIN snap.tabs /\ Apart(lists)
  BY SavedListsAre
<1>2. SavedPanes(snap) = FlattenSeq(lists)
  BY <1>1, Zenon DEF SavedPanes, SavedLists
<1>3. /\ IsInjective(FlattenSeq(lists)) /\ ToSet(FlattenSeq(lists)) = Items(lists)
      /\ FlattenSeq(lists) \in Seq(Nat)
  BY <1>1, FlattenItems, FlattenTyped
<1>4. \A i \in DOMAIN snap.tabs : ToSet(lists[i]) = PaneSet(snap.tabs[i].tree)
  BY <1>1, Zenon DEF SavedLists, PaneSet
<1>5. \A p : p \in Items(lists) <=> \E i \in DOMAIN snap.tabs : p \in PaneSet(snap.tabs[i].tree)
  BY <1>1, <1>4, Zenon DEF Items
<1> QED BY <1>2, <1>3, <1>5, Zenon

(* A fresh pane for each saved one, numbered as the trees name them.         *)
Numbers(fresh, saved, base) ==
    /\ DOMAIN fresh = ToSet(saved)
    /\ \A n \in DOMAIN saved : fresh[saved[n]] = base + n
    /\ \A p \in DOMAIN fresh : \E n \in DOMAIN saved : p = saved[n]

(* Fresh panes are numbered so.                                              *)
LEMMA FreshNumbers ==
  ASSUME NEW snap, SnapOK(snap), NEW base \in Nat
  PROVE  Numbers(Fresh(snap, base), SavedPanes(snap), base)
<1> DEFINE saved == SavedPanes(snap)
<1>2. PICK fresh : fresh = Fresh(snap, base)
  OBVIOUS
<1>3. fresh = [p \in ToSet(saved) |-> base + CHOOSE i \in DOMAIN saved : saved[i] = p]
  BY <1>2, Zenon DEF Fresh
<1> HIDE DEF saved
<1>1. saved = SavedPanes(snap) /\ saved \in Seq(Nat) /\ IsInjective(saved)
  BY SavedPanesAre, Zenon DEF saved
<1>4. DOMAIN fresh = ToSet(saved)
  BY <1>3, Zenon
<1>5. ASSUME NEW n \in DOMAIN saved PROVE fresh[saved[n]] = base + n
  <2>1. saved[n] \in ToSet(saved)
    BY Zenon DEF ToSet
  <2>2. PICK k : k = CHOOSE i \in DOMAIN saved : saved[i] = saved[n]
    OBVIOUS
  <2>3. k \in DOMAIN saved /\ saved[k] = saved[n]
    BY <2>2, Zenon
  <2>4. k = n
    BY <1>1, <2>3, Zenon DEF IsInjective
  <2> QED BY <1>3, <2>1, <2>2, <2>4, Zenon
<1>6. \A p \in DOMAIN fresh : \E n \in DOMAIN saved : p = saved[n]
  BY <1>4, Zenon DEF ToSet
<1> QED BY <1>1, <1>2, <1>4, <1>5, <1>6, Zenon DEF Numbers

(* They are all new, and no two are the same.                                *)
LEMMA NumbersAre ==
  ASSUME NEW saved \in Seq(Nat), NEW base \in Nat, NEW fresh, Numbers(fresh, saved, base)
  PROVE  /\ \A p \in DOMAIN fresh : /\ fresh[p] \in Nat /\ fresh[p] > base
                                    /\ fresh[p] <= base + Len(saved)
         /\ \A p, q \in DOMAIN fresh : fresh[p] = fresh[q] => p = q
<1>1. PICK n \in Nat : n = Len(saved) /\ DOMAIN saved = 1..n
  OBVIOUS
<1>2. ASSUME NEW p \in DOMAIN fresh
      PROVE  fresh[p] \in Nat /\ fresh[p] > base /\ fresh[p] <= base + n
  <2>1. PICK k \in 1..n : p = saved[k]
    BY <1>1, Zenon DEF Numbers
  <2>2. fresh[p] = base + k
    BY <1>1, <2>1, Zenon DEF Numbers
  <2> QED BY <2>1, <2>2
<1>3. ASSUME NEW p \in DOMAIN fresh, NEW q \in DOMAIN fresh, fresh[p] = fresh[q] PROVE p = q
  <2>1. PICK j \in 1..n : p = saved[j]
    BY <1>1, Zenon DEF Numbers
  <2>2. PICK k \in 1..n : q = saved[k]
    BY <1>1, Zenon DEF Numbers
  <2>3. fresh[p] = base + j /\ fresh[q] = base + k
    BY <1>1, <2>1, <2>2, Zenon DEF Numbers
  <2>4. j = k
    BY <1>3, <2>1, <2>2, <2>3
  <2> QED BY <2>1, <2>2, <2>4
<1> QED BY <1>1, <1>2, <1>3

(* A sequence, item by item.                                                 *)
LEMMA SeqBuilt ==
  ASSUME NEW S, NEW n \in Nat, NEW h, h = [i \in 1..n |-> h[i]], \A i \in 1..n : h[i] \in S
  PROVE  h \in Seq(S)
  OBVIOUS

(* A tab restored from a saved one.                                          *)
RestoredTab(i, r, fresh) ==
    [id |-> i, root |-> Deserialise(r.tree, fresh), focus |-> fresh[r.focus], zoomed |-> None]

Restores(t, i, r, fresh) ==
    /\ t \in Tabs /\ t.id = i
    /\ ListPanes(t.root[1]) = Each(fresh, ListPanes(r.tree))
    /\ Shown(t) = {fresh[p] : p \in PaneSet(r.tree)}

(* Fresh panes: positive, and no two the same.                               *)
Renames(fresh) ==
    /\ \A p \in DOMAIN fresh : fresh[p] \in Nat /\ fresh[p] # None
    /\ \A p, q \in DOMAIN fresh : fresh[p] = fresh[q] => p = q

(* A restored tab is one of a sound layout, with the panes renamed.          *)
LEMMA RestoredTabIs ==
  ASSUME NEW i \in Nat, NEW r \in SavedTabs, NEW fresh, Renames(fresh), PaneSet(r.tree) \subseteq DOMAIN fresh
  PROVE  Restores(RestoredTab(i, r, fresh), i, r, fresh)
<1>1. PICK t \in Proper : t = r.tree
  BY SavedTabIs
<1>2. r.focus \in PaneSet(t) /\ None \notin PaneSet(t)
  BY <1>1, SavedTabIs
<1>3. PICK u \in Proper : Deserialise(t, fresh) = <<u>> /\ ListPanes(u) = Each(fresh, ListPanes(t))
  <2>1. PaneSet(t) \subseteq DOMAIN fresh
    BY <1>1
  <2> QED BY <2>1, RestoreProper, Zenon DEF Renames
<1>4. PICK s \in Seq(Nat) : s = ListPanes(t)
  BY ProperIs
<1>5. PaneSet(u) = {fresh[p] : p \in PaneSet(t)}
  <2>1. \A k \in DOMAIN s : s[k] \in PaneSet(t)
    BY <1>4, Zenon DEF PaneSet, ToSet
  <2>2. ListPanes(u) = [k \in DOMAIN s |-> fresh[s[k]]]
    BY <1>3, <1>4, Zenon DEF Each
  <2>3. \A x : x \in PaneSet(u) <=> \E k \in DOMAIN s : x = fresh[s[k]]
    BY <2>2, Zenon DEF PaneSet, ToSet
  <2>4. \A p \in PaneSet(t) : \E k \in DOMAIN s : p = s[k]
    BY <1>4, Zenon DEF PaneSet, ToSet
  <2> QED BY <2>1, <2>3, <2>4, Zenon
<1>6. PICK f \in Nat : f = fresh[r.focus]
  BY <1>1, <1>2 DEF Renames
<1>7. f \in PaneSet(u)
  BY <1>2, <1>5, <1>6, Zenon
<1>8. None \notin PaneSet(u)
  BY <1>1, <1>5, Zenon DEF Renames
<1>9. PICK x : x = RestoredTab(i, r, fresh)
  OBVIOUS
<1>10. x = [id |-> i, root |-> <<u>>, focus |-> f, zoomed |-> None]
  BY <1>1, <1>3, <1>6, <1>9, Zenon DEF RestoredTab
<1>11. None \in Nat
  BY DEF None
<1>12. /\ x \in TabShapes /\ Shown(x) = PaneSet(u)
       /\ x.id = i /\ x.root = <<u>> /\ x.focus = f /\ x.zoomed = None
  BY <1>10, <1>11, NewShape
<1>13. x \in Tabs
  BY <1>7, <1>8, <1>12, Zenon DEF Tabs
<1>14. x.root[1] = u
  BY <1>12
<1> QED BY <1>1, <1>3, <1>5, <1>9, <1>12, <1>13, <1>14, Zenon DEF Restores

(* The layout restored from a snapshot is sound and shows the fresh panes,   *)
(* in the order they were made.                                              *)
LEMMA PlanOK ==
  ASSUME NEW snap, SnapOK(snap), NEW fresh, Renames(fresh), DOMAIN fresh = ToSet(SavedPanes(snap))
  PROVE  /\ LayoutOK(PlanRestore(snap, fresh))
         /\ PlanRestore(snap, fresh).panes = {fresh[p] : p \in DOMAIN fresh}
         /\ AllPanes(PlanRestore(snap, fresh)) = Each(fresh, SavedPanes(snap))
<1>1. PICK s \in Seq(SavedTabs) : s = snap.tabs
  BY DEF SnapOK
<1>2. PICK n \in Nat : DOMAIN s = 1..n
  OBVIOUS
<1>3. PICK tabs : tabs = [i \in DOMAIN snap.tabs |-> RestoredTab(i, snap.tabs[i], fresh)]
  OBVIOUS
<1>4. PICK there : there = {fresh[p] : p \in DOMAIN fresh}
  OBVIOUS
<1>5. PICK plan : plan = [tabs |-> tabs, active |-> snap.at, panes |-> there]
  OBVIOUS
<1>6. PlanRestore(snap, fresh) = plan
  BY <1>3, <1>4, <1>5, Zenon DEF PlanRestore, RestoredTab
<1>7. plan.tabs = tabs /\ plan.active = snap.at /\ plan.panes = there
  BY <1>5
<1>8. \A i \in 1..n : PaneSet(s[i].tree) \subseteq DOMAIN fresh
  <2> TAKE i \in 1..n
  <2>1. \A p \in PaneSet(s[i].tree) : p \in ToSet(SavedPanes(snap))
    BY <1>1, <1>2, SavedPanesAre, Zenon
  <2> QED BY <2>1
<1>9. \A i \in 1..n : Restores(tabs[i], i, s[i], fresh)
  <2> TAKE i \in 1..n
  <2>1. PICK r \in SavedTabs : r = s[i]
    BY <1>2
  <2>2. i \in Nat /\ PaneSet(r.tree) \subseteq DOMAIN fresh
    BY <1>8, <2>1
  <2>3. tabs[i] = RestoredTab(i, r, fresh)
    BY <1>1, <1>2, <1>3, <2>1, Zenon
  <2> QED BY <2>1, <2>2, <2>3, RestoredTabIs, Zenon
<1>10. tabs \in Seq(Tabs) /\ DOMAIN tabs = 1..n
  <2>1. tabs = [i \in 1..n |-> tabs[i]] /\ DOMAIN tabs = 1..n
    BY <1>1, <1>2, <1>3, Zenon
  <2>2. \A i \in 1..n : tabs[i] \in Tabs
    BY <1>9, Zenon DEF Restores
  <2> QED BY <2>1, <2>2
<1>11. plan \in Layouts
  <2>1. there \in SUBSET Nat
    BY <1>4 DEF Renames
  <2>2. snap.at \in Nat
    BY DEF SnapOK
  <2> QED BY <1>5, <1>10, <2>1, <2>2 DEF Layouts
<1>12. AllApart(tabs)
  <2> SUFFICES ASSUME NEW i \in 1..n, NEW j \in 1..n, i # j PROVE Apart2(tabs[i], tabs[j])
    BY <1>10, Zenon DEF AllApart
  <2>1. tabs[i].id = i /\ tabs[j].id = j
    BY <1>9, Zenon DEF Restores
  <2>2. PaneSet(s[i].tree) \cap PaneSet(s[j].tree) = {}
    BY <1>1, <1>2, Zenon DEF SnapOK, TreesApart
  <2>3. Shown(tabs[i]) = {fresh[p] : p \in PaneSet(s[i].tree)}
        /\ Shown(tabs[j]) = {fresh[p] : p \in PaneSet(s[j].tree)}
    BY <1>9, Zenon DEF Restores
  <2>4. \A p \in PaneSet(s[i].tree), q \in PaneSet(s[j].tree) : fresh[p] # fresh[q]
    <3> SUFFICES ASSUME NEW p \in PaneSet(s[i].tree), NEW q \in PaneSet(s[j].tree), fresh[p] = fresh[q]
                 PROVE  FALSE
      OBVIOUS
    <3>1. p \in DOMAIN fresh /\ q \in DOMAIN fresh
      BY <1>8
    <3>2. p = q
      BY <3>1, Zenon DEF Renames
    <3> QED BY <2>2, <3>2
  <2>5. Shown(tabs[i]) \cap Shown(tabs[j]) = {}
    BY <2>3, <2>4
  <2> QED BY <2>1, <2>5, Zenon DEF Apart2
<1>13. \A i \in 1..n : Shown(tabs[i]) \subseteq there
  <2> TAKE i \in 1..n
  <2>1. Shown(tabs[i]) = {fresh[p] : p \in PaneSet(s[i].tree)}
    BY <1>9, Zenon DEF Restores
  <2> QED BY <1>4, <1>8, <2>1
<1>14. tabs # <<>> => \E i \in DOMAIN tabs : tabs[i].id = snap.at
  <2> HAVE tabs # <<>>
  <2>1. 1 \in 1..n
    BY <1>10, Filled
  <2>2. snap.tabs # <<>>
    <3>1. 1 \in DOMAIN s
      BY <1>2, <2>1
    <3> QED BY <1>1, <3>1, Filled
  <2>3. snap.at \in 1..n
    BY <1>1, <1>2, <2>2, Zenon DEF SnapOK
  <2> QED BY <1>9, <1>10, <2>3, Zenon DEF Restores
<1>15. LayoutOK(plan)
  BY <1>7, <1>10, <1>11, <1>12, <1>13, <1>14, Zenon DEF LayoutOK
<1>16. AllPanes(plan) = Each(fresh, SavedPanes(snap))
  <2>1. PICK lists \in Seq(Seq(Nat)) : lists = SavedLists(snap) /\ DOMAIN lists = 1..n
    BY <1>1, <1>2, SavedListsAre, Zenon
  <2>2. PICK D : D = DOMAIN fresh
    OBVIOUS
  <2>3. \A i \in 1..n : lists[i] = ListPanes(s[i].tree)
    BY <1>1, <1>2, <2>1, Zenon DEF SavedLists
  <2>4. lists \in Seq(Seq(D))
    <3>1. PICK T : T = Seq(D)
      OBVIOUS
    <3>2. \A i \in 1..n : lists[i] \in T
      <4> TAKE i \in 1..n
      <4>1. PICK x \in Seq(Nat) : x = lists[i]
        BY <2>1
      <4>2. x \in Seq(ToSet(x))
        BY SeqOfItems
      <4>3. ToSet(x) \subseteq D
        BY <1>8, <2>2, <2>3, <4>1 DEF PaneSet
      <4>4. x \in Seq(D)
        BY <4>2, <4>3, SeqGrows
      <4> QED BY <3>1, <4>1, <4>4
    <3>3. lists = [i \in 1..n |-> lists[i]]
      BY <1>1, <1>2, <2>1, Zenon DEF SavedLists
    <3>4. lists \in Seq(T)
      BY <3>2, <3>3, SeqBuilt, Zenon
    <3> QED BY <3>1, <3>4, Zenon
  <2>5. Maps(fresh, D, Nat)
    BY <2>2, Zenon DEF Maps, Renames
  <2>6. PICK g : g = [x \in Seq(D) |-> Each(fresh, x)]
    OBVIOUS
  <2>7. \A x \in Seq(D) : g[x] = Each(fresh, x)
    BY <2>6, Zenon
  <2>8. FlattensEach(fresh, g, D)
    BY <2>5, <2>7, FlattenEach, Zenon
  <2>9. Each(fresh, FlattenSeq(lists)) = FlattenSeq(Each(g, lists))
    BY <2>4, <2>8, Zenon DEF FlattensEach
  <2>10. SavedPanes(snap) = FlattenSeq(lists)
    BY <2>1, Zenon DEF SavedPanes, SavedLists
  <2>11. \A i \in 1..n : tabs[i].root # <<>> /\ ListPanes(tabs[i].root[1]) = g[lists[i]]
    <3> TAKE i \in 1..n
    <3>1. tabs[i] \in Tabs /\ ListPanes(tabs[i].root[1]) = Each(fresh, lists[i])
      BY <1>9, <2>3, Zenon DEF Restores
    <3>2. lists[i] \in Seq(D)
      BY <2>1, <2>4
    <3> QED BY <2>7, <3>1, <3>2, TabIs, ShapeIs, Zenon
  <2>12. AllPanes(plan) = FlattenSeq([i \in 1..n |-> g[lists[i]]])
    BY <1>7, <1>10, <2>11, Zenon DEF AllPanes
  <2>13. Each(g, lists) = [i \in 1..n |-> g[lists[i]]]
    BY <2>1, Zenon DEF Each
  <2> QED BY <2>9, <2>10, <2>12, <2>13, Zenon
<1> QED BY <1>4, <1>6, <1>7, <1>15, <1>16, Zenon

(* The active tab's panes are the store's.                                   *)
LEMMA RenderedOf == ASSUME NEW l, LayoutOK(l) PROVE Rendered(l) \subseteq l.panes
<1>1. l \in Layouts
  BY DEF LayoutOK
<1>2. ASSUME NEW i \in ActiveAt(l)
      PROVE  (IF l.tabs[i].root = <<>> THEN {}
              ELSE IF Shows(l.tabs[i], l.tabs[i].zoomed) THEN {l.tabs[i].zoomed}
                   ELSE PaneSet(l.tabs[i].root[1])) \subseteq l.panes
  <2>1. i \in DOMAIN l.tabs
    BY Zenon DEF ActiveAt
  <2>2. l.tabs[i] \in TabShapes
    BY <1>1, <2>1, LayoutIs, Zenon
  <2>3. Shown(l.tabs[i]) \subseteq l.panes
    BY <2>1, Zenon DEF LayoutOK
  <2>4. Shows(l.tabs[i], l.tabs[i].zoomed) => l.tabs[i].zoomed \in Shown(l.tabs[i])
    BY <2>2, ShowsIs, Zenon
  <2> QED BY <2>3, <2>4 DEF Shown
<1>3. \A x \in Rendered(l) : \E i \in ActiveAt(l) :
         x \in (IF l.tabs[i].root = <<>> THEN {}
                ELSE IF Shows(l.tabs[i], l.tabs[i].zoomed) THEN {l.tabs[i].zoomed}
                     ELSE PaneSet(l.tabs[i].root[1]))
  BY Zenon DEF Rendered
<1>4. \A x \in Rendered(l) : x \in l.panes
  <2> TAKE x \in Rendered(l)
  <2>1. PICK i \in ActiveAt(l) :
         x \in (IF l.tabs[i].root = <<>> THEN {}
                ELSE IF Shows(l.tabs[i], l.tabs[i].zoomed) THEN {l.tabs[i].zoomed}
                     ELSE PaneSet(l.tabs[i].root[1]))
    BY <1>3, Zenon
  <2> QED BY <1>2, <2>1
<1> QED BY <1>4

-----------------------------------------------------------------------------
(* SavedSession: what is held in memory, on its way to the database and in   *)
(* it is all of panes made so far.                                           *)

(* A layout, a snapshot and output of panes made so far.                     *)
LayoutHeld(l, n) == LayoutOK(l) /\ l.panes \subseteq 1..n

SnapshotHeld(snap, n) == SnapOK(snap) /\ PanesOf(snap) \subseteq 1..n

SessionHeld(rowsOf, n) == \A i \in DOMAIN rowsOf : SnapshotHeld(rowsOf[i], n)

Owned(output, n, lines) ==
    /\ DOMAIN output \subseteq 1..n
    /\ \A p \in DOMAIN output : output[p] \subseteq lines[p]

(* A save under way.                                                         *)
SaveHeld(v, n, lines) ==
    /\ v.step \in {"idle", "session", "rows", "retain", "forget"}
    /\ v.step = "idle" => v = Idle
    /\ v.step \in {"session", "rows", "retain"} => SnapshotHeld(v.snap, n)
    /\ v.step = "rows" => Owned(v.todo, n, lines)
    /\ v.step = "forget" => v = [step |-> "forget", todo |-> v.todo]

SavesHeld(all, n, lines) ==
    DOMAIN all = Slots /\ \A s \in Slots : SaveHeld(all[s], n, lines)

(* Every pane's history has the pane itself and all of the history of the    *)
(* pane it stands for.                                                       *)
Descends(p, n, lines, keys) ==
    /\ p \in lines[p]
    /\ keys[p] # None => keys[p] \in 1..n /\ lines[keys[p]] \subseteq lines[p]

Lineage(n, lines, keys) ==
    /\ n \in Nat /\ lines \in Seq(SUBSET Nat) /\ keys \in Seq(Nat)
    /\ Len(lines) = n /\ Len(keys) = n
    /\ \A p \in 1..n : Descends(p, n, lines, keys)

Grown(n, lines, m, more) ==
    n \in Nat /\ m \in Nat /\ n <= m /\ \A p \in 1..n : more[p] = lines[p]

(* More panes.                                                               *)
LEMMA UpTo == \A n, m \in Nat : n <= m => 1..n \subseteq 1..m
  OBVIOUS

(* Panes that are made take nothing from what the earlier ones own, ...      *)
LEMMA OwnedGrows ==
  ASSUME NEW n, NEW m, NEW lines, NEW more, Grown(n, lines, m, more), NEW f, Owned(f, n, lines)
  PROVE  Owned(f, m, more)
<1>1. 1..n \subseteq 1..m
  BY UpTo DEF Grown
<1> QED BY <1>1 DEF Owned, Grown

(* ... nor from a snapshot, ...                                              *)
LEMMA HeldGrows ==
  ASSUME NEW n, NEW m, NEW lines, NEW more, Grown(n, lines, m, more), NEW snap, SnapshotHeld(snap, n)
  PROVE  SnapshotHeld(snap, m)
<1>1. 1..n \subseteq 1..m
  BY UpTo DEF Grown
<1> QED BY <1>1 DEF SnapshotHeld

(* ... a save, ...                                                           *)
LEMMA SaveGrows ==
  ASSUME NEW n, NEW m, NEW lines, NEW more, Grown(n, lines, m, more), NEW v, SaveHeld(v, n, lines)
  PROVE  SaveHeld(v, m, more)
<1>1. SnapshotHeld(v.snap, n) => SnapshotHeld(v.snap, m)
  BY HeldGrows, Zenon
<1>2. Owned(v.todo, n, lines) => Owned(v.todo, m, more)
  BY OwnedGrows, Zenon
<1> QED BY <1>1, <1>2, Zenon DEF SaveHeld

(* ... any of the saves, ...                                                 *)
LEMMA SavesGrow ==
  ASSUME NEW n, NEW m, NEW lines, NEW more, Grown(n, lines, m, more),
         NEW all, SavesHeld(all, n, lines)
  PROVE  SavesHeld(all, m, more)
<1>1. \A s \in Slots : SaveHeld(all[s], m, more)
  <2> TAKE s \in Slots
  <2>1. PICK v : v = all[s]
    OBVIOUS
  <2>2. SaveHeld(v, n, lines)
    BY <2>1, Zenon DEF SavesHeld
  <2> QED BY <2>1, <2>2, SaveGrows, Zenon
<1> QED BY <1>1, Zenon DEF SavesHeld

(* ... or what is stored.                                                    *)
LEMMA SessionGrows ==
  ASSUME NEW n, NEW m, NEW lines, NEW more, Grown(n, lines, m, more),
         NEW se, SessionHeld(se, n)
  PROVE  SessionHeld(se, m)
<1> SUFFICES ASSUME NEW i \in DOMAIN se PROVE SnapshotHeld(se[i], m)
  BY Zenon DEF SessionHeld
<1>1. PICK snap : snap = se[i]
  OBVIOUS
<1>2. SnapshotHeld(snap, n)
  BY <1>1, Zenon DEF SessionHeld
<1> QED BY <1>1, <1>2, HeldGrows, Zenon

Joined(u, s, t, m, n, S) ==
    /\ u \in Seq(S) /\ Len(u) = m + n
    /\ \A i \in 1..m : u[i] = s[i]
    /\ \A i \in 1..n : u[m + i] = t[i]

(* What is at a place of two sequences joined.                               *)
LEMMA ConcatAt ==
  ASSUME NEW S, NEW s \in Seq(S), NEW t \in Seq(S), NEW m, NEW n, m = Len(s), n = Len(t)
  PROVE  Joined(s \o t, s, t, m, n, S)
<1>1. m \in Nat /\ n \in Nat
  OBVIOUS
<1>2. PICK u \in Seq(S) : u = s \o t
  BY ConcatProperties
<1>3. /\ Len(u) = m + n
      /\ \A i \in 1..m + n : u[i] = IF i <= m THEN s[i] ELSE t[i - m]
  BY <1>2, ConcatProperties
<1>4. ASSUME NEW i \in 1..m PROVE u[i] = s[i]
  BY <1>1, <1>3
<1>5. ASSUME NEW i \in 1..n PROVE u[m + i] = t[i]
  <2>1. m + i \in 1..m + n /\ ~(m + i <= m) /\ (m + i) - m = i
    BY <1>1
  <2> QED BY <1>3, <2>1
<1> QED BY <1>2, <1>3, <1>4, <1>5, Zenon DEF Joined

(* New panes, and what their histories must be.                              *)
Descendants(n, lines, keys, newKeys, newLines) ==
    /\ newKeys \in Seq(Nat) /\ newLines \in Seq(SUBSET Nat) /\ Len(newLines) = Len(newKeys)
    /\ \A k \in DOMAIN newKeys :
          /\ n + k \in newLines[k]
          /\ newKeys[k] # None => newKeys[k] \in 1..n /\ lines[newKeys[k]] \subseteq newLines[k]

(* Histories stay in order as panes are made.                                *)
LEMMA LineageGrows ==
  ASSUME NEW n, NEW lines, NEW keys, Lineage(n, lines, keys), NEW newKeys, NEW newLines,
         Descendants(n, lines, keys, newKeys, newLines)
  PROVE  /\ Lineage(n + Len(newKeys), lines \o newLines, keys \o newKeys)
         /\ Grown(n, lines, n + Len(newKeys), lines \o newLines)
         /\ \A k \in 1..Len(newKeys) : (keys \o newKeys)[n + k] = newKeys[k]
<1>0. PICK N : N = SUBSET Nat
  OBVIOUS
<1>1. lines \in Seq(N) /\ newLines \in Seq(N)
  BY <1>0 DEF Lineage, Descendants
<1>2. /\ n \in Nat /\ keys \in Seq(Nat) /\ newKeys \in Seq(Nat)
      /\ Len(lines) = n /\ Len(keys) = n
  BY DEF Lineage, Descendants
<1>3. PICK m \in Nat : m = Len(newKeys)
  BY <1>2
<1>4. PICK all : all = lines \o newLines
  OBVIOUS
<1>5. PICK ks : ks = keys \o newKeys
  OBVIOUS
<1>6. Len(newLines) = m
  BY <1>3, Zenon DEF Descendants
<1>7. /\ all \in Seq(N) /\ Len(all) = n + m
      /\ \A p \in 1..n : all[p] = lines[p]
      /\ \A k \in 1..m : all[n + k] = newLines[k]
  <2>1. Joined(lines \o newLines, lines, newLines, n, m, N)
    BY <1>1, <1>2, <1>6, ConcatAt, Zenon
  <2> QED BY <1>4, <2>1, Zenon DEF Joined
<1>8. /\ ks \in Seq(Nat) /\ Len(ks) = n + m
      /\ \A p \in 1..n : ks[p] = keys[p]
      /\ \A k \in 1..m : ks[n + k] = newKeys[k]
  <2>1. Joined(keys \o newKeys, keys, newKeys, n, m, Nat)
    BY <1>2, <1>3, ConcatAt, Zenon
  <2> QED BY <1>5, <2>1, Zenon DEF Joined
<1>9. \A p \in 1..n : Descends(p, n, lines, keys)
  BY Zenon DEF Lineage
<1>10. DOMAIN newKeys = 1..m
  BY <1>2, <1>3
<1>11. \A k \in 1..m : /\ n + k \in newLines[k]
                       /\ newKeys[k] # None => newKeys[k] \in 1..n /\ lines[newKeys[k]] \subseteq newLines[k]
  BY <1>10, Zenon DEF Descendants
<1>12. \A p \in 1..n + m : p \in 1..n \/ \E k \in 1..m : p = n + k
  <2> TAKE p \in 1..n + m
  <2>1. CASE p <= n
    BY <1>2, <2>1
  <2>2. CASE ~(p <= n)
    <3>1. p - n \in 1..m /\ p = n + (p - n)
      BY <1>2, <2>2
    <3> QED BY <3>1
  <2> QED BY <2>1, <2>2
<1>13. 1..n \subseteq 1..n + m /\ n <= n + m /\ n + m \in Nat
  BY <1>2
<1>14. \A p \in 1..n + m : Descends(p, n + m, all, ks)
  <2> TAKE p \in 1..n + m
  <2>1. CASE p \in 1..n
    <3>1. Descends(p, n, lines, keys)
      BY <1>9, <2>1
    <3>2. all[p] = lines[p] /\ ks[p] = keys[p]
      BY <1>7, <1>8, <2>1
    <3>3. keys[p] \in 1..n => all[keys[p]] = lines[keys[p]]
      BY <1>7, Zenon
    <3> QED BY <1>13, <3>1, <3>2, <3>3 DEF Descends
  <2>2. CASE \E k \in 1..m : p = n + k
    <3>1. PICK k \in 1..m : p = n + k
      BY <2>2
    <3>2. all[p] = newLines[k] /\ ks[p] = newKeys[k]
      BY <1>7, <1>8, <3>1
    <3>3. newKeys[k] \in 1..n => all[newKeys[k]] = lines[newKeys[k]]
      BY <1>7, Zenon
    <3> QED BY <1>11, <1>13, <3>1, <3>2, <3>3 DEF Descends
  <2> QED BY <1>12, <2>1, <2>2
<1>15. Lineage(n + m, all, ks)
  BY <1>0, <1>7, <1>8, <1>13, <1>14, Zenon DEF Lineage
<1>16. Grown(n, lines, n + m, all)
  BY <1>2, <1>7, <1>13, Zenon DEF Grown
<1> QED BY <1>3, <1>4, <1>5, <1>8, <1>15, <1>16, Zenon

SessionInv ==
    /\ LayoutHeld(layout, made)
    /\ SessionHeld(session, made)
    /\ SavesHeld(saves, made, heirs)
    /\ Lineage(made, heirs, standsFor)
    /\ Owned(screen, made, heirs)
    /\ Owned(rows, made, heirs)

(* The store takes a sound layout of panes made so far.                      *)
LEMMA ShowHeld ==
  ASSUME SessionInv, NEW l, NEW onTerminal, Show(l, onTerminal), LayoutHeld(l, made'),
         Grown(made, heirs, made', heirs'), Lineage(made', heirs', standsFor'),
         UNCHANGED <<saves, session, rows>>
  PROVE  SessionInv'
<1>1. layout' = l
  BY Zenon DEF Show
<1>2. PICK seen : seen = IF onTerminal THEN Rendered(l) ELSE {}
  OBVIOUS
<1>3. PICK kept : /\ kept \subseteq seen \cap DOMAIN screen
                  /\ screen' = [p \in seen |-> IF p \in kept THEN screen[p]
                                               ELSE IF standsFor'[p] = None THEN {p} ELSE {}]
  BY <1>2, Zenon DEF Show
<1>4. seen \subseteq 1..made'
  <2>1. Rendered(l) \subseteq l.panes /\ l.panes \subseteq 1..made'
    BY RenderedOf DEF LayoutHeld
  <2> QED BY <1>2, <2>1
<1>5. \A p \in seen : p \in heirs'[p]
  BY <1>4 DEF Lineage, Descends
<1>6. \A p \in kept : screen[p] \subseteq heirs'[p]
  <2>1. Owned(screen, made', heirs')
    BY OwnedGrows, Zenon DEF SessionInv
  <2> QED BY <1>3, <2>1 DEF Owned
<1>7. Owned(screen', made', heirs')
  <2>1. DOMAIN screen' = seen
    BY <1>3, Zenon
  <2>2. ASSUME NEW p \in seen PROVE screen'[p] \subseteq heirs'[p]
    <3>1. screen'[p] = IF p \in kept THEN screen[p] ELSE IF standsFor'[p] = None THEN {p} ELSE {}
      BY <1>3, Zenon
    <3>2. {p} \subseteq heirs'[p] /\ {} \subseteq heirs'[p]
      BY <1>5
    <3>3. p \in kept => screen[p] \subseteq heirs'[p]
      BY <1>6
    <3> QED BY <3>1, <3>2, <3>3, Zenon
  <2> QED BY <1>4, <2>1, <2>2, Zenon DEF Owned
<1>8. Owned(rows, made', heirs') /\ SessionHeld(session, made') /\ SavesHeld(saves, made', heirs')
  BY OwnedGrows, SessionGrows, SavesGrow, Zenon DEF SessionInv
<1> QED BY <1>1, <1>7, <1>8, Zenon DEF SessionInv

(* A pane of the user's own stands for no other.                             *)
LEMMA MakePaneHeld ==
  ASSUME SessionInv, MakePane
  PROVE  /\ made' = made + 1 /\ Lineage(made', heirs', standsFor')
         /\ Grown(made, heirs, made', heirs')
<1>1. PICK ks : ks = <<None>>
  OBVIOUS
<1>2. PICK ls : ls = <<{made + 1}>>
  OBVIOUS
<1>3. made \in Nat
  BY DEF SessionInv, Lineage
<1>4. /\ ks \in Seq(Nat) /\ Len(ks) = 1 /\ DOMAIN ks = {1} /\ ks[1] = None
      /\ ls \in Seq(SUBSET Nat) /\ Len(ls) = 1 /\ ls[1] = {made + 1}
  BY <1>1, <1>2, <1>3 DEF None
<1>5. Descendants(made, heirs, standsFor, ks, ls)
  BY <1>4 DEF Descendants
<1>6. made' = made + Len(ks) /\ standsFor' = standsFor \o ks /\ heirs' = heirs \o ls
  BY <1>1, <1>2, Zenon DEF MakePane, MakePanes
<1>7. Lineage(made, heirs, standsFor)
  BY DEF SessionInv
<1>8. /\ Lineage(made + Len(ks), heirs \o ls, standsFor \o ks)
      /\ Grown(made, heirs, made + Len(ks), heirs \o ls)
  BY <1>5, <1>7, LineageGrows, Zenon
<1> QED BY <1>4, <1>6, <1>8, Zenon

(* A step that makes no pane leaves the histories in order.                  *)
LEMMA SameHeld ==
  ASSUME SessionInv, UNCHANGED paneVars
  PROVE  /\ made' = made /\ Lineage(made', heirs', standsFor')
         /\ Grown(made, heirs, made', heirs')
<1>1. made' = made /\ heirs' = heirs /\ standsFor' = standsFor
  BY DEF paneVars
<1>2. Lineage(made, heirs, standsFor) /\ made \in Nat
  BY DEF SessionInv, Lineage
<1>3. Grown(made, heirs, made, heirs)
  BY <1>2 DEF Grown
<1> QED BY <1>1, <1>2, <1>3, Zenon

(* What adds a pane to a sound layout.                                       *)
LEMMA UserAddsHeld ==
  ASSUME SessionInv, NEW l, OKWith(l, layout, {made + 1}), UserAddsPane(l)
  PROVE  SessionInv'
<1>1. /\ made' = made + 1 /\ Lineage(made', heirs', standsFor')
      /\ Grown(made, heirs, made', heirs')
  BY MakePaneHeld, Zenon DEF UserAddsPane
<1>2. LayoutHeld(l, made')
  <2>1. made \in Nat /\ layout.panes \subseteq 1..made
    BY DEF SessionInv, Lineage, LayoutHeld
  <2>2. l.panes \subseteq 1..made + 1
    BY <2>1 DEF OKWith
  <2> QED BY <1>1, <2>2, Zenon DEF OKWith, LayoutHeld
<1>3. Show(l, TRUE) /\ UNCHANGED <<saves, session, rows>>
  BY Zenon DEF UserAddsPane, diskVars
<1> QED BY <1>1, <1>2, <1>3, ShowHeld, Zenon

(* The next pane is new to the layout.                                       *)
LEMMA NewPaneFree == SessionInv => LayoutOK(layout) /\ made + 1 \in Nat /\ made + 1 # None
                                   /\ made + 1 \notin layout.panes
<1> SUFFICES ASSUME SessionInv
             PROVE  LayoutOK(layout) /\ made + 1 \in Nat /\ made + 1 # None
                    /\ made + 1 \notin layout.panes
  OBVIOUS
<1>1. made \in Nat /\ LayoutOK(layout) /\ layout.panes \subseteq 1..made
  BY DEF SessionInv, Lineage, LayoutHeld
<1> QED BY <1>1 DEF None

(* A new pane keeps the invariant, ...                                       *)
LEMMA NewPaneHeld == SessionInv /\ NewPane => SessionInv'
  BY NewPaneFree, AddPaneOK, UserAddsHeld, Zenon DEF NewPane

(* ... in a tab of its own, ...                                              *)
LEMMA NewInTabHeld == SessionInv /\ NewInTab => SessionInv'
  BY NewPaneFree, AddInTabOK, UserAddsHeld, Zenon DEF NewInTab

(* ... or beside another.                                                    *)
LEMMA SplitItHeld == SessionInv /\ SplitIt => SessionInv'
<1>1. Dirs = {"row", "column"}
  BY DEF Dirs
<1> QED BY <1>1, NewPaneFree, SplitFocusedOK, UserAddsHeld, Zenon DEF SplitIt

(* What moves the panes of one around.                                       *)
LEMMA UserRearrangesHeld ==
  ASSUME SessionInv, NEW l, NEW onTerminal, LayoutOK(l), l.panes \subseteq layout.panes,
         UserRearranges(l, onTerminal)
  PROVE  SessionInv'
<1>1. /\ made' = made /\ Lineage(made', heirs', standsFor')
      /\ Grown(made, heirs, made', heirs')
  BY SameHeld, Zenon DEF UserRearranges
<1>2. LayoutHeld(l, made')
  <2>1. layout.panes \subseteq 1..made
    BY DEF SessionInv, LayoutHeld
  <2>2. l.panes \subseteq 1..made
    BY <2>1
  <2> QED BY <1>1, <2>2, Zenon DEF LayoutHeld
<1>3. Show(l, onTerminal) /\ UNCHANGED <<saves, session, rows>>
  BY Zenon DEF UserRearranges, diskVars
<1> QED BY <1>1, <1>2, <1>3, ShowHeld, Zenon

(* Rearranging keeps it when the layout stays sound.                         *)
LEMMA MovesHeld ==
  ASSUME SessionInv, NEW l, OKWith(l, layout, {}), NEW onTerminal, UserRearranges(l, onTerminal)
  PROVE  SessionInv'
<1>1. LayoutOK(l) /\ l.panes \subseteq layout.panes
  BY DEF OKWith
<1> QED BY <1>1, UserRearrangesHeld, Zenon

(* Closing a pane keeps it.                                                  *)
LEMMA CloseFocusedHeld == SessionInv /\ CloseFocused => SessionInv'
<1> SUFFICES ASSUME SessionInv, CloseFocused PROVE SessionInv'
  OBVIOUS
<1>1. PICK p : UserRearranges(RemovePane(layout, p), terminal)
  BY Zenon DEF CloseFocused
<1>2. PICK l : l = RemovePane(layout, p)
  OBVIOUS
<1>3. LayoutOK(layout)
  BY NewPaneFree
<1>4. LayoutOK(l) /\ l.panes = layout.panes \ {p}
  BY <1>2, <1>3, RemovePaneOK, Zenon
<1>5. l.panes \subseteq layout.panes
  BY <1>4
<1> QED BY <1>1, <1>2, <1>4, <1>5, UserRearrangesHeld, Zenon

(* Choosing, cycling, swapping and zooming keep it.                          *)
LEMMA MovingHeld ==
  SessionInv /\ (ChooseTab \/ ClickPane \/ CyclePane \/ SwapPane \/ ZoomPane) => SessionInv'
<1> SUFFICES ASSUME SessionInv, ChooseTab \/ ClickPane \/ CyclePane \/ SwapPane \/ ZoomPane
             PROVE  SessionInv'
  OBVIOUS
<1>0. LayoutOK(layout)
  BY NewPaneFree
<1>1. CASE ChooseTab
  BY <1>0, <1>1, SetActiveTabOK, MovesHeld, Zenon DEF ChooseTab
<1>2. CASE ClickPane
  BY <1>0, <1>2, SetActivePaneOK, MovesHeld, Zenon DEF ClickPane
<1>3. CASE CyclePane
  BY <1>0, <1>3, FocusAdjacentOK, MovesHeld, Zenon DEF CyclePane
<1>4. CASE SwapPane
  BY <1>0, <1>4, SwapFocusedOK, MovesHeld, Zenon DEF SwapPane
<1>5. CASE ZoomPane
  BY <1>0, <1>5, ToggleZoomOK, MovesHeld, Zenon DEF ZoomPane
<1> QED BY <1>1, <1>2, <1>3, <1>4, <1>5

(* Leaving the terminal surface, or coming back, keeps it.                   *)
LEMMA ChooseSurfaceHeld == SessionInv /\ ChooseSurface => SessionInv'
<1> SUFFICES ASSUME SessionInv, ChooseSurface PROVE SessionInv'
  OBVIOUS
<1>1. LayoutOK(layout) /\ layout.panes \subseteq layout.panes
  BY NewPaneFree
<1> QED BY <1>1, UserRearrangesHeld, Zenon DEF ChooseSurface

(* The parts of the invariant.                                               *)
LEMMA HeldParts ==
  SessionInv => /\ LayoutOK(layout) /\ layout.panes \subseteq 1..made /\ SessionHeld(session, made)
                /\ SavesHeld(saves, made, heirs) /\ Lineage(made, heirs, standsFor)
                /\ Owned(screen, made, heirs) /\ Owned(rows, made, heirs)
                /\ made \in Nat
  BY Zenon DEF SessionInv, LayoutHeld, Lineage

(* A step of the saves: the terminals, the layout and the panes are as they  *)
(* were.                                                                     *)
LEMMA SavingHeld ==
  ASSUME SessionInv, UNCHANGED <<layout, screen, made, standsFor, heirs>>,
         SavesHeld(saves', made, heirs), SessionHeld(session', made), Owned(rows', made, heirs)
  PROVE  SessionInv'
<1>1. /\ layout' = layout /\ screen' = screen /\ made' = made /\ standsFor' = standsFor
      /\ heirs' = heirs
  OBVIOUS
<1> QED BY <1>1, Zenon DEF SessionInv

(* One save moves on and the others stay as they were.                       *)
LEMMA OneMoves ==
  ASSUME SessionInv, NEW s \in Slots, NEW v, SaveHeld(v, made, heirs),
         saves' = [saves EXCEPT ![s] = v]
  PROVE  SavesHeld(saves', made, heirs)
<1>1. DOMAIN saves = Slots /\ \A t \in Slots : SaveHeld(saves[t], made, heirs)
  BY HeldParts, Zenon DEF SavesHeld
<1>2. \A t \in Slots : saves'[t] = IF t = s THEN v ELSE saves[t]
  BY <1>1
<1>3. DOMAIN saves' = Slots
  BY <1>1
<1> QED BY <1>1, <1>2, <1>3, Zenon DEF SavesHeld

(* No save under way is as it should be.                                     *)
LEMMA IdleHeld == \A n, lines : SaveHeld(Idle, n, lines)
<1>1. Idle.step = "idle" /\ Idle = Idle
  BY DEF Idle
<1>2. "idle" # "session" /\ "idle" # "rows" /\ "idle" # "retain" /\ "idle" # "forget"
  OBVIOUS
<1> QED BY <1>1, <1>2, Zenon DEF SaveHeld

(* A save that begins takes a snapshot of panes made so far.                 *)
LEMMA StartSaveHeld ==
  ASSUME SessionInv, NEW s \in Slots, StartSave(s)
  PROVE  SavesHeld(saves', made, heirs)
<1>1. PICK snap : snap = BuildSnapshot(layout)
  OBVIOUS
<1>2. SnapshotHeld(snap, made)
  <2>1. LayoutOK(layout) /\ layout.panes \subseteq 1..made
    BY HeldParts
  <2>2. SnapOK(snap) /\ \A i \in DOMAIN snap.tabs : PaneSet(snap.tabs[i].tree) \subseteq layout.panes
    BY <1>1, <2>1, SnapshotOK, Zenon
  <2>3. \A p \in PanesOf(snap) : \E i \in DOMAIN snap.tabs : p \in PaneSet(snap.tabs[i].tree)
    BY <2>2, SavedPanesAre, Zenon DEF PanesOf
  <2>4. PanesOf(snap) \subseteq 1..made
    BY <2>1, <2>2, <2>3
  <2> QED BY <2>2, <2>4, Zenon DEF SnapshotHeld
<1>3. PICK a : a = [step |-> "session", snap |-> snap]
  OBVIOUS
<1>4. a.step = "session" /\ a.snap = snap
  BY <1>3
<1>5. SaveHeld(a, made, heirs)
  BY <1>2, <1>4 DEF SaveHeld
<1>6. PICK b : b = [step |-> "forget", todo |-> {"session", "rows"}]
  OBVIOUS
<1>7. b.step = "forget" /\ b.todo = {"session", "rows"}
  BY <1>6
<1>8. SaveHeld(b, made, heirs)
  BY <1>6, <1>7 DEF SaveHeld
<1>9. \/ saves' = [saves EXCEPT ![s] = a]
      \/ saves' = [saves EXCEPT ![s] = b]
  BY <1>1, <1>3, <1>6 DEF StartSave
<1> QED BY <1>5, <1>8, <1>9, OneMoves, Zenon

(* A save that begins keeps the invariant.                                   *)
LEMMA StartingHeld ==
  ASSUME SessionInv, NEW s \in Slots, DebouncedSave(s) \/ FlushOnClose(s)
  PROVE  SessionInv'
<1>1. StartSave(s) /\ UNCHANGED <<layout, screen, made, standsFor, heirs>>
      /\ session' = session /\ rows' = rows
  BY Zenon DEF DebouncedSave, FlushOnClose, paneVars, diskVars
<1>2. SavesHeld(saves', made, heirs)
  BY <1>1, StartSaveHeld, Zenon
<1>3. SessionHeld(session', made) /\ Owned(rows', made, heirs)
  BY <1>1, HeldParts, Zenon
<1> QED BY <1>1, <1>2, <1>3, SavingHeld, Zenon

(* What a save has still to write are pieces of what was on screen.          *)
LEMMA WritingHeld ==
  ASSUME NEW snap, NEW n, NEW lines, SnapshotHeld(snap, n), NEW todo, Owned(todo, n, lines)
  PROVE  SaveHeld(WritingRows(snap, todo), n, lines)
<1>1. PICK v : v = WritingRows(snap, todo)
  OBVIOUS
<1>2. CASE DOMAIN todo = {}
  <2>1. v = [step |-> "retain", snap |-> snap]
    BY <1>1, <1>2 DEF WritingRows
  <2>2. v.step = "retain" /\ v.snap = snap
    BY <2>1
  <2>3. SaveHeld(v, n, lines)
    BY <2>2 DEF SaveHeld
  <2> QED BY <1>1, <2>3
<1>3. CASE DOMAIN todo # {}
  <2>1. v = [step |-> "rows", snap |-> snap, todo |-> todo]
    BY <1>1, <1>3 DEF WritingRows
  <2>2. v.step = "rows" /\ v.snap = snap /\ v.todo = todo
    BY <2>1
  <2>3. SaveHeld(v, n, lines)
    BY <2>2 DEF SaveHeld
  <2> QED BY <1>1, <2>3
<1> QED BY <1>2, <1>3

(* Less output owns nothing more.                                            *)
LEMMA RestrictOwned ==
  ASSUME NEW f, NEW n, NEW lines, Owned(f, n, lines), NEW S, S \subseteq DOMAIN f
  PROVE  Owned(Restrict(f, S), n, lines)
<1>1. PICK g : g = Restrict(f, S)
  OBVIOUS
<1>2. DOMAIN g = S /\ \A x \in S : g[x] = f[x]
  BY <1>1 DEF Restrict
<1>3. Owned(g, n, lines)
  BY <1>2 DEF Owned
<1> QED BY <1>1, <1>3

(* A snapshot that is stored keeps it.                                       *)
LEMMA SnapshotLandsHeld ==
  ASSUME SessionInv, NEW s \in Slots, SnapshotLands(s),
         UNCHANGED <<layout, screen, made, standsFor, heirs>>
  PROVE  SessionInv'
<1>1. PICK v : v = saves[s]
  OBVIOUS
<1>2. v.step = "session" /\ SaveHeld(v, made, heirs)
  BY <1>1, HeldParts, Zenon DEF SnapshotLands, SavesHeld
<1>3. SnapshotHeld(v.snap, made)
  BY <1>2 DEF SaveHeld
<1>4. PICK onScreen : onScreen = {p \in PanesOf(v.snap) \cap DOMAIN screen : screen[p] # {}}
  OBVIOUS
<1>5. PICK todo : todo = [p \in onScreen |-> screen[p]]
  OBVIOUS
<1>6. Owned(todo, made, heirs)
  <2>1. onScreen \subseteq DOMAIN screen
    BY <1>4
  <2>2. DOMAIN todo = onScreen /\ \A p \in onScreen : todo[p] = screen[p]
    BY <1>5
  <2> QED BY <2>1, <2>2, HeldParts DEF Owned
<1>7. saves' = [saves EXCEPT ![s] = WritingRows(v.snap, todo)] /\ session' = <<v.snap>> /\ rows' = rows
  BY <1>1, <1>4, <1>5, Zenon DEF SnapshotLands, Goes
<1>8. PICK w : w = WritingRows(v.snap, todo)
  OBVIOUS
<1>9. SaveHeld(w, made, heirs)
  BY <1>3, <1>6, <1>8, WritingHeld, Zenon
<1>10. SavesHeld(saves', made, heirs)
  BY <1>7, <1>8, <1>9, OneMoves, Zenon
<1>11. SessionHeld(session', made)
  <2>1. PICK x : x = v.snap
    OBVIOUS
  <2>2. DOMAIN <<x>> = {1} /\ <<x>>[1] = x
    OBVIOUS
  <2> QED BY <1>3, <1>7, <2>1, <2>2, Zenon DEF SessionHeld
<1>12. Owned(rows', made, heirs)
  BY <1>7, HeldParts, Zenon
<1> QED BY <1>10, <1>11, <1>12, SavingHeld, Zenon

(* A row that lands is one of what was on screen.                            *)
LEMMA RowsHeld ==
  ASSUME SessionInv, NEW s \in Slots, RowLands(s) \/ RowFails(s),
         UNCHANGED <<layout, screen, made, standsFor, heirs>>
  PROVE  SessionInv'
<1>1. PICK v : v = saves[s]
  OBVIOUS
<1>2. v.step = "rows" /\ SaveHeld(v, made, heirs)
  BY <1>1, HeldParts, Zenon DEF RowLands, RowFails, SavesHeld
<1>3. SnapshotHeld(v.snap, made) /\ Owned(v.todo, made, heirs)
  BY <1>2 DEF SaveHeld
<1>4. PICK p \in DOMAIN v.todo :
         /\ RowAnswered(s, p)
         /\ \/ rows' = [k \in DOMAIN rows \cup {p} |-> IF k = p THEN v.todo[p] ELSE rows[k]]
            \/ rows' = rows
         /\ session' = session
  BY <1>1, Zenon DEF RowLands, RowFails, Fails, diskVars
<1>5. PICK todo : todo = Restrict(v.todo, DOMAIN v.todo \ {p})
  OBVIOUS
<1>6. PICK w : w = WritingRows(v.snap, todo)
  OBVIOUS
<1>7. Owned(todo, made, heirs)
  BY <1>3, <1>5, RestrictOwned
<1>8. SaveHeld(w, made, heirs)
  BY <1>3, <1>6, <1>7, WritingHeld, Zenon
<1>9. saves' = [saves EXCEPT ![s] = w]
  BY <1>1, <1>4, <1>5, <1>6, Zenon DEF RowAnswered, Goes
<1>10. SavesHeld(saves', made, heirs)
  BY <1>8, <1>9, OneMoves, Zenon
<1>11. Owned(rows, made, heirs) /\ SessionHeld(session', made)
  BY <1>4, HeldParts, Zenon
<1>12. Owned(rows', made, heirs)
  <2>1. PICK out : out = v.todo[p]
    OBVIOUS
  <2>2. p \in 1..made /\ out \subseteq heirs[p]
    BY <1>3, <2>1 DEF Owned
  <2>3. PICK f : f = [k \in DOMAIN rows \cup {p} |-> IF k = p THEN out ELSE rows[k]]
    OBVIOUS
  <2>6. DOMAIN f = DOMAIN rows \cup {p}
    BY <2>3, Zenon
  <2>7. \A k \in DOMAIN f : f[k] = IF k = p THEN out ELSE rows[k]
    BY <2>3, <2>6
  <2>8. Owned(f, made, heirs)
    BY <1>11, <2>2, <2>6, <2>7 DEF Owned
  <2> QED BY <1>4, <1>11, <2>1, <2>3, <2>8, Zenon
<1> QED BY <1>10, <1>11, <1>12, SavingHeld, Zenon

(* A save that ends.                                                         *)
LEMMA GoesIdle ==
  ASSUME SessionInv, NEW s \in Slots, Goes(s, Idle) PROVE SavesHeld(saves', made, heirs)
  BY IdleHeld, OneMoves, Zenon DEF Goes

(* A save that ends, by its last call or by one that failed, keeps it.       *)
LEMMA SavesFailHeld ==
  ASSUME SessionInv, NEW s \in Slots, SnapshotFails(s) \/ RetainFails(s) \/ RetainLands(s),
         UNCHANGED <<layout, screen, made, standsFor, heirs>>
  PROVE  SessionInv'
<1>1. SavesHeld(saves', made, heirs)
  BY GoesIdle, Zenon DEF SnapshotFails, RetainFails, RetainLands
<1>2. Owned(rows, made, heirs) /\ SessionHeld(session, made)
  BY HeldParts
<1>3. session' = session
  BY Zenon DEF SnapshotFails, RetainFails, RetainLands, Fails, diskVars
<1>4. rows' = rows \/ \E S : S \subseteq DOMAIN rows /\ rows' = Restrict(rows, S)
  <2>1. CASE RetainLands(s)
    <3>1. PICK S : S = DOMAIN rows \cap PanesOf(saves[s].snap)
      OBVIOUS
    <3>2. S \subseteq DOMAIN rows
      BY <3>1
    <3>3. rows' = Restrict(rows, S)
      BY <2>1, <3>1, Zenon DEF RetainLands
    <3> QED BY <3>2, <3>3
  <2>2. CASE ~RetainLands(s)
    BY <2>2, Zenon DEF SnapshotFails, RetainFails, Fails, diskVars
  <2> QED BY <2>1, <2>2
<1>5. Owned(rows', made, heirs)
  <2>1. CASE rows' = rows
    BY <1>2, <2>1, Zenon
  <2>2. CASE rows' # rows
    <3>1. PICK S : S \subseteq DOMAIN rows /\ rows' = Restrict(rows, S)
      BY <1>4, <2>2
    <3>2. Owned(Restrict(rows, S), made, heirs)
      BY <1>2, <3>1, RestrictOwned
    <3> QED BY <3>1, <3>2, Zenon
  <2> QED BY <2>1, <2>2
<1>6. SessionHeld(session', made)
  BY <1>2, <1>3, Zenon
<1> QED BY <1>1, <1>5, <1>6, SavingHeld, Zenon

(* What is left to remove, when one removal was answered.                    *)
LEMMA ForgottenHeld ==
  ASSUME SessionInv, NEW s \in Slots, saves[s].step = "forget", NEW what, ForgetAnswered(s, what)
  PROVE  SavesHeld(saves', made, heirs)
<1>1. PICK v : v = saves[s]
  OBVIOUS
<1>2. v.step = "forget" /\ SaveHeld(v, made, heirs)
  BY <1>1, HeldParts, Zenon DEF SavesHeld
<1>3. v = [step |-> "forget", todo |-> v.todo]
  BY <1>2, Zenon DEF SaveHeld
<1>4. PICK todo : todo = v.todo \ {what}
  OBVIOUS
<1>5. PICK w : w = [step |-> "forget", todo |-> todo]
  OBVIOUS
<1>6. w.step = "forget" /\ w.todo = todo
  BY <1>5
<1>7. SaveHeld(w, made, heirs)
  BY <1>5, <1>6 DEF SaveHeld
<1>8. [v EXCEPT !.todo = v.todo \ {what}] = w
  BY <1>3, <1>4, <1>5
<1>9. saves' = [saves EXCEPT ![s] = Idle] \/ saves' = [saves EXCEPT ![s] = w]
  <2>1. saves' = [saves EXCEPT ![s] = IF v.todo = {what} THEN Idle
                                      ELSE [v EXCEPT !.todo = v.todo \ {what}]]
    BY <1>1 DEF ForgetAnswered, Goes
  <2>2. saves' = [saves EXCEPT ![s] = IF v.todo = {what} THEN Idle ELSE w]
    BY <1>8, <2>1, Zenon
  <2>3. CASE v.todo = {what}
    BY <2>2, <2>3, Zenon
  <2>4. CASE v.todo # {what}
    BY <2>2, <2>4, Zenon
  <2> QED BY <2>3, <2>4
<1> QED BY <1>7, <1>9, IdleHeld, OneMoves, Zenon

(* Removing what was saved keeps it.                                         *)
LEMMA ForgetHeld ==
  ASSUME SessionInv, NEW s \in Slots, ForgetSession(s) \/ ForgetRows(s) \/ ForgetFails(s),
         UNCHANGED <<layout, screen, made, standsFor, heirs>>
  PROVE  SessionInv'
<1>1. saves[s].step = "forget" /\ \E what : ForgetAnswered(s, what)
  BY Zenon DEF ForgetSession, ForgetRows, ForgetFails
<1>2. SavesHeld(saves', made, heirs)
  BY <1>1, ForgottenHeld, Zenon
<1>3. (session' = session \/ session' = <<>>) /\ (rows' = rows \/ rows' = <<>>)
  BY Zenon DEF ForgetSession, ForgetRows, ForgetFails, Fails, diskVars
<1>4. DOMAIN <<>> = {}
  OBVIOUS
<1>5. SessionHeld(<<>>, made) /\ Owned(<<>>, made, heirs)
  BY <1>4 DEF SessionHeld, Owned
<1> QED BY <1>2, <1>3, <1>5, HeldParts, SavingHeld, Zenon

(* Every step of a save keeps it.                                            *)
LEMMA SavingStepsHeld == SessionInv /\ Saving => SessionInv'
<1> SUFFICES ASSUME SessionInv, Saving PROVE SessionInv'
  OBVIOUS
<1>1. PICK s \in Slots :
        \/ DebouncedSave(s)
        \/ FlushOnClose(s)
        \/ /\ \/ SnapshotLands(s) \/ SnapshotFails(s)
              \/ RowLands(s) \/ RowFails(s)
              \/ RetainLands(s) \/ RetainFails(s)
              \/ ForgetSession(s) \/ ForgetRows(s) \/ ForgetFails(s)
           /\ UNCHANGED <<phase, pref, storeVars, paneVars>>
  BY Zenon DEF Saving
<1>2. CASE DebouncedSave(s) \/ FlushOnClose(s)
  BY <1>2, StartingHeld, Zenon
<1>3. CASE UNCHANGED <<phase, pref, storeVars, paneVars>>
  <2>1. UNCHANGED <<layout, screen, made, standsFor, heirs>>
    BY <1>3, Zenon DEF storeVars, paneVars
  <2> QED BY <1>1, <1>2, <2>1, SnapshotLandsHeld, SavesFailHeld, RowsHeld, ForgetHeld, Zenon
<1> QED BY <1>1, <1>2, <1>3, Zenon

(* A terminal that starts shows what was saved of the pane it stands for.    *)
LEMMA TerminalStartsHeld ==
  ASSUME SessionInv, NEW p, TerminalStarts(p) PROVE SessionInv'
<1>1. p \in DOMAIN screen /\ p \in 1..made /\ p \in heirs[p]
  BY HeldParts DEF TerminalStarts, Owned, Lineage, Descends
<1>2. PICK kept : kept = {rows[k] : k \in DOMAIN rows \cap {standsFor[p]}}
  OBVIOUS
<1>3. PICK displayed : screen' = [screen EXCEPT ![p] = displayed] /\ (displayed = {p} \/ displayed = {p} \cup UNION kept)
  BY <1>2, Zenon DEF TerminalStarts
<1>4. UNION kept \subseteq heirs[p]
  <2>1. ASSUME NEW k \in DOMAIN rows, k = standsFor[p] PROVE rows[k] \subseteq heirs[p]
    <3>1. rows[k] \subseteq heirs[k] /\ k \in 1..made
      BY HeldParts, Zenon DEF Owned
    <3>2. k # None
      BY <3>1 DEF None
    <3>3. heirs[k] \subseteq heirs[p]
      BY <1>1, <2>1, <3>2, HeldParts, Zenon DEF Lineage, Descends
    <3> QED BY <3>1, <3>3
  <2> QED BY <1>2, <2>1
<1>5. displayed \subseteq heirs[p]
  <2> DEFINE u == UNION kept
  <2>2. displayed = {p} \/ displayed = {p} \cup u
    BY <1>3
  <2>3. u \subseteq heirs[p]
    BY <1>4
  <2> HIDE DEF u
  <2> QED BY <1>1, <2>2, <2>3
<1>6. Owned(screen', made, heirs)
  <2>1. Owned(screen, made, heirs)
    BY HeldParts
  <2>2. DOMAIN screen' = DOMAIN screen
        /\ \A q \in DOMAIN screen : screen'[q] = IF q = p THEN displayed ELSE screen[q]
    BY <1>3
  <2> QED BY <1>5, <2>1, <2>2, Zenon DEF Owned
<1>7. UNCHANGED <<layout, made, standsFor, heirs, saves, session, rows>>
  BY Zenon DEF TerminalStarts, paneVars, diskVars
<1> QED BY <1>6, <1>7, Zenon DEF SessionInv

(* The end of the process keeps it: what is stored is of panes made before.  *)
LEMMA EndHeld == SessionInv /\ End => SessionInv'
<1> SUFFICES ASSUME SessionInv, End PROVE SessionInv'
  OBVIOUS
<1>1. /\ layout' = Empty /\ screen' = <<>> /\ saves' = [s \in Slots |-> Idle]
      /\ made' = made /\ standsFor' = standsFor /\ heirs' = heirs
      /\ session' = session /\ rows' = rows
  BY Zenon DEF End, paneVars, diskVars
<1>2. LayoutHeld(Empty, made)
  <2>1. {} \subseteq 1..made
    OBVIOUS
  <2> QED BY <2>1, EmptyOK, Zenon DEF LayoutHeld
<1>3. DOMAIN <<>> = {}
  OBVIOUS
<1>4. Owned(<<>>, made, heirs)
  BY <1>3 DEF Owned
<1>5. SavesHeld(saves', made, heirs)
  <2>1. DOMAIN saves' = Slots /\ \A s \in Slots : saves'[s] = Idle
    BY <1>1
  <2> QED BY <2>1, IdleHeld, Zenon DEF SavesHeld
<1> QED BY <1>1, <1>2, <1>4, <1>5, Zenon DEF SessionInv

(* It holds before the first run.                                            *)
LEMMA InitHeld == SessionInit => SessionInv
<1> SUFFICES ASSUME SessionInit PROVE SessionInv
  OBVIOUS
<1>1. /\ layout = Empty /\ screen = <<>> /\ saves = [s \in Slots |-> Idle]
      /\ made = 0 /\ standsFor = <<>> /\ heirs = <<>> /\ session = <<>> /\ rows = <<>>
  BY Zenon DEF SessionInit
<1>2. LayoutHeld(Empty, 0)
  <2>1. {} \subseteq 1..0
    OBVIOUS
  <2> QED BY <2>1, EmptyOK, Zenon DEF LayoutHeld
<1>3. DOMAIN <<>> = {}
  OBVIOUS
<1>4. Owned(<<>>, 0, heirs) /\ SessionHeld(<<>>, 0)
  BY <1>3 DEF Owned, SessionHeld
<1>5. SavesHeld(saves, 0, heirs)
  <2>1. DOMAIN saves = Slots /\ \A s \in Slots : saves[s] = Idle
    BY <1>1
  <2> QED BY <2>1, IdleHeld, Zenon DEF SavesHeld
<1>6. Lineage(0, <<>>, <<>>)
  <2>1. <<>> \in Seq(SUBSET Nat) /\ <<>> \in Seq(Nat) /\ Len(<<>>) = 0 /\ 1..0 = {}
    OBVIOUS
  <2> QED BY <2>1 DEF Lineage
<1> QED BY <1>1, <1>2, <1>4, <1>5, <1>6, Zenon DEF SessionInv

(* The panes that take the place of saved ones, numbered as the trees name   *)
(* them, and what they stand for.                                            *)
LEMMA RestoredLines ==
  ASSUME SessionInv, NEW snap, SnapshotHeld(snap, made),
         NEW lines, lines = [n \in DOMAIN SavedPanes(snap) |-> {made + n} \cup heirs[SavedPanes(snap)[n]]]
  PROVE  Descendants(made, heirs, standsFor, SavedPanes(snap), lines)
<1>1. made \in Nat /\ heirs \in Seq(SUBSET Nat) /\ Len(heirs) = made
  BY HeldParts DEF Lineage
<1>2. PICK saved \in Seq(Nat) : saved = SavedPanes(snap)
  BY SavedPanesAre DEF SnapshotHeld
<1>3. PICK m \in Nat : m = Len(saved) /\ DOMAIN saved = 1..m
  OBVIOUS
<1>4. \A n \in 1..m : saved[n] \in 1..made
  <2> TAKE n \in 1..m
  <2>1. saved[n] \in PanesOf(snap)
    BY <1>2, <1>3, Zenon DEF PanesOf, ToSet
  <2> QED BY <2>1 DEF SnapshotHeld
<1>5. DOMAIN lines = 1..m /\ \A n \in 1..m : lines[n] = {made + n} \cup heirs[saved[n]]
  BY <1>2, <1>3, Zenon
<1>6. \A n \in 1..m : lines[n] \in SUBSET Nat
  <2> TAKE n \in 1..m
  <2>1. heirs[saved[n]] \subseteq Nat
    BY <1>1, <1>4
  <2>2. {made + n} \subseteq Nat
    BY <1>1
  <2> QED BY <1>5, <2>1, <2>2
<1>7. lines \in Seq(SUBSET Nat) /\ Len(lines) = m
  <2>1. lines = [n \in 1..m |-> lines[n]]
    BY <1>2, <1>3, Zenon
  <2> QED BY <1>6, <2>1
<1>8. \A n \in 1..m : /\ made + n \in lines[n]
                      /\ saved[n] # None => saved[n] \in 1..made /\ heirs[saved[n]] \subseteq lines[n]
  BY <1>4, <1>5
<1> QED BY <1>2, <1>3, <1>7, <1>8, Zenon DEF Descendants

RestoredInto(snap, plan) ==
    /\ LayoutOK(plan) /\ plan.panes \subseteq 1..made + Len(SavedPanes(snap))
    /\ DOMAIN AllPanes(plan) = DOMAIN SavedPanes(snap)
    /\ \A n \in DOMAIN SavedPanes(snap) : AllPanes(plan)[n] = made + n

(* Where each of them is in the layout.                                      *)
LEMMA RestoredPlan ==
  ASSUME made \in Nat, NEW snap, SnapOK(snap)
  PROVE  RestoredInto(snap, PlanRestore(snap, Fresh(snap, made)))
<1>1. PICK saved \in Seq(Nat) : saved = SavedPanes(snap)
  BY SavedPanesAre
<1>2. PICK m \in Nat : m = Len(saved) /\ DOMAIN saved = 1..m
  OBVIOUS
<1>3. PICK fresh : fresh = Fresh(snap, made)
  OBVIOUS
<1>4. Numbers(fresh, saved, made)
  BY <1>1, <1>3, FreshNumbers, Zenon
<1>5. /\ \A p \in DOMAIN fresh : fresh[p] \in Nat /\ fresh[p] > made /\ fresh[p] <= made + m
      /\ \A p, q \in DOMAIN fresh : fresh[p] = fresh[q] => p = q
  BY <1>2, <1>4, NumbersAre, Zenon
<1>6. Renames(fresh)
  <2>1. \A p \in DOMAIN fresh : fresh[p] # None
    BY <1>5 DEF None
  <2> QED BY <1>5, <2>1, Zenon DEF Renames
<1>7. DOMAIN fresh = ToSet(SavedPanes(snap))
  BY <1>1, <1>4, Zenon DEF Numbers
<1>8. PICK plan : plan = PlanRestore(snap, fresh)
  OBVIOUS
<1>9. /\ LayoutOK(plan) /\ plan.panes = {fresh[p] : p \in DOMAIN fresh}
      /\ AllPanes(plan) = Each(fresh, saved)
  BY <1>1, <1>6, <1>7, <1>8, PlanOK, Zenon
<1>10. plan.panes \subseteq 1..made + m
  BY <1>5, <1>9
<1>11. DOMAIN AllPanes(plan) = 1..m /\ \A n \in 1..m : AllPanes(plan)[n] = made + n
  <2>1. AllPanes(plan) = [n \in 1..m |-> fresh[saved[n]]]
    BY <1>2, <1>9, Zenon DEF Each
  <2>2. \A n \in 1..m : fresh[saved[n]] = made + n
    BY <1>2, <1>4, Zenon DEF Numbers
  <2> QED BY <2>1, <2>2, Zenon
<1> QED BY <1>1, <1>2, <1>3, <1>8, <1>9, <1>10, <1>11, Zenon DEF RestoredInto

(* Restoring keeps it: the new panes stand in the places of the saved ones,  *)
(* and their histories with them.                                            *)
LEMMA RestoreSessionHeld == SessionInv /\ RestoreSession => SessionInv'
<1> SUFFICES ASSUME SessionInv, RestoreSession PROVE SessionInv'
  OBVIOUS
<1>1. PICK i \in DOMAIN session :
         LET snap  == session[i]
             plan  == PlanRestore(snap, Fresh(snap, made))
             saved == SavedPanes(snap)
             after == AllPanes(plan)
             Before(p) == saved[CHOOSE n \in DOMAIN saved : after[n] = p]
         IN  /\ MakePanes(RestoreKeys(snap),
                          [n \in DOMAIN saved |-> {made + n} \cup heirs[Before(made + n)]])
             /\ Show(plan, terminal)
  BY Zenon DEF RestoreSession
<1> DEFINE snap  == session[i]
           plan  == PlanRestore(snap, Fresh(snap, made))
           saved == SavedPanes(snap)
           after == AllPanes(plan)
           Before(p) == saved[CHOOSE n \in DOMAIN saved : after[n] = p]
           met   == [n \in DOMAIN saved |-> {made + n} \cup heirs[Before(made + n)]]
           lines == [n \in DOMAIN saved |-> {made + n} \cup heirs[saved[n]]]
<1>2. MakePanes(saved, met) /\ Show(plan, terminal)
  BY <1>1, Zenon DEF RestoreKeys
<1>3. made \in Nat /\ SnapshotHeld(snap, made) /\ SnapOK(snap)
  BY HeldParts, Zenon DEF SessionHeld, SnapshotHeld
<1>4. RestoredInto(snap, plan)
  BY <1>3, RestoredPlan, Zenon
<1>5. met = lines
  <2>1. PICK m \in Nat : DOMAIN saved = 1..m
    <3>1. PICK s \in Seq(Nat) : s = saved
      BY <1>3, SavedPanesAre
    <3>2. PICK m \in Nat : DOMAIN s = 1..m
      OBVIOUS
    <3> QED BY <3>1, <3>2, Zenon
  <2> SUFFICES ASSUME NEW n \in DOMAIN saved PROVE Before(made + n) = saved[n]
    BY Zenon
  <2>2. \A k \in DOMAIN saved : after[k] = made + k
    BY <1>4, Zenon DEF RestoredInto
  <2>3. PICK k : k = CHOOSE j \in DOMAIN saved : after[j] = made + n
    OBVIOUS
  <2>4. k \in DOMAIN saved /\ after[k] = made + n
    BY <2>2, <2>3, Zenon
  <2>5. Before(made + n) = saved[k]
    BY <2>3, Zenon
  <2> HIDE DEF snap, plan, saved, after, Before
  <2>6. k = n
    <3>1. made + k = made + n /\ k \in 1..m /\ n \in 1..m
      BY <2>1, <2>2, <2>4, Zenon
    <3> QED BY <1>3, <3>1
  <2> QED BY <2>5, <2>6
<1>6. Descendants(made, heirs, standsFor, saved, lines)
  BY <1>3, RestoredLines, Zenon
<1> HIDE DEF snap, plan, saved, after, Before, met, lines
<1>7. made' = made + Len(saved) /\ standsFor' = standsFor \o saved /\ heirs' = heirs \o lines
  BY <1>2, <1>5, Zenon DEF MakePanes
<1>8. /\ Lineage(made + Len(saved), heirs \o lines, standsFor \o saved)
      /\ Grown(made, heirs, made + Len(saved), heirs \o lines)
  BY <1>6, HeldParts, LineageGrows, Zenon
<1>9. LayoutHeld(plan, made')
  BY <1>4, <1>7, Zenon DEF RestoredInto, LayoutHeld, saved
<1>10. UNCHANGED <<saves, session, rows>>
  BY Zenon DEF RestoreSession, diskVars
<1> QED BY <1>2, <1>7, <1>8, <1>9, <1>10, ShowHeld, Zenon

(* A step that leaves all it speaks of alone keeps it.                       *)
LEMMA Unmoved ==
  SessionInv /\ UNCHANGED <<layout, screen, made, standsFor, heirs, saves, session, rows>> => SessionInv'
  BY Zenon DEF SessionInv

(* Opening the first pane instead keeps it.                                  *)
LEMMA NothingToRestoreHeld == SessionInv /\ NothingToRestore => SessionInv'
<1> SUFFICES ASSUME SessionInv, NothingToRestore PROVE SessionInv'
  OBVIOUS
<1>1. OpenFirstPane
  BY Zenon DEF NothingToRestore
<1>2. UNCHANGED <<saves, session, rows>>
  BY <1>1, Zenon DEF OpenFirstPane, diskVars
<1>3. CASE layout.tabs # <<>> \/ layout.panes # {}
  <2>1. UNCHANGED <<layout, screen, made, standsFor, heirs, saves, session, rows>>
    BY <1>1, <1>2, <1>3, Zenon DEF OpenFirstPane, paneVars
  <2> QED BY <2>1, Unmoved, Zenon
<1>4. CASE ~(layout.tabs # <<>> \/ layout.panes # {})
  <2>1. PICK l : l = EnsureFirstPane(layout, made + 1)
    OBVIOUS
  <2>2. MakePane /\ Show(l, terminal)
    BY <1>1, <1>4, <2>1, Zenon DEF OpenFirstPane
  <2>3. OKWith(l, layout, {made + 1})
    BY <1>4, <2>1, NewPaneFree, FirstPaneOK, Zenon
  <2>4. /\ made' = made + 1 /\ Lineage(made', heirs', standsFor')
        /\ Grown(made, heirs, made', heirs')
    BY <2>2, MakePaneHeld, Zenon
  <2>5. LayoutHeld(l, made')
    <3>1. made \in Nat /\ layout.panes \subseteq 1..made
      BY HeldParts
    <3>2. l.panes \subseteq 1..made + 1
      BY <2>3, <3>1 DEF OKWith
    <3> QED BY <2>3, <2>4, <3>2, Zenon DEF OKWith, LayoutHeld
  <2> QED BY <1>2, <2>2, <2>4, <2>5, ShowHeld, Zenon
<1> QED BY <1>3, <1>4

(* Every step keeps it.                                                      *)
LEMMA SessionStep == SessionInv /\ [SessionNext]_sessionVars => SessionInv'
<1> SUFFICES ASSUME SessionInv, [SessionNext]_sessionVars PROVE SessionInv'
  OBVIOUS
<1>1. CASE Startup
  <2>1. CASE RestoreSession
    BY <2>1, RestoreSessionHeld
  <2>2. CASE NothingToRestore
    BY <2>2, NothingToRestoreHeld
  <2>3. CASE Launch \/ LoadAppearance \/ AskForSession
    <3>1. UNCHANGED <<layout, screen, made, standsFor, heirs, saves, session, rows>>
      BY <2>3, Zenon DEF Launch, LoadAppearance, AskForSession, storeVars, paneVars, diskVars
    <3> QED BY <3>1, Unmoved, Zenon
  <2> QED BY <1>1, <2>1, <2>2, <2>3, Zenon DEF Startup
<1>2. CASE Arranging
  <2>1. CASE \E p \in 1 .. made : TerminalStarts(p)
    BY <2>1, TerminalStartsHeld, Zenon
  <2> QED BY <1>2, <2>1, NewPaneHeld, NewInTabHeld, SplitItHeld, CloseFocusedHeld, MovingHeld,
             ChooseSurfaceHeld, Zenon DEF Arranging
<1>3. CASE ToggleRestore \/ PrefStored \/ UNCHANGED sessionVars
  <2>1. UNCHANGED <<layout, screen, made, standsFor, heirs, saves, session, rows>>
    BY <1>3, Zenon DEF ToggleRestore, PrefStored, sessionVars, storeVars, paneVars, diskVars
  <2> QED BY <2>1, Unmoved, Zenon
<1>4. CASE Saving
  BY <1>4, SavingStepsHeld
<1>5. CASE End
  BY <1>5, EndHeld
<1> QED BY <1>1, <1>2, <1>3, <1>4, <1>5, Zenon DEF SessionNext

(* The layout and every snapshot are sound and of panes made so far, what is *)
(* shown, saved or on its way is of the pane itself or of those whose place  *)
(* it took (store.ts, session.ts, panes.ts).                                 *)
THEOREM SessionIsHeld == SessionSpec => []SessionInv
<1>1. SessionInit => SessionInv
  BY InitHeld
<1>2. SessionInv /\ [SessionNext]_sessionVars => SessionInv'
  BY SessionStep
<1> QED BY <1>1, <1>2, PTL DEF SessionSpec

(* Whatever is opened, split, closed, swapped, zoomed or restored, every tab *)
(* is a normal tree of panes the store holds, each pane in one place, and    *)
(* every focus is on a pane that is there, for every number of panes, tabs   *)
(* and runs (store.ts, panes.ts).                                            *)
THEOREM LayoutStaysSound == SessionSpec => []LayoutSound
<1>1. SessionInv => LayoutSound
  BY LayoutIsSound, Zenon DEF SessionInv, LayoutHeld, LayoutSound
<1> QED BY <1>1, SessionIsHeld, PTL

(* No terminal ever shows, and no row ever holds, output of a pane that      *)
(* neither is its own nor had its place in an earlier run (session.ts        *)
(* planRestore, store.ts restoreKey, TerminalPane.tsx).                      *)
THEOREM HistoryStaysOwn == SessionSpec => []HistoryIsOwn
<1>1. SessionInv => HistoryIsOwn
  BY Zenon DEF SessionInv, Owned, HistoryIsOwn
<1> QED BY <1>1, SessionIsHeld, PTL

-----------------------------------------------------------------------------
(* SavedSession: what the database holds once the last save is done.         *)

(* What the saving effect watches tells all that is saved.                   *)
LEMMA KeyTellsSnapshot ==
  ASSUME NEW l, LayoutOK(l), NEW m, LayoutOK(m), LayoutKey(l) = LayoutKey(m)
  PROVE  BuildSnapshot(l) = BuildSnapshot(m) /\ l.panes = m.panes
<1>1. PICK s \in Seq(Tabs) : s = l.tabs
  BY LayoutIs DEF LayoutOK
<1>2. PICK t \in Seq(Tabs) : t = m.tabs
  BY LayoutIs DEF LayoutOK
<1>3. PICK a : a = [i \in DOMAIN s |-> [s[i] EXCEPT !.zoomed = None]]
  OBVIOUS
<1>4. PICK b : b = [i \in DOMAIN t |-> [t[i] EXCEPT !.zoomed = None]]
  OBVIOUS
<1>5. LayoutKey(l) = [tabs |-> a, active |-> l.active, panes |-> l.panes]
  <2>1. l = [tabs |-> l.tabs, active |-> l.active, panes |-> l.panes]
    BY LayoutIs DEF LayoutOK
  <2>2. LayoutKey(l) = [l EXCEPT !.tabs = a]
    BY <1>1, <1>3 DEF LayoutKey
  <2> QED BY <2>1, <2>2
<1>6. LayoutKey(m) = [tabs |-> b, active |-> m.active, panes |-> m.panes]
  <2>1. m = [tabs |-> m.tabs, active |-> m.active, panes |-> m.panes]
    BY LayoutIs DEF LayoutOK
  <2>2. LayoutKey(m) = [m EXCEPT !.tabs = b]
    BY <1>2, <1>4 DEF LayoutKey
  <2> QED BY <2>1, <2>2
<1>7. a = b /\ l.active = m.active /\ l.panes = m.panes
  <2>1. PICK k : k = LayoutKey(l)
    OBVIOUS
  <2>2. k.tabs = a /\ k.active = l.active /\ k.panes = l.panes
    BY <1>5, <2>1
  <2>3. k.tabs = b /\ k.active = m.active /\ k.panes = m.panes
    BY <1>6, <2>1
  <2> QED BY <2>2, <2>3, Zenon
<1>8. DOMAIN s = DOMAIN t
  <2>1. DOMAIN a = DOMAIN s /\ DOMAIN b = DOMAIN t
    BY <1>3, <1>4, Zenon
  <2> QED BY <1>7, <2>1
<1>9. \A i \in DOMAIN s : s[i].id = t[i].id /\ s[i].root = t[i].root /\ s[i].focus = t[i].focus
  <2> TAKE i \in DOMAIN s
  <2>1. PICK x \in TabShapes : x = s[i]
    BY TabIs
  <2>2. PICK y \in TabShapes : y = t[i]
    BY <1>8, TabIs
  <2>3. [x EXCEPT !.zoomed = None] = [y EXCEPT !.zoomed = None]
    BY <1>3, <1>4, <1>7, <1>8, <2>1, <2>2, Zenon
  <2>4. PICK q : q = [x EXCEPT !.zoomed = None]
    OBVIOUS
  <2>5. q.id = x.id /\ q.root = x.root /\ q.focus = x.focus
    BY <2>4 DEF TabShapes
  <2>6. q.id = y.id /\ q.root = y.root /\ q.focus = y.focus
    BY <2>3, <2>4 DEF TabShapes
  <2> QED BY <2>1, <2>2, <2>5, <2>6, Zenon
<1>10. ActiveAt(l) = ActiveAt(m)
  BY <1>1, <1>2, <1>7, <1>8, <1>9 DEF ActiveAt
<1>11. [i \in DOMAIN s |-> SavedTab(s[i])] = [i \in DOMAIN t |-> SavedTab(t[i])]
  <2>1. \A i \in DOMAIN s : SavedTab(s[i]) = SavedTab(t[i])
    BY <1>9, Zenon DEF SavedTab
  <2> QED BY <1>8, <2>1, Zenon
<1>12. SnapshotOf(l) = SnapshotOf(m)
  BY <1>1, <1>2, <1>10, <1>11, Zenon DEF SnapshotOf
<1> QED BY <1>7, <1>12, SnapshotIs, Zenon

(* A save that no call has undone or failed in has done its work so far, on  *)
(* the layout as it is now.                                                  *)
Written(v, isOn, snap, se, rw) ==
    IF isOn
    THEN /\ v.step \in {"session", "rows", "retain"}
         /\ v.snap = snap
         /\ v.step # "session" => se = <<snap>>
    ELSE /\ v.step = "forget"
         /\ "session" \notin v.todo => se = <<>>
         /\ "rows" \notin v.todo => rw = <<>>

AllDone(isOn, snap, there, se, rw) ==
    IF isOn THEN se = <<snap>> /\ DOMAIN rw \subseteq there ELSE se = <<>> /\ rw = <<>>

\* The newest save stands at v with this in the database.
Stands(v, se, rw) ==
    IF v = Idle THEN AllDone(on, BuildSnapshot(layout), layout.panes, se, rw)
    ELSE Written(v, on, BuildSnapshot(layout), se, rw)

Trusted == InUse /\ ~timer /\ ~missed /\ ~overtaken

QuietInv ==
    /\ SessionInv
    /\ Trusted => newest \in Slots /\ Stands(saves[newest], session, rows)

(* A step after which nothing is claimed.                                    *)
LEMMA NothingClaimed == ASSUME SessionInv', ~Trusted' PROVE QuietInv'
  BY Zenon DEF QuietInv

(* Nothing that is saved changes, or a save is due.                          *)
LEMMA StillQuiet ==
  ASSUME QuietInv, SessionInv', UNCHANGED <<saves, session, rows, orderVars, missed>>,
         InUse' /\ ~timer' => /\ InUse /\ ~timer /\ on' = on
                              /\ LayoutKey(layout') = LayoutKey(layout)
  PROVE  QuietInv'
<1>0. saves' = saves /\ session' = session /\ rows' = rows /\ missed' = missed
      /\ newest' = newest /\ overtaken' = overtaken
  BY Zenon DEF orderVars
<1>1. ASSUME Trusted'
      PROVE  newest' \in Slots /\ Stands(saves[newest], session, rows)'
  <2>1. Trusted /\ on' = on /\ LayoutKey(layout') = LayoutKey(layout)
    <3>1. InUse' /\ ~timer' /\ ~missed' /\ ~overtaken'
      BY <1>1, Zenon DEF Trusted
    <3>2. ~missed /\ ~overtaken
      BY <1>0, <3>1
    <3> QED BY <3>1, <3>2, Zenon DEF Trusted
  <2>2. LayoutOK(layout) /\ LayoutOK(layout')
    BY Zenon DEF QuietInv, SessionInv, LayoutHeld
  <2>3. PICK l, m : l = layout' /\ m = layout
    OBVIOUS
  <2>4. BuildSnapshot(l) = BuildSnapshot(m) /\ l.panes = m.panes
    BY <2>1, <2>2, <2>3, KeyTellsSnapshot, Zenon
  <2>5. newest \in Slots /\ Stands(saves[newest], session, rows)
    BY <2>1, Zenon DEF QuietInv
  <2>6. saves'[newest'] = saves[newest]
    BY <1>0, Zenon
  <2>7. BuildSnapshot(layout') = BuildSnapshot(layout) /\ layout'.panes = layout.panes
    BY <2>3, <2>4, Zenon
  <2> QED BY <1>0, <2>1, <2>5, <2>6, <2>7, Zenon DEF Stands
<1> QED BY <1>1, Zenon DEF QuietInv

(* A change that leaves no save due.                                         *)
Unseen == ~timer' => ~timer /\ LayoutKey(layout') = LayoutKey(layout)

(* A layout that changes what is saved makes a save due.                     *)
LEMMA ShowUnseen == ASSUME NEW l, NEW onTerminal, Show(l, onTerminal) PROVE Unseen
<1>1. layout' = l /\ timer' = (timer \/ LayoutKey(l) # LayoutKey(layout))
  BY Zenon DEF Show
<1>2. PICK a, b : a = LayoutKey(l) /\ b = LayoutKey(layout)
  OBVIOUS
<1>3. timer' = (timer \/ a # b)
  BY <1>1, <1>2, Zenon
<1>4. ~timer' => ~timer /\ a = b
  BY <1>3
<1> QED BY <1>1, <1>2, <1>4, Zenon DEF Unseen

(* Such a change keeps the invariant.                                        *)
LEMMA Quietly ==
  ASSUME QuietInv, SessionInv', UNCHANGED <<on, saves, session, rows, orderVars, missed>>,
         InUse, Unseen
  PROVE  QuietInv'
  BY StillQuiet, Zenon DEF Unseen

(* What the user does keeps it, ...                                          *)
LEMMA ArrangingQuiet == QuietInv /\ SessionInv' /\ Arranging => QuietInv'
<1> SUFFICES ASSUME QuietInv, SessionInv', Arranging PROVE QuietInv'
  OBVIOUS
<1>1. ASSUME NEW l, UserAddsPane(l) PROVE QuietInv'
  <2>1. UNCHANGED <<on, saves, session, rows, orderVars, missed>> /\ InUse /\ Show(l, TRUE)
    BY <1>1, Zenon DEF UserAddsPane, Gesture, diskVars
  <2> QED BY <2>1, ShowUnseen, Quietly, Zenon
<1>2. ASSUME NEW l, NEW onTerminal, UserRearranges(l, onTerminal) PROVE QuietInv'
  <2>1. UNCHANGED <<on, saves, session, rows, orderVars, missed>> /\ InUse /\ Show(l, onTerminal)
    BY <1>2, Zenon DEF UserRearranges, Gesture, diskVars
  <2> QED BY <2>1, ShowUnseen, Quietly, Zenon
<1>3. ASSUME NEW p, TerminalStarts(p) PROVE QuietInv'
  <2>1. /\ UNCHANGED <<on, saves, session, rows, orderVars, missed>> /\ InUse
        /\ layout' = layout /\ timer' = timer
    BY <1>3, Zenon DEF TerminalStarts, diskVars
  <2>2. Unseen
    BY <2>1 DEF Unseen
  <2> QED BY <2>1, <2>2, Quietly, Zenon
<1>4. CASE NewPane \/ NewInTab \/ SplitIt
  BY <1>1, <1>4, Zenon DEF NewPane, NewInTab, SplitIt
<1>5. CASE CloseFocused \/ ChooseTab \/ ClickPane \/ CyclePane \/ SwapPane \/ ZoomPane \/ ChooseSurface
  BY <1>2, <1>5, Zenon DEF CloseFocused, ChooseTab, ClickPane, CyclePane, SwapPane, ZoomPane, ChooseSurface
<1> QED BY <1>3, <1>4, <1>5, Zenon DEF Arranging

(* ... what the startup does, ...                                            *)
LEMMA StartupQuiet == QuietInv /\ SessionInv' /\ Startup => QuietInv'
<1> SUFFICES ASSUME QuietInv, SessionInv', Startup PROVE QuietInv'
  OBVIOUS
<1>1. CASE Launch
  <2>1. timer'
    BY <1>1 DEF Launch
  <2> QED BY <2>1, NothingClaimed, Zenon DEF Trusted
<1>2. CASE LoadAppearance
  <2>1. phase = "starting" /\ timer' = (timer \/ on' # on)
        /\ UNCHANGED <<layout, saves, session, rows, orderVars, missed>>
    BY <1>2, Zenon DEF LoadAppearance, diskVars
  <2>2. InUse
    BY <2>1 DEF InUse
  <2>3. ~timer' => ~timer /\ on' = on
    BY <2>1
  <2>4. LayoutKey(layout') = LayoutKey(layout)
    BY <2>1, Zenon
  <2> QED BY <2>1, <2>2, <2>3, <2>4, StillQuiet, Zenon
<1>3. CASE AskForSession
  <2>1. phase = "loaded"
        /\ UNCHANGED <<layout, on, timer, saves, session, rows, orderVars, missed>>
    BY <1>3, Zenon DEF AskForSession, storeVars, diskVars
  <2>2. InUse
    BY <2>1 DEF InUse
  <2>3. Unseen
    BY <2>1 DEF Unseen
  <2> QED BY <2>1, <2>2, <2>3, Quietly, Zenon
<1>4. CASE NothingToRestore
  <2>1. InUse /\ UNCHANGED <<on, saves, session, rows, orderVars, missed>>
    <3>1. phase = "loaded" \/ phase = "reading"
      BY <1>4, Zenon DEF NothingToRestore
    <3>2. UNCHANGED <<on, saves, session, rows, orderVars, missed>>
      BY <1>4, Zenon DEF NothingToRestore, OpenFirstPane, diskVars
    <3> QED BY <3>1, <3>2 DEF InUse
  <2>2. Unseen
    <3>1. (layout' = layout /\ timer' = timer) \/ \E l : Show(l, terminal)
      BY <1>4, Zenon DEF NothingToRestore, OpenFirstPane
    <3>2. CASE layout' = layout /\ timer' = timer
      BY <3>2 DEF Unseen
    <3> QED BY <3>1, <3>2, ShowUnseen, Zenon
  <2> QED BY <2>1, <2>2, Quietly, Zenon
<1>5. CASE RestoreSession
  <2>1. phase = "reading" /\ UNCHANGED <<on, saves, session, rows, orderVars, missed>>
        /\ \E l : Show(l, terminal)
    BY <1>5, Zenon DEF RestoreSession, diskVars
  <2>2. InUse
    BY <2>1 DEF InUse
  <2>3. Unseen
    BY <2>1, ShowUnseen, Zenon
  <2> QED BY <2>1, <2>2, <2>3, Quietly, Zenon
<1> QED BY <1>1, <1>2, <1>3, <1>4, <1>5, Zenon DEF Startup

(* ... a change of the setting, ...                                          *)
LEMMA SettingQuiet ==
  QuietInv /\ SessionInv' /\ (ToggleRestore \/ PrefStored \/ UNCHANGED sessionVars) => QuietInv'
<1> SUFFICES ASSUME QuietInv, SessionInv',
                    ToggleRestore \/ PrefStored \/ UNCHANGED sessionVars PROVE QuietInv'
  OBVIOUS
<1>1. CASE ToggleRestore
  <2>1. timer'
    BY <1>1 DEF ToggleRestore
  <2> QED BY <2>1, NothingClaimed, Zenon DEF Trusted
<1>2. CASE PrefStored
  <2>1. InUse /\ UNCHANGED <<layout, on, timer, saves, session, rows, orderVars, missed>>
    BY <1>2, Zenon DEF PrefStored, storeVars, diskVars
  <2>2. Unseen
    BY <2>1 DEF Unseen
  <2> QED BY <2>1, <2>2, Quietly, Zenon
<1>3. CASE UNCHANGED sessionVars
  <2>1. phase' = phase /\ layout' = layout /\ on' = on /\ timer' = timer
        /\ saves' = saves /\ session' = session /\ rows' = rows /\ missed' = missed
        /\ UNCHANGED orderVars
    BY <1>3, Zenon DEF sessionVars, storeVars, diskVars
  <2>2. InUse' <=> InUse
    BY <2>1, Zenon DEF InUse
  <2>3. LayoutKey(layout') = LayoutKey(layout)
    BY <2>1, Zenon
  <2>4. ~timer' => ~timer
    BY <2>1
  <2> QED BY <2>1, <2>2, <2>3, <2>4, StillQuiet, Zenon
<1> QED BY <1>1, <1>2, <1>3

(* ... and the end of the process.                                           *)
LEMMA EndQuiet == SessionInv' /\ End => QuietInv'
<1> SUFFICES ASSUME SessionInv', End PROVE QuietInv'
  OBVIOUS
<1>1. phase' = "down"
  BY Zenon DEF End
<1>2. ~InUse'
  BY <1>1 DEF InUse
<1> QED BY <1>2, NothingClaimed, Zenon DEF Trusted

(* It holds before the first run.                                            *)
LEMMA InitQuiet == SessionInit => QuietInv
<1> SUFFICES ASSUME SessionInit PROVE QuietInv
  OBVIOUS
<1>1. phase = "down"
  BY Zenon DEF SessionInit
<1>2. ~InUse
  BY <1>1 DEF InUse
<1> QED BY <1>2, InitHeld, Zenon DEF QuietInv, Trusted

(* A save moves on: the newest, or an older one beside it.                   *)
LEMMA SaveMoves ==
  ASSUME QuietInv, SessionInv', NEW s \in Slots, NEW w, saves' = [saves EXCEPT ![s] = w],
         UNCHANGED <<phase, on, layout, timer, newest>>,
         Trusted' => /\ newest \in Slots
                     /\ s = newest => Stands(w, session', rows')
                     /\ s # newest => Stands(saves[newest], session', rows')
  PROVE  QuietInv'
<1>1. on' = on /\ layout' = layout /\ newest' = newest
  OBVIOUS
<1>2. DOMAIN saves = Slots
  BY HeldParts, Zenon DEF QuietInv, SavesHeld
<1>3. ASSUME Trusted' PROVE newest' \in Slots /\ Stands(saves[newest], session, rows)'
  <2>1. PICK x : x = saves'[newest']
    OBVIOUS
  <2>2. newest \in Slots /\ Stands(x, session', rows')
    <3>1. CASE s = newest
      <4>1. x = w
        BY <1>1, <1>2, <2>1, <3>1
      <4> QED BY <1>3, <3>1, <4>1
    <3>2. CASE s # newest
      <4>1. x = saves[newest]
        BY <1>1, <1>2, <1>3, <2>1, <3>2
      <4> QED BY <1>3, <3>2, <4>1
    <3> QED BY <3>1, <3>2
  <2> QED BY <1>1, <2>1, <2>2, Zenon DEF Stands
<1> QED BY <1>3, Zenon DEF QuietInv

(* What the newest save has done before a call is answered.                  *)
LEMMA DoneSoFar ==
  ASSUME QuietInv, UNCHANGED <<phase, timer, missed>>, ~overtaken, Trusted'
  PROVE  newest \in Slots /\ Stands(saves[newest], session, rows)
<1>1. phase' = phase /\ timer' = timer
  OBVIOUS
<1>2. InUse' /\ ~timer' /\ ~missed'
  BY Zenon DEF Trusted
<1>3. InUse
  BY <1>1, <1>2, Zenon DEF InUse
<1>4. ~timer /\ ~missed
  BY <1>2
<1> QED BY <1>3, <1>4, Zenon DEF Trusted, QuietInv

(* A save with a step to take is one.                                        *)
LEMMA NotIdle == \A v : v.step \in {"session", "rows", "retain", "forget"} => v # Idle
  BY DEF Idle

(* A call of an older save that lands before the newest's own, or that only  *)
(* removes output, undoes nothing the newest has done.                       *)
LEMMA Undisturbed ==
  ASSUME NEW v, Stands(v, session, rows), NEW se, NEW rw,
         se = session \/ ~Landed(v, "session"),
         ~Landed(v, "rows") \/ (DOMAIN rw \subseteq DOMAIN rows /\ (rows = <<>> => rw = <<>>))
  PROVE  Stands(v, se, rw)
<1>1. CASE v = Idle
  <2>1. v.step = "idle"
    BY <1>1 DEF Idle
  <2>2. Landed(v, "session") /\ Landed(v, "rows")
    BY <2>1, Zenon DEF Landed
  <2>3. se = session /\ DOMAIN rw \subseteq DOMAIN rows /\ (rows = <<>> => rw = <<>>)
    BY <2>2
  <2>4. AllDone(on, BuildSnapshot(layout), layout.panes, session, rows)
    BY <1>1, Zenon DEF Stands
  <2>5. AllDone(on, BuildSnapshot(layout), layout.panes, se, rw)
    <3>1. CASE on
      BY <2>3, <2>4, <3>1 DEF AllDone
    <3>2. CASE ~on
      BY <2>3, <2>4, <3>2, Zenon DEF AllDone
    <3> QED BY <3>1, <3>2
  <2> QED BY <1>1, <2>5, Zenon DEF Stands
<1>2. CASE v # Idle
  <2>1. Written(v, on, BuildSnapshot(layout), session, rows)
    BY <1>2, Zenon DEF Stands
  <2>2. Written(v, on, BuildSnapshot(layout), se, rw)
    <3>1. CASE on
      <4>1. /\ v.step \in {"session", "rows", "retain"} /\ v.snap = BuildSnapshot(layout)
            /\ v.step # "session" => session = <<BuildSnapshot(layout)>>
        BY <2>1, <3>1, Zenon DEF Written
      <4>2. v.step # "session" => Landed(v, "session")
        BY <4>1 DEF Landed
      <4>3. v.step # "session" => se = session
        BY <4>2
      <4> QED BY <3>1, <4>1, <4>3, Zenon DEF Written
    <3>2. CASE ~on
      <4>1. /\ v.step = "forget"
            /\ "session" \notin v.todo => session = <<>>
            /\ "rows" \notin v.todo => rows = <<>>
        BY <2>1, <3>2, Zenon DEF Written
      <4>2. /\ "session" \notin v.todo => Landed(v, "session")
            /\ "rows" \notin v.todo => Landed(v, "rows")
        BY <4>1, Zenon DEF Landed
      <4>3. /\ "session" \notin v.todo => se = session
            /\ "rows" \notin v.todo => (rows = <<>> => rw = <<>>)
        BY <4>2, Zenon
      <4> QED BY <3>2, <4>1, <4>3, Zenon DEF Written
    <3> QED BY <3>1, <3>2
  <2> QED BY <1>2, <2>2, Zenon DEF Stands
<1> QED BY <1>1, <1>2

(* A call that may undo what the newest save has done says so.               *)
LEMMA OvertakesSays ==
  ASSUME NEW s, NEW what, Overtakes(s, what), ~overtaken'
  PROVE  ~overtaken /\ (s # newest => ~Landed(saves[newest], what))
<1>1. overtaken' = (overtaken \/ (s # newest /\ Landed(saves[newest], what)))
  BY Zenon DEF Overtakes
<1>2. PICK a \in BOOLEAN : a <=> (s # newest /\ Landed(saves[newest], what))
  OBVIOUS
<1>3. ~(s # newest /\ Landed(saves[newest], what)) /\ ~overtaken
  BY <1>1
<1> QED BY <1>3, Zenon

(* A call that fails leaves nothing to claim until the next save.            *)
LEMMA FailsQuiet == ASSUME SessionInv', Fails PROVE QuietInv'
<1>1. missed'
  BY DEF Fails
<1> QED BY <1>1, NothingClaimed, Zenon DEF Trusted

(* A save begins: the snapshot of the layout, or the removal of everything.  *)
LEMMA StartQuiet ==
  ASSUME QuietInv, SessionInv', NEW s \in Slots, DebouncedSave(s) \/ FlushOnClose(s)
  PROVE  QuietInv'
<1>1. PICK v : v = IF on THEN [step |-> "session", snap |-> BuildSnapshot(layout)]
                   ELSE [step |-> "forget", todo |-> {"session", "rows"}]
  OBVIOUS
<1>2. saves' = [saves EXCEPT ![s] = v] /\ newest' = s
  BY <1>1, Zenon DEF DebouncedSave, FlushOnClose, StartSave
<1>3. DOMAIN saves = Slots
  BY HeldParts, Zenon DEF QuietInv, SavesHeld
<1>4. saves'[newest'] = v
  BY <1>2, <1>3
<1>5. \A se, rw : Stands(v, se, rw)
  <2>1. PICK snap : snap = BuildSnapshot(layout)
    OBVIOUS
  <2>2. CASE on
    <3>1. v = [step |-> "session", snap |-> snap]
      BY <1>1, <2>1, <2>2, Zenon
    <3>2. v.step = "session" /\ v.snap = snap
      BY <3>1
    <3>3. v # Idle /\ v.step \in {"session", "rows", "retain"}
      BY <3>2, NotIdle
    <3> QED BY <2>1, <2>2, <3>2, <3>3, Zenon DEF Written, Stands
  <2>3. CASE ~on
    <3>1. v = [step |-> "forget", todo |-> {"session", "rows"}]
      BY <1>1, <2>3, Zenon
    <3>2. v.step = "forget" /\ v.todo = {"session", "rows"}
      BY <3>1
    <3>3. v # Idle /\ "session" \in v.todo /\ "rows" \in v.todo
      BY <3>2, NotIdle
    <3> QED BY <2>3, <3>2, <3>3, Zenon DEF Written, Stands
  <2> QED BY <2>2, <2>3
<1>6. CASE DebouncedSave(s)
  <2>1. on' = on /\ layout' = layout
    BY <1>6, Zenon DEF DebouncedSave
  <2>2. Stands(saves[newest], session, rows)'
    BY <1>4, <1>5, <2>1, Zenon DEF Stands
  <2> QED BY <1>2, <2>2, Zenon DEF QuietInv
<1>7. CASE FlushOnClose(s)
  <2>1. phase' = "closing" \/ phase' = "closed"
    BY <1>7 DEF FlushOnClose
  <2>2. ~InUse'
    BY <2>1 DEF InUse
  <2> QED BY <2>2, NothingClaimed, Zenon DEF Trusted
<1> QED BY <1>6, <1>7

(* What is left of a save after its snapshot or a row is in the database.    *)
LEMMA WritingDone ==
  ASSUME NEW b, b, NEW snap, NEW todo, NEW se, se = <<snap>>, NEW rw
  PROVE  /\ WritingRows(snap, todo) # Idle
         /\ Written(WritingRows(snap, todo), b, snap, se, rw)
<1>1. PICK v : v = WritingRows(snap, todo)
  OBVIOUS
<1>2. v = [step |-> "retain", snap |-> snap] \/ v = [step |-> "rows", snap |-> snap, todo |-> todo]
  BY <1>1 DEF WritingRows
<1>3. v.step \in {"rows", "retain"} /\ v.snap = snap
  BY <1>2
<1>4. "rows" # "session" /\ "retain" # "session"
  OBVIOUS
<1>5. Written(v, b, snap, se, rw)
  BY <1>3, <1>4, Zenon DEF Written
<1>6. v # Idle
  BY <1>3, NotIdle
<1> QED BY <1>1, <1>5, <1>6, Zenon

(* A snapshot that is stored keeps it, ...                                   *)
LEMMA SnapshotLandsQuiet ==
  ASSUME QuietInv, SessionInv', NEW s \in Slots, SnapshotLands(s),
         UNCHANGED <<phase, on, layout, timer>>
  PROVE  QuietInv'
<1>1. PICK v : v = saves[s]
  OBVIOUS
<1>2. v.step = "session" /\ v # Idle /\ missed' = missed /\ rows' = rows /\ Overtakes(s, "session")
  BY <1>1, NotIdle DEF SnapshotLands
<1>3. PICK todo : /\ saves' = [saves EXCEPT ![s] = WritingRows(v.snap, todo)]
                  /\ session' = <<v.snap>>
  BY <1>1, Zenon DEF SnapshotLands, Goes
<1>4. PICK w : w = WritingRows(v.snap, todo)
  OBVIOUS
<1>5. newest' = newest
  BY <1>2, Zenon DEF Overtakes
<1>6. ASSUME Trusted'
      PROVE  /\ newest \in Slots
             /\ s = newest => Stands(w, session', rows')
             /\ s # newest => Stands(saves[newest], session', rows')
  <2>1. ~overtaken /\ (s # newest => ~Landed(saves[newest], "session"))
    BY <1>2, <1>6, OvertakesSays, Zenon DEF Trusted
  <2>2. newest \in Slots /\ Stands(saves[newest], session, rows)
    BY <1>2, <1>6, <2>1, DoneSoFar, Zenon
  <2>3. ASSUME s = newest PROVE Stands(w, session', rows')
    <3>1. Written(v, on, BuildSnapshot(layout), session, rows)
      BY <1>1, <1>2, <2>2, <2>3, Zenon DEF Stands
    <3>2. "session" # "forget"
      OBVIOUS
    <3>3. on /\ v.snap = BuildSnapshot(layout)
      BY <1>2, <3>1, <3>2, Zenon DEF Written
    <3>4. w # Idle /\ Written(w, on, v.snap, session', rows')
      BY <1>3, <1>4, <3>3, WritingDone, Zenon
    <3> QED BY <3>3, <3>4, Zenon DEF Stands
  <2>4. ASSUME s # newest PROVE Stands(saves[newest], session', rows')
    BY <1>2, <2>1, <2>2, <2>4, Undisturbed
  <2> QED BY <2>2, <2>3, <2>4
<1> QED BY <1>3, <1>4, <1>5, <1>6, SaveMoves, Zenon

(* ... and the output of one pane.                                           *)
LEMMA RowLandsQuiet ==
  ASSUME QuietInv, SessionInv', NEW s \in Slots, RowLands(s),
         UNCHANGED <<phase, on, layout, timer>>
  PROVE  QuietInv'
<1>1. PICK v : v = saves[s]
  OBVIOUS
<1>2. v.step = "rows" /\ v # Idle /\ missed' = missed /\ session' = session /\ Overtakes(s, "rows")
  BY <1>1, NotIdle DEF RowLands
<1>3. PICK todo : saves' = [saves EXCEPT ![s] = WritingRows(v.snap, todo)]
  BY <1>1, Zenon DEF RowLands, RowAnswered, Goes
<1>4. PICK w : w = WritingRows(v.snap, todo)
  OBVIOUS
<1>5. newest' = newest
  BY <1>2, Zenon DEF Overtakes
<1>6. ASSUME Trusted'
      PROVE  /\ newest \in Slots
             /\ s = newest => Stands(w, session', rows')
             /\ s # newest => Stands(saves[newest], session', rows')
  <2>1. ~overtaken /\ (s # newest => ~Landed(saves[newest], "rows"))
    BY <1>2, <1>6, OvertakesSays, Zenon DEF Trusted
  <2>2. newest \in Slots /\ Stands(saves[newest], session, rows)
    BY <1>2, <1>6, <2>1, DoneSoFar, Zenon
  <2>3. ASSUME s = newest PROVE Stands(w, session', rows')
    <3>1. Written(v, on, BuildSnapshot(layout), session, rows)
      BY <1>1, <1>2, <2>2, <2>3, Zenon DEF Stands
    <3>2. "rows" # "forget" /\ "rows" # "session"
      OBVIOUS
    <3>3. on /\ v.snap = BuildSnapshot(layout) /\ session = <<BuildSnapshot(layout)>>
      BY <1>2, <3>1, <3>2, Zenon DEF Written
    <3>4. session' = <<v.snap>>
      BY <1>2, <3>3, Zenon
    <3>5. w # Idle /\ Written(w, on, v.snap, session', rows')
      BY <1>4, <3>3, <3>4, WritingDone, Zenon
    <3> QED BY <3>3, <3>5, Zenon DEF Stands
  <2>4. ASSUME s # newest PROVE Stands(saves[newest], session', rows')
    BY <1>2, <2>1, <2>2, <2>4, Undisturbed
  <2> QED BY <2>2, <2>3, <2>4
<1> QED BY <1>3, <1>4, <1>5, <1>6, SaveMoves, Zenon

(* The panes of the snapshot of a layout are panes of the layout.            *)
LEMMA SnapshotPanes ==
  ASSUME NEW l, LayoutOK(l), NEW snap, snap = BuildSnapshot(l) PROVE PanesOf(snap) \subseteq l.panes
<1>1. SnapOK(snap) /\ \A i \in DOMAIN snap.tabs : PaneSet(snap.tabs[i].tree) \subseteq l.panes
  BY SnapshotOK, Zenon
<1>2. \A p \in PanesOf(snap) : \E i \in DOMAIN snap.tabs : p \in PaneSet(snap.tabs[i].tree)
  BY <1>1, SavedPanesAre, Zenon DEF PanesOf
<1> QED BY <1>1, <1>2

(* The last call of a save leaves only the output of panes that are there.   *)
LEMMA RetainLandsQuiet ==
  ASSUME QuietInv, SessionInv', NEW s \in Slots, RetainLands(s),
         UNCHANGED <<phase, on, layout, timer>>
  PROVE  QuietInv'
<1>1. PICK v : v = saves[s]
  OBVIOUS
<1>2. v.step = "retain" /\ v # Idle /\ missed' = missed /\ session' = session
      /\ newest' = newest /\ overtaken' = overtaken
  BY <1>1, NotIdle DEF RetainLands, orderVars
<1>3. saves' = [saves EXCEPT ![s] = Idle]
  BY Zenon DEF RetainLands, Goes
<1>4. /\ DOMAIN rows' \subseteq PanesOf(v.snap)
      /\ DOMAIN rows' \subseteq DOMAIN rows
      /\ rows = <<>> => rows' = <<>>
  <2>1. PICK S : S = DOMAIN rows \cap PanesOf(v.snap)
    OBVIOUS
  <2>2. rows' = Restrict(rows, S)
    BY <1>1, <2>1, Zenon DEF RetainLands
  <2>3. rows' = [k \in S |-> rows[k]]
    BY <2>2, Zenon DEF Restrict
  <2>4. DOMAIN rows' = S
    BY <2>3
  <2>5. ASSUME rows = <<>> PROVE rows' = <<>>
    <3>1. S = {}
      BY <2>1, <2>5
    <3> QED BY <2>3, <3>1
  <2> QED BY <2>1, <2>4, <2>5
<1>5. ASSUME Trusted'
      PROVE  /\ newest \in Slots
             /\ s = newest => Stands(Idle, session', rows')
             /\ s # newest => Stands(saves[newest], session', rows')
  <2>1. ~overtaken
    BY <1>2, <1>5 DEF Trusted
  <2>2. newest \in Slots /\ Stands(saves[newest], session, rows)
    BY <1>2, <1>5, <2>1, DoneSoFar, Zenon
  <2>3. ASSUME s = newest PROVE Stands(Idle, session', rows')
    <3>1. Written(v, on, BuildSnapshot(layout), session, rows)
      BY <1>1, <1>2, <2>2, <2>3, Zenon DEF Stands
    <3>2. "retain" # "forget" /\ "retain" # "session"
      OBVIOUS
    <3>3. on /\ v.snap = BuildSnapshot(layout) /\ session = <<BuildSnapshot(layout)>>
      BY <1>2, <3>1, <3>2, Zenon DEF Written
    <3>4. PICK snap : snap = v.snap
      OBVIOUS
    <3>5. PanesOf(snap) \subseteq layout.panes
      BY <3>3, <3>4, SnapshotPanes, Zenon DEF QuietInv, SessionInv, LayoutHeld
    <3>6. DOMAIN rows' \subseteq layout.panes
      BY <1>4, <3>4, <3>5, Zenon
    <3> QED BY <1>2, <3>3, <3>6, Zenon DEF Stands, AllDone
  <2>4. ASSUME s # newest PROVE Stands(saves[newest], session', rows')
    BY <1>2, <1>4, <2>2, Undisturbed
  <2> QED BY <2>2, <2>3, <2>4
<1> QED BY <1>2, <1>3, <1>5, SaveMoves, Zenon

(* The two removals of a setting switched off may land in either order.      *)
LEMMA ForgetQuiet ==
  ASSUME QuietInv, SessionInv', NEW s \in Slots, ForgetSession(s) \/ ForgetRows(s),
         UNCHANGED <<phase, on, layout, timer>>
  PROVE  QuietInv'
<1>1. PICK v : v = saves[s]
  OBVIOUS
<1>2. v.step = "forget" /\ v # Idle /\ missed' = missed
  BY <1>1, NotIdle DEF ForgetSession, ForgetRows
<1>3. v = [step |-> "forget", todo |-> v.todo]
  BY <1>1, <1>2, HeldParts, Zenon DEF QuietInv, SavesHeld, SaveHeld
<1>4. PICK what : /\ ForgetAnswered(s, what)
                  /\ \/ what = "session" /\ session' = <<>> /\ rows' = rows
                        /\ Overtakes(s, "session")
                     \/ what = "rows" /\ rows' = <<>> /\ session' = session
                        /\ UNCHANGED orderVars
  BY Zenon DEF ForgetSession, ForgetRows
<1>5. PICK todo : todo = v.todo \ {what}
  OBVIOUS
<1>6. PICK f : f = [step |-> "forget", todo |-> todo]
  OBVIOUS
<1>7. f.step = "forget" /\ f.todo = todo /\ [v EXCEPT !.todo = v.todo \ {what}] = f
  BY <1>3, <1>5, <1>6
<1>8. PICK w : w = IF v.todo = {what} THEN Idle ELSE f
  OBVIOUS
<1>9. saves' = [saves EXCEPT ![s] = w]
  <2>1. saves' = [saves EXCEPT ![s] = IF v.todo = {what} THEN Idle
                                      ELSE [v EXCEPT !.todo = v.todo \ {what}]]
    BY <1>1, <1>4 DEF ForgetAnswered, Goes
  <2> QED BY <1>7, <1>8, <2>1, Zenon
<1>10. newest' = newest
  BY <1>4, Zenon DEF Overtakes, orderVars
<1>11. ASSUME Trusted'
       PROVE  /\ newest \in Slots
              /\ s = newest => Stands(w, session', rows')
              /\ s # newest => Stands(saves[newest], session', rows')
  <2>0. ~overtaken'
    BY <1>11, Zenon DEF Trusted
  <2>1. /\ ~overtaken
        /\ \/ session' = session /\ rows' = <<>>
           \/ rows' = rows /\ (s # newest => ~Landed(saves[newest], "session"))
    <3>1. CASE Overtakes(s, "session") /\ rows' = rows
      BY <2>0, <3>1, OvertakesSays, Zenon
    <3>2. CASE UNCHANGED orderVars /\ session' = session /\ rows' = <<>>
      <4>1. overtaken' = overtaken
        BY <3>2, Zenon DEF orderVars
      <4> QED BY <2>0, <3>2, <4>1
    <3> QED BY <1>4, <3>1, <3>2, Zenon
  <2>2. newest \in Slots /\ Stands(saves[newest], session, rows)
    BY <1>2, <1>11, <2>1, DoneSoFar, Zenon
  <2>3. ASSUME s = newest PROVE Stands(w, session', rows')
    <3>1. Written(v, on, BuildSnapshot(layout), session, rows)
      BY <1>1, <1>2, <2>2, <2>3, Zenon DEF Stands
    <3>2. "forget" \notin {"session", "rows", "retain"}
      OBVIOUS
    <3>3. /\ ~on
          /\ "session" \notin v.todo => session = <<>>
          /\ "rows" \notin v.todo => rows = <<>>
      BY <1>2, <3>1, <3>2, Zenon DEF Written
    <3>4. /\ "session" \notin todo => session' = <<>>
          /\ "rows" \notin todo => rows' = <<>>
      BY <1>4, <1>5, <3>3
    <3>5. CASE v.todo = {what}
      <4>1. todo = {}
        BY <1>5, <3>5
      <4>2. session' = <<>> /\ rows' = <<>>
        BY <3>4, <4>1
      <4> QED BY <1>8, <3>3, <3>5, <4>2, Zenon DEF Stands, AllDone
    <3>6. CASE v.todo # {what}
      <4>1. w = f
        BY <1>8, <3>6
      <4>2. Written(w, on, BuildSnapshot(layout), session', rows')
        BY <1>7, <3>3, <3>4, <4>1, Zenon DEF Written
      <4>3. w # Idle
        BY <1>7, <4>1, NotIdle
      <4> QED BY <4>2, <4>3, Zenon DEF Stands
    <3> QED BY <3>5, <3>6
  <2>4. ASSUME s # newest PROVE Stands(saves[newest], session', rows')
    <3>1. DOMAIN rows' \subseteq DOMAIN rows /\ (rows = <<>> => rows' = <<>>)
      BY <2>1
    <3>2. session' = session \/ ~Landed(saves[newest], "session")
      BY <2>1, <2>4
    <3> QED BY <2>2, <3>1, <3>2, Undisturbed
  <2> QED BY <2>2, <2>3, <2>4
<1> QED BY <1>9, <1>10, <1>11, SaveMoves, Zenon

(* Every step of a save keeps it.                                            *)
LEMMA SavingQuiet == QuietInv /\ SessionInv' /\ Saving => QuietInv'
<1> SUFFICES ASSUME QuietInv, SessionInv', Saving PROVE QuietInv'
  OBVIOUS
<1>1. PICK s \in Slots :
        \/ DebouncedSave(s)
        \/ FlushOnClose(s)
        \/ /\ \/ SnapshotLands(s) \/ SnapshotFails(s)
              \/ RowLands(s) \/ RowFails(s)
              \/ RetainLands(s) \/ RetainFails(s)
              \/ ForgetSession(s) \/ ForgetRows(s) \/ ForgetFails(s)
           /\ UNCHANGED <<phase, pref, storeVars, paneVars>>
  BY Zenon DEF Saving
<1>2. CASE DebouncedSave(s) \/ FlushOnClose(s)
  BY <1>2, StartQuiet, Zenon
<1>3. CASE UNCHANGED <<phase, pref, storeVars, paneVars>>
  <2>1. UNCHANGED <<phase, on, layout, timer>>
    BY <1>3, Zenon DEF storeVars
  <2>2. ASSUME SnapshotFails(s) \/ RowFails(s) \/ RetainFails(s) \/ ForgetFails(s) PROVE QuietInv'
    <3>1. Fails
      BY <2>2, Zenon DEF SnapshotFails, RowFails, RetainFails, ForgetFails
    <3> QED BY <3>1, FailsQuiet, Zenon
  <2> QED BY <1>1, <1>2, <2>1, <2>2, SnapshotLandsQuiet, RowLandsQuiet, RetainLandsQuiet, ForgetQuiet,
             Zenon
<1> QED BY <1>1, <1>2, <1>3, Zenon

(* Whatever saves overlap, the newest has written what its calls have been   *)
(* answered for, of the layout as it is, unless another is due, a call has   *)
(* failed or an older save's call has come after it (store.ts saveSession,   *)
(* App.tsx).                                                                 *)
THEOREM DatabaseTellsLayout == SessionSpec => []QuietInv
<1>1. SessionInit => QuietInv
  BY InitQuiet
<1>2. QuietInv /\ [SessionNext]_sessionVars => QuietInv'
  <2> SUFFICES ASSUME QuietInv, [SessionNext]_sessionVars PROVE QuietInv'
    OBVIOUS
  <2>1. SessionInv'
    BY SessionStep, Zenon DEF QuietInv
  <2> QED BY <2>1, StartupQuiet, ArrangingQuiet, SettingQuiet, SavingQuiet, EndQuiet, Zenon DEF SessionNext
<1> QED BY <1>1, <1>2, PTL DEF SessionSpec

(* Once no save is due or under way the database holds the layout as it is   *)
(* and output of its panes alone, and with restore switched off, nothing,    *)
(* for any number of saves that overlap, unless a call of the newest failed  *)
(* or one of an older landed after the newest's own (store.ts saveSession,   *)
(* the effect of App.tsx).                                                   *)
THEOREM SavedOnceQuiet == SessionSpec => []SavedWhenQuiet
<1>1. ASSUME QuietInv, InUse, ~timer, AtRest, ~missed, ~overtaken
      PROVE  AllDone(on, BuildSnapshot(layout), layout.panes, session, rows)
  <2>1. newest \in Slots /\ Stands(saves[newest], session, rows)
    BY <1>1, Zenon DEF QuietInv, Trusted
  <2>2. saves[newest] = Idle
    BY <1>1, <2>1, Zenon DEF AtRest
  <2> QED BY <2>1, <2>2, Zenon DEF Stands
<1>2. QuietInv => SavedWhenQuiet
  BY <1>1, Zenon DEF AllDone, SavedWhenQuiet
<1> QED BY <1>2, DatabaseTellsLayout, PTL
=============================================================================
