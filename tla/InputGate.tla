------------------------------ MODULE InputGate ------------------------------
(***************************************************************************)
(* User input on its way to a pane's child process (terminal-core, pty.rs). *)
(*                                                                         *)
(* Input written before the child has taken over the terminal is held in   *)
(* pending_input; a watcher thread opens the gate when the child clears    *)
(* ICANON, when the deadline passes, or when the session is dead.  Any     *)
(* number of threads call write() at once: each call is its own thread of  *)
(* control here, so a thread that writes twice is the special case of two  *)
(* calls where the second starts after the first has returned.             *)
(***************************************************************************)
EXTENDS Naturals, Sequences, FiniteSets

CONSTANTS
  Call,       \* the calls of PtySession::write
  Pieces,     \* bytes of each call's data: write_all may need a syscall for each
  KernelBuf   \* bytes the line discipline holds before a write blocks

ASSUME CallFinite == IsFiniteSet(Call)
ASSUME CallTags == {"watcher", "none"} \cap Call = {}
ASSUME PiecesPositive == Pieces \in Nat \ {0}
ASSUME KernelBufPositive == KernelBuf \in Nat \ {0}

VARIABLES
  pc,         \* where each call of write is
  left,       \* bytes a direct call has still to write
  after,      \* history: calls that had returned Ok when this one started
  gate,       \* "held": input is queued; "flushing": the watcher holds the lock
              \* and writes the queue out; "open": pending_input is None
  pending,    \* the queued bytes, or those the watcher has still to write
  watcher,    \* "polling", "opening", "flushing", "done"
  writer,     \* who holds the writer mutex: a call, "watcher" or "none"
  sent,       \* every byte the master accepted, in order
  taken,      \* how many of them have left the line discipline's queue
  destroyed,  \* bytes the child's TCSAFLUSH threw away
  mode,       \* the child's terminal mode: "canonical" or "raw"
  tty,        \* whether the child side of the pty is open
  alive,      \* the session's flag, cleared by the reader at EOF
  expired,    \* whether INPUT_GATE_MAX has passed
  master      \* whether the session still owns the master descriptor

callVars  == <<pc, left, after>>
gateVars  == <<gate, pending, watcher>>
wireVars  == <<writer, sent>>
childVars == <<taken, destroyed, mode, tty>>
lifeVars  == <<alive, expired, master>>
vars == <<callVars, gateVars, wireVars, childVars, lifeVars>>

Byte == Call \X (1..Pieces)
ByteOf(c, n) == <<c, n>>
Data(c) == [n \in 1..Pieces |-> ByteOf(c, n)]

Init ==
  /\ pc = [c \in Call |-> "idle"]
  /\ left = [c \in Call |-> 0]
  /\ after = [c \in Call |-> {}]
  /\ gate = "held" /\ pending = <<>> /\ watcher = "polling"
  /\ writer = "none" /\ sent = <<>>
  /\ taken = 0 /\ destroyed = {} /\ mode = "canonical" /\ tty = TRUE
  /\ alive = TRUE /\ expired = FALSE /\ master = TRUE

Returned == {c \in Call : pc[c] = "ok"}

(***************************************************************************)
(* PtySession::write                                                       *)
(***************************************************************************)

\* The is_alive check.  Only a session somebody still owns can be called.
Enter(c) ==
  /\ pc[c] = "idle" /\ master
  /\ pc' = [pc EXCEPT ![c] = IF alive THEN "entered" ELSE "refused"]
  /\ after' = [after EXCEPT ![c] = Returned]
  /\ UNCHANGED <<left, gateVars, wireVars, childVars, lifeVars>>

\* pending_input is Some: the data joins the queue and the call succeeds.
Hold(c) ==
  /\ pc[c] = "entered" /\ gate = "held"
  /\ pending' = pending \o Data(c)
  /\ pc' = [pc EXCEPT ![c] = "ok"]
  /\ UNCHANGED <<left, after, gate, watcher, wireVars, childVars, lifeVars>>

\* pending_input is None: the lock is dropped, the writer still to be taken.
Pass(c) ==
  /\ pc[c] = "entered" /\ gate = "open"
  /\ pc' = [pc EXCEPT ![c] = "direct"]
  /\ UNCHANGED <<left, after, gateVars, wireVars, childVars, lifeVars>>

\* Mutant: write goes ahead without the writer mutex.
LockWriterUnlocked(c) ==
  /\ pc[c] = "direct"
  /\ left' = [left EXCEPT ![c] = Pieces]
  /\ pc' = [pc EXCEPT ![c] = "writing"]
  /\ UNCHANGED <<after, wireVars, gateVars, childVars, lifeVars>>

LockWriter(c) ==
  /\ pc[c] = "direct" /\ writer = "none"
  /\ writer' = c
  /\ left' = [left EXCEPT ![c] = Pieces]
  /\ pc' = [pc EXCEPT ![c] = "writing"]
  /\ UNCHANGED <<after, sent, gateVars, childVars, lifeVars>>

\* The line discipline takes a byte while the child side is open and it has room.
Room == tty /\ Len(sent) - taken < KernelBuf

WriteByte(c) ==
  /\ pc[c] = "writing" /\ left[c] > 0 /\ Room
  /\ sent' = Append(sent, ByteOf(c, Pieces - left[c] + 1))
  /\ left' = [left EXCEPT ![c] = @ - 1]
  /\ UNCHANGED <<pc, after, writer, gateVars, childVars, lifeVars>>

\* write_all fails once the child side is gone: the error is the call's answer.
WriteFails(c) ==
  /\ pc[c] = "writing" /\ left[c] > 0 /\ ~tty
  /\ pc' = [pc EXCEPT ![c] = "failed"]
  /\ writer' = "none"
  /\ UNCHANGED <<left, after, sent, gateVars, childVars, lifeVars>>

WriteDone(c) ==
  /\ pc[c] = "writing" /\ left[c] = 0
  /\ pc' = [pc EXCEPT ![c] = "ok"]
  /\ writer' = "none"
  /\ UNCHANGED <<left, after, sent, gateVars, childVars, lifeVars>>

(***************************************************************************)
(* The readiness watcher                                                   *)
(***************************************************************************)

\* What tcgetattr on the remembered descriptor can answer.  Once the session is
\* dropped the number may name anything, so the answer is arbitrary.
AcceptsInput == IF master THEN {mode = "raw"} ELSE BOOLEAN

\* Mutant: no deadline, so only a line editor opens the gate.
StopPollingNoDeadline ==
  /\ watcher = "polling"
  /\ ~alive \/ TRUE \in AcceptsInput
  /\ watcher' = "opening"
  /\ UNCHANGED <<callVars, gate, pending, wireVars, childVars, lifeVars>>

\* Mutant: the gate opens on a prompt's output instead of on the child's mode.
StopPollingOnOutput ==
  /\ watcher = "polling"
  /\ watcher' = "opening"
  /\ UNCHANGED <<callVars, gate, pending, wireVars, childVars, lifeVars>>

StopPolling ==
  /\ watcher = "polling"
  /\ expired \/ ~alive \/ TRUE \in AcceptsInput
  /\ watcher' = "opening"
  /\ UNCHANGED <<callVars, gate, pending, wireVars, childVars, lifeVars>>

\* Mutant: the lock goes before the queue is written out.
OpenGateUnlocked ==
  /\ watcher = "opening" /\ gate = "held"
  /\ gate' = "open" /\ watcher' = "flushing" /\ UNCHANGED writer
  /\ UNCHANGED <<callVars, pending, sent, childVars, lifeVars>>

\* Mutant: the gate opens and the queue is forgotten.
OpenGateDropsQueue ==
  /\ watcher = "opening" /\ gate = "held"
  /\ gate' = "open" /\ watcher' = "done" /\ pending' = <<>>
  /\ UNCHANGED <<callVars, wireVars, childVars, lifeVars>>

\* Take the queue under the lock; an empty one opens the gate at once.  While
\* the gate is held no call has passed it, so the writer is free to be taken.
OpenGate ==
  /\ watcher = "opening" /\ gate = "held"
  /\ IF pending = <<>>
       THEN gate' = "open" /\ watcher' = "done" /\ UNCHANGED writer
       ELSE /\ writer = "none" /\ writer' = "watcher"
            /\ gate' = "flushing" /\ watcher' = "flushing"
  /\ UNCHANGED <<callVars, pending, sent, childVars, lifeVars>>

FlushByte ==
  /\ watcher = "flushing" /\ pending # <<>> /\ Room
  /\ sent' = Append(sent, Head(pending))
  /\ pending' = Tail(pending)
  /\ UNCHANGED <<callVars, gate, watcher, writer, childVars, lifeVars>>

\* Both locks go at the end of the block.  A failed flush is not reported to
\* anybody: the calls that queued the data have long returned Ok.
FlushEnds ==
  /\ watcher = "flushing"
  /\ pending = <<>> \/ ~tty
  /\ pending' = <<>> /\ gate' = "open"
  /\ watcher' = "done" /\ writer' = "none"
  /\ UNCHANGED <<callVars, sent, childVars, lifeVars>>

(***************************************************************************)
(* The child, the reader thread and the clock                              *)
(***************************************************************************)

\* The line editor's tcsetattr(TCSAFLUSH): raw mode, and queued input is gone.
TakeOver ==
  /\ tty /\ mode = "canonical"
  /\ mode' = "raw"
  /\ destroyed' = destroyed \cup {sent[i] : i \in (taken + 1)..Len(sent)}
  /\ taken' = Len(sent)
  /\ UNCHANGED <<tty, callVars, gateVars, wireVars, lifeVars>>

ChildReads ==
  /\ tty /\ taken < Len(sent)
  /\ taken' = taken + 1
  /\ UNCHANGED <<destroyed, mode, tty, callVars, gateVars, wireVars, lifeVars>>

ChildCloses ==
  /\ tty /\ tty' = FALSE
  /\ UNCHANGED <<taken, destroyed, mode, callVars, gateVars, wireVars, lifeVars>>

ReaderEof ==
  /\ ~tty /\ alive /\ alive' = FALSE
  /\ UNCHANGED <<callVars, gateVars, wireVars, childVars, expired, master>>

DeadlinePasses ==
  /\ ~expired /\ expired' = TRUE
  /\ UNCHANGED <<callVars, gateVars, wireVars, childVars, alive, master>>

\* close() kills and drops the session.  A call in progress keeps it: the caller
\* holds an Arc.  The watcher holds none, so it does not.
DropSession ==
  /\ master /\ \A c \in Call : pc[c] \notin {"entered", "direct", "writing"}
  /\ master' = FALSE
  /\ UNCHANGED <<callVars, gateVars, wireVars, childVars, alive, expired>>

Write(c) ==
  \/ Enter(c) \/ Hold(c) \/ Pass(c) \/ LockWriter(c)
  \/ WriteByte(c) \/ WriteFails(c) \/ WriteDone(c)

Watch == StopPolling \/ OpenGate \/ FlushByte \/ FlushEnds

Next ==
  \/ \E c \in Call : Write(c)
  \/ Watch
  \/ TakeOver \/ ChildReads \/ ChildCloses
  \/ ReaderEof \/ DeadlinePasses \/ DropSession

Spec == Init /\ [][Next]_vars

(***************************************************************************)
(* Fairness: the threads the code starts run, time passes, and the child   *)
(* reads what it is sent.  Nothing makes the child take over the terminal. *)
(***************************************************************************)
Fairness ==
  /\ \A c \in Call : WF_vars(Hold(c) \/ Pass(c) \/ WriteByte(c) \/ WriteFails(c) \/ WriteDone(c))
  /\ \A c \in Call : SF_vars(LockWriter(c))
  /\ WF_vars(Watch)
  /\ WF_vars(DeadlinePasses) /\ WF_vars(ChildReads)

FairSpec == Spec /\ Fairness

-----------------------------------------------------------------------------

TypeOK ==
  /\ pc \in [Call -> {"idle", "refused", "entered", "direct", "writing", "failed", "ok"}]
  /\ left \in [Call -> 0..Pieces]
  /\ after \in [Call -> SUBSET Call]
  /\ gate \in {"held", "flushing", "open"}
  /\ pending \in Seq(Byte)
  /\ watcher \in {"polling", "opening", "flushing", "done"}
  /\ writer \in Call \cup {"watcher", "none"}
  /\ sent \in Seq(Byte)
  /\ taken \in Nat
  /\ destroyed \subseteq Byte
  /\ mode \in {"canonical", "raw"}
  /\ tty \in BOOLEAN /\ alive \in BOOLEAN /\ expired \in BOOLEAN /\ master \in BOOLEAN

Owner(b) == b[1]
Occurs(b, s) == \E i \in 1..Len(s) : s[i] = b
AllOccur(c, s) == \A n \in 1..Pieces : Occurs(ByteOf(c, n), s)
Ahead(b, s, i) == \E j \in 1..(i - 1) : s[j] = b
Ordered(s, aft) ==
  \A i \in 1..Len(s) : \A a \in aft[Owner(s[i])] : \A n \in 1..Pieces :
    Ahead(ByteOf(a, n), s, i)

(* A write that arrives after the gate opened never overtakes one that was  *)
(* held: when a byte reaches the child, every byte of every call that had   *)
(* returned before its own call began is already ahead of it.               *)
NoOvertaking == Ordered(sent, after)

(* The data of one call reaches the child in one piece, whatever the other  *)
(* threads and the watcher are writing.                                     *)
Contiguous ==
  \A i \in 1..(Len(sent) - 1) :
    \/ sent[i + 1] = <<sent[i][1], sent[i][2] + 1>>
    \/ sent[i][2] = Pieces /\ sent[i + 1][2] = 1

(* Input a caller was told Ok about is queued or written; only the end of   *)
(* the child's terminal excuses its loss.                                   *)
Known(b, s, q) == Occurs(b, s) \/ Occurs(b, q)
AckedAccounted ==
  tty => \A c \in Returned : \A n \in 1..Pieces : Known(ByteOf(c, n), sent, pending)

(* The inductive strengthening of NoOvertaking and AckedAccounted: no call  *)
(* is past the gate before it opens, nothing idle has bytes anywhere, what  *)
(* a writing call has no more left is sent, and the queue is in order.      *)
Phases ==
  /\ gate = "held" <=> watcher \in {"polling", "opening"}
  /\ gate = "flushing" <=> watcher = "flushing"
  /\ gate = "open" => pending = <<>>
  /\ gate # "open" => \A c \in Call : pc[c] \notin {"direct", "writing", "failed"}

Started ==
  /\ \A i \in 1..Len(sent) : pc[Owner(sent[i])] # "idle"
  /\ \A i \in 1..Len(pending) : pc[Owner(pending[i])] # "idle"
  /\ \A c \in Call : after[c] \subseteq Returned

Accounted ==
  /\ tty \/ gate # "open" =>
       \A c \in Returned : \A n \in 1..Pieces : Known(ByteOf(c, n), sent, pending)
  /\ \A c \in Call : pc[c] = "writing" =>
       \A n \in 1..(Pieces - left[c]) : Occurs(ByteOf(c, n), sent)

InOrder(s, q, aft) ==
  \A i \in 1..Len(q) : \A a \in aft[Owner(q[i])] : \A n \in 1..Pieces :
    Occurs(ByteOf(a, n), s) \/ Ahead(ByteOf(a, n), q, i)
QueueInOrder == InOrder(sent, pending, after)

IInv == TypeOK /\ Phases /\ Started /\ Accounted /\ QueueInOrder /\ NoOvertaking

(* The gate does what it is for: a line editor taking over the terminal     *)
(* destroys no input, as long as it does so before INPUT_GATE_MAX and the   *)
(* session is still there for the watcher to ask.                           *)
TakeOverDestroysNothing == destroyed # {} => expired \/ ~master

(* Held input is not held forever: what was acknowledged is eventually with *)
(* the child, for a program that never leaves canonical mode too.           *)
AckedDelivered ==
  \A c \in Call : pc[c] = "ok" ~> (~tty \/ AllOccur(c, sent))

(* The safety comment of accepts_input: the descriptor the watcher polls is *)
(* owned by the session and open for as long as the watcher runs.           *)
WatcherDescriptorOpen == watcher = "polling" => master
=============================================================================
