--------------------------- MODULE InputGateProofs ---------------------------
(***************************************************************************)
(* Proofs about InputGate, for any set of calls, any number of bytes per   *)
(* call and any kernel buffer: types, that no write overtakes a held one,  *)
(* that acknowledged input is accounted for, that a call's data stays in   *)
(* one piece, and that a line editor's taking over destroys none of it.    *)
(***************************************************************************)
EXTENDS InputGate, TLAPS

(* Bytes name their call.                                                  *)
LEMMA Bytes ==
  /\ \A c \in Call : \A n \in 1..Pieces : ByteOf(c, n) \in Byte /\ Owner(ByteOf(c, n)) = c
  /\ \A b \in Byte : Owner(b) \in Call
  BY DEF Byte, ByteOf, Owner

LEMMA DataType ==
  ASSUME NEW c \in Call
  PROVE  /\ Data(c) \in Seq(Byte)
         /\ Len(Data(c)) = Pieces
         /\ \A n \in 1..Pieces : Data(c)[n] = ByteOf(c, n)
  BY PiecesPositive, Bytes DEF Data

(* Every step keeps every variable in its type.                            *)
LEMMA TypeStep == TypeOK /\ [Next]_vars => TypeOK'
<1> SUFFICES ASSUME TypeOK, [Next]_vars PROVE TypeOK'
  OBVIOUS
<1> USE PiecesPositive DEF TypeOK
<1>1. ASSUME NEW c \in Call, Write(c) PROVE TypeOK'
  <2>1. CASE Enter(c)
    BY <2>1 DEF Enter, Returned, gateVars, wireVars, childVars, lifeVars
  <2>2. CASE Hold(c)
    BY <2>2, DataType DEF Hold, wireVars, childVars, lifeVars
  <2>3. CASE Pass(c)
    BY <2>3 DEF Pass, gateVars, wireVars, childVars, lifeVars
  <2>4. CASE LockWriter(c)
    BY <2>4 DEF LockWriter, gateVars, childVars, lifeVars
  <2>5. CASE WriteByte(c)
    <3>1. ByteOf(c, Pieces - left[c] + 1) \in Byte
      BY <2>5, Bytes DEF WriteByte
    <3> QED
      BY <2>5, <3>1 DEF WriteByte, gateVars, childVars, lifeVars
  <2>6. CASE WriteFails(c)
    BY <2>6 DEF WriteFails, gateVars, childVars, lifeVars
  <2>7. CASE WriteDone(c)
    BY <2>7 DEF WriteDone, gateVars, childVars, lifeVars
  <2> QED
    BY <1>1, <2>1, <2>2, <2>3, <2>4, <2>5, <2>6, <2>7 DEF Write
<1>2. CASE StopPolling
  BY <1>2 DEF StopPolling, callVars, wireVars, childVars, lifeVars
<1>3. CASE OpenGate
  BY <1>3 DEF OpenGate, callVars, childVars, lifeVars
<1>4. CASE FlushByte
  <2>1. Head(pending) \in Byte /\ Tail(pending) \in Seq(Byte)
    BY <1>4 DEF FlushByte
  <2> QED
    BY <1>4, <2>1 DEF FlushByte, callVars, childVars, lifeVars
<1>5. CASE FlushEnds
  BY <1>5 DEF FlushEnds, callVars, childVars, lifeVars
<1>6. CASE TakeOver
  <2>1. \A i \in (taken + 1)..Len(sent) : sent[i] \in Byte
    OBVIOUS
  <2> QED
    BY <1>6, <2>1 DEF TakeOver, callVars, gateVars, wireVars, lifeVars
<1>7. CASE ChildReads
  BY <1>7 DEF ChildReads, callVars, gateVars, wireVars, lifeVars
<1>8. CASE ChildCloses
  BY <1>8 DEF ChildCloses, callVars, gateVars, wireVars, lifeVars
<1>9. CASE ReaderEof \/ DeadlinePasses \/ DropSession
  BY <1>9 DEF ReaderEof, DeadlinePasses, DropSession,
              callVars, gateVars, wireVars, childVars
<1>10. CASE UNCHANGED vars
  BY <1>10 DEF vars, callVars, gateVars, wireVars, childVars, lifeVars
<1> QED
  BY <1>1, <1>2, <1>3, <1>4, <1>5, <1>6, <1>7, <1>8, <1>9, <1>10 DEF Next, Watch

LEMMA TypeInit == Init => TypeOK
<1> SUFFICES ASSUME Init PROVE TypeOK
  OBVIOUS
<1>1. <<>> \in Seq(Byte)
  OBVIOUS
<1>2. 0 \in 0..Pieces
  BY PiecesPositive
<1> QED
  BY <1>1, <1>2 DEF Init, TypeOK

(* The variables stay in their types along every behaviour.                *)
THEOREM TypeCorrect == Spec => []TypeOK
  BY TypeInit, TypeStep, PTL DEF Spec

-----------------------------------------------------------------------------

(* What appending a byte, and the data of a call, do to what occurs.       *)
LEMMA OccursAppend ==
  ASSUME NEW s \in Seq(Byte), NEW b \in Byte, NEW x
  PROVE  Occurs(x, Append(s, b)) <=> Occurs(x, s) \/ x = b
<1> DEFINE t == Append(s, b)
<1>1. /\ Len(t) = Len(s) + 1
      /\ \A i \in 1..Len(s) : t[i] = s[i]
      /\ t[Len(s) + 1] = b
  OBVIOUS
<1> HIDE DEF t
<1>2. Occurs(x, t) <=> Occurs(x, s) \/ x = b
  BY <1>1 DEF Occurs
<1> QED
  BY <1>2 DEF t

LEMMA OccursConcat ==
  ASSUME NEW s \in Seq(Byte), NEW c \in Call
  PROVE  /\ \A x : Occurs(x, s) => Occurs(x, s \o Data(c))
         /\ \A n \in 1..Pieces : Occurs(ByteOf(c, n), s \o Data(c))
         /\ Len(s \o Data(c)) = Len(s) + Pieces
         /\ \A i \in 1..Len(s) : (s \o Data(c))[i] = s[i]
         /\ \A i \in (Len(s) + 1)..(Len(s) + Pieces) : Owner((s \o Data(c))[i]) = c
<1> DEFINE t == s \o Data(c)
<1>1. Data(c) \in Seq(Byte) /\ Len(Data(c)) = Pieces
  BY DataType
<1>2. /\ Len(t) = Len(s) + Pieces
      /\ \A i \in 1..Len(s) : t[i] = s[i]
      /\ \A i \in (Len(s) + 1)..Len(t) : t[i] = Data(c)[i - Len(s)]
  BY <1>1
<1>3. \A n \in 1..Pieces : Data(c)[n] = ByteOf(c, n)
  BY DataType
<1> HIDE DEF t
<1>4. \A i \in (Len(s) + 1)..Len(t) : t[i] = ByteOf(c, i - Len(s)) /\ i - Len(s) \in 1..Pieces
  BY <1>2, <1>3, PiecesPositive
<1>5. \A x : Occurs(x, s) => Occurs(x, t)
  BY <1>2, PiecesPositive DEF Occurs
<1>6. \A n \in 1..Pieces : Occurs(ByteOf(c, n), t)
  <2> TAKE n \in 1..Pieces
  <2>1. Len(s) + n \in (Len(s) + 1)..Len(t) /\ Len(s) + n \in 1..Len(t)
    BY <1>2, PiecesPositive
  <2>2. t[Len(s) + n] = ByteOf(c, n)
    BY <2>1, <1>4
  <2> QED
    BY <2>1, <2>2 DEF Occurs
<1>7. \A i \in (Len(s) + 1)..Len(t) : Owner(t[i]) = c
  BY <1>4, Bytes
<1> QED
  BY <1>2, <1>5, <1>6, <1>7 DEF t

(* Taking the head off the queue while it is written keeps what occurs.    *)
LEMMA TailFacts ==
  ASSUME NEW q \in Seq(Byte), q # <<>>
  PROVE  /\ Len(Tail(q)) = Len(q) - 1 /\ Len(q) \in Nat \ {0}
         /\ Head(q) = q[1]
         /\ \A i \in 1..Len(Tail(q)) : Tail(q)[i] = q[i + 1]
         /\ \A x : Occurs(x, q) => x = Head(q) \/ Occurs(x, Tail(q))
<1>1. /\ Len(Tail(q)) = Len(q) - 1
      /\ Len(q) \in Nat \ {0}
      /\ Head(q) = q[1]
      /\ \A i \in 1..Len(Tail(q)) : Tail(q)[i] = q[i + 1]
  OBVIOUS
<1>2. ASSUME NEW x, Occurs(x, q), x # Head(q) PROVE Occurs(x, Tail(q))
  <2>1. PICK i \in 1..Len(q) : q[i] = x
    BY <1>2 DEF Occurs
  <2>2. i - 1 \in 1..Len(Tail(q)) /\ Tail(q)[i - 1] = x
    BY <2>1, <1>1, <1>2
  <2> QED
    BY <2>2 DEF Occurs
<1> QED
  BY <1>1, <1>2

-----------------------------------------------------------------------------

(* The steps that neither move a byte nor change where a call is.          *)
Still == UNCHANGED <<pc, left, after, gate, pending, watcher, sent>> /\ (tty' => tty)

LEMMA StillKeepsInv == IInv /\ TypeOK' /\ Still => IInv'
<1> SUFFICES ASSUME IInv, TypeOK', Still PROVE IInv'
  OBVIOUS
<1>1. Phases' /\ Started'
  BY DEF IInv, Still, Phases, Started, Returned
<1>2. Accounted'
  BY DEF IInv, Still, Accounted, Returned
<1>3. QueueInOrder' /\ NoOvertaking'
  BY DEF IInv, Still, QueueInOrder, NoOvertaking
<1> QED
  BY <1>1, <1>2, <1>3 DEF IInv

LEMMA EnterKeepsInv ==
  ASSUME IInv, TypeOK', NEW c \in Call, Enter(c)
  PROVE  IInv'
<1> USE DEF IInv
<1>0. /\ UNCHANGED <<left, gate, pending, watcher, sent, tty>>
      /\ pc[c] = "idle"
      /\ \A d \in Call \ {c} : pc'[d] = pc[d] /\ after'[d] = after[d]
      /\ pc'[c] \in {"entered", "refused"}
      /\ after'[c] = Returned
      /\ sent \in Seq(Byte) /\ pending \in Seq(Byte)
  BY DEF Enter, TypeOK, gateVars, wireVars, childVars
<1>1. Returned' = Returned
  BY <1>0 DEF Returned
<1>2. Phases'
  BY <1>0 DEF Phases
<1>3. \A i \in 1..Len(sent) : Owner(sent[i]) \in Call \ {c}
  BY <1>0, Bytes DEF Started
<1>4. \A i \in 1..Len(pending) : Owner(pending[i]) \in Call \ {c}
  BY <1>0, Bytes DEF Started
<1>5. Started'
  BY <1>0, <1>1, <1>3, <1>4 DEF Started
<1>6. Accounted'
  BY <1>0, <1>1 DEF Accounted
<1>7. QueueInOrder'
  BY <1>0, <1>4 DEF QueueInOrder, InOrder
<1>8. NoOvertaking'
  BY <1>0, <1>3 DEF NoOvertaking, Ordered
<1> QED
  BY <1>2, <1>5, <1>6, <1>7, <1>8

LEMMA HoldKeepsInv ==
  ASSUME IInv, TypeOK', NEW c \in Call, Hold(c)
  PROVE  IInv'
<1> USE DEF IInv
<1> DEFINE q == pending \o Data(c)
<1>0. /\ UNCHANGED <<left, after, gate, watcher, sent, tty>>
      /\ pending' = q /\ gate = "held" /\ pc[c] = "entered" /\ pc'[c] = "ok"
      /\ \A d \in Call \ {c} : pc'[d] = pc[d]
      /\ sent \in Seq(Byte) /\ pending \in Seq(Byte) /\ Len(pending) \in Nat
  BY DEF Hold, TypeOK, wireVars, childVars
<1>1. /\ \A x : Occurs(x, pending) => Occurs(x, q)
      /\ \A n \in 1..Pieces : Occurs(ByteOf(c, n), q)
      /\ Len(q) = Len(pending) + Pieces
      /\ \A i \in 1..Len(pending) : q[i] = pending[i]
      /\ \A i \in (Len(pending) + 1)..(Len(pending) + Pieces) : Owner(q[i]) = c
  BY <1>0, OccursConcat
<1> HIDE DEF q
<1>2. \A i \in 1..Len(q) :
        \/ i \in 1..Len(pending) /\ q[i] = pending[i]
        \/ i > Len(pending) /\ Owner(q[i]) = c
  BY <1>0, <1>1, PiecesPositive
<1>3. Phases'
  BY <1>0 DEF Phases
<1>4. Returned' = Returned \cup {c}
  BY <1>0 DEF Returned
<1>5. \A i \in 1..Len(q) : pc'[Owner(q[i])] # "idle"
  BY <1>0, <1>2, Bytes DEF Started
<1>6. \A i \in 1..Len(sent) : pc'[Owner(sent[i])] # "idle"
  BY <1>0, Bytes DEF Started
<1>7. Started'
  BY <1>0, <1>4, <1>5, <1>6 DEF Started
<1>8. \A d \in Returned' : \A n \in 1..Pieces : Known(ByteOf(d, n), sent, q)
  BY <1>0, <1>1, <1>4 DEF Accounted, Known
<1>9. Accounted'
  <2>1. \A d \in Call : pc'[d] # "writing"
    BY <1>0 DEF Phases
  <2> QED
    BY <2>1, <1>0, <1>8 DEF Accounted
<1>10. ASSUME NEW i \in 1..Len(q), NEW a \in after[Owner(q[i])], NEW n \in 1..Pieces
       PROVE  Occurs(ByteOf(a, n), sent) \/ Ahead(ByteOf(a, n), q, i)
  <2>1. CASE i \in 1..Len(pending) /\ q[i] = pending[i]
    <3>1. Occurs(ByteOf(a, n), sent) \/ Ahead(ByteOf(a, n), pending, i)
      BY <2>1, <1>10 DEF QueueInOrder, InOrder
    <3>2. \A j \in 1..(i - 1) : q[j] = pending[j]
      BY <2>1, <1>0, <1>1
    <3> QED
      BY <3>1, <3>2 DEF Ahead
  <2>2. CASE i > Len(pending) /\ Owner(q[i]) = c
    <3>1. a \in Returned
      BY <2>2, <1>10 DEF Started
    <3>2. Occurs(ByteOf(a, n), sent) \/ Occurs(ByteOf(a, n), pending)
      BY <3>1, <1>0 DEF Accounted, Known
    <3>3. Occurs(ByteOf(a, n), pending) => Ahead(ByteOf(a, n), q, i)
      BY <2>2, <1>0, <1>1 DEF Occurs, Ahead
    <3> QED
      BY <3>2, <3>3
  <2> QED
    BY <2>1, <2>2, <1>2
<1>11. QueueInOrder'
  BY <1>0, <1>10 DEF QueueInOrder, InOrder
<1>12. NoOvertaking'
  BY <1>0 DEF NoOvertaking
<1> QED
  BY <1>3, <1>7, <1>9, <1>11, <1>12

(* A byte whose owner's predecessors are all there may be sent.            *)
LEMMA SendInOrder ==
  ASSUME NEW s \in Seq(Byte), NEW b \in Byte, NEW aft, Ordered(s, aft),
         \A a \in aft[Owner(b)] : \A n \in 1..Pieces : Occurs(ByteOf(a, n), s)
  PROVE  Ordered(Append(s, b), aft)
<1> DEFINE t == Append(s, b)
<1>1. /\ Len(t) = Len(s) + 1 /\ Len(s) \in Nat
      /\ \A i \in 1..Len(s) : t[i] = s[i]
      /\ t[Len(s) + 1] = b
  OBVIOUS
<1> HIDE DEF t
<1>2. ASSUME NEW i \in 1..Len(t), NEW a \in aft[Owner(t[i])], NEW n \in 1..Pieces
      PROVE  Ahead(ByteOf(a, n), t, i)
  <2>1. CASE i \in 1..Len(s)
    <3>1. Ahead(ByteOf(a, n), s, i)
      BY <2>1, <1>1, <1>2 DEF Ordered
    <3> QED
      BY <3>1, <2>1, <1>1 DEF Ahead
  <2>2. CASE i = Len(s) + 1
    <3>1. Occurs(ByteOf(a, n), s)
      BY <2>2, <1>1, <1>2
    <3> QED
      BY <3>1, <2>2, <1>1 DEF Ahead, Occurs
  <2> QED
    BY <2>1, <2>2, <1>1
<1> QED
  BY <1>2 DEF Ordered, t

(* Steps of a call past the gate, and of the watcher, that move no byte.   *)
LEMMA PassKeepsInv ==
  ASSUME IInv, TypeOK', NEW c \in Call,
         Pass(c) \/ LockWriter(c) \/ WriteFails(c)
  PROVE  IInv'
<1> USE DEF IInv
<1>0. /\ UNCHANGED <<after, gate, pending, watcher, sent, tty>>
      /\ gate = "open" \/ pc[c] \in {"direct", "writing"}
      /\ pc[c] \notin {"idle", "ok"} /\ pc'[c] \in {"direct", "writing", "failed"}
      /\ pc'[c] = "writing" => left'[c] = Pieces
      /\ \A d \in Call \ {c} : pc'[d] = pc[d] /\ left'[d] = left[d]
      /\ sent \in Seq(Byte) /\ pending \in Seq(Byte)
  BY PiecesPositive DEF Pass, LockWriter, WriteFails, TypeOK, gateVars, wireVars, childVars
<1>1. Returned' = Returned
  BY <1>0 DEF Returned
<1>2. Phases'
  BY <1>0 DEF Phases
<1>3. Started'
  <2>1. \A i \in 1..Len(sent) : Owner(sent[i]) \in Call
    BY <1>0, Bytes
  <2>2. \A i \in 1..Len(pending) : Owner(pending[i]) \in Call
    BY <1>0, Bytes
  <2> QED
    BY <2>1, <2>2, <1>0, <1>1 DEF Started
<1>4. Accounted'
  BY <1>0, <1>1, PiecesPositive DEF Accounted
<1>5. QueueInOrder' /\ NoOvertaking'
  BY <1>0 DEF QueueInOrder, NoOvertaking
<1> QED
  BY <1>2, <1>3, <1>4, <1>5

LEMMA WriteByteKeepsInv ==
  ASSUME IInv, TypeOK', NEW c \in Call, WriteByte(c)
  PROVE  IInv'
<1> USE DEF IInv
<1> DEFINE b == ByteOf(c, Pieces - left[c] + 1)
<1>0. /\ UNCHANGED <<pc, after, gate, pending, watcher, tty>>
      /\ pc[c] = "writing" /\ tty /\ sent' = Append(sent, b)
      /\ left[c] \in 1..Pieces /\ left'[c] = left[c] - 1
      /\ \A d \in Call \ {c} : left'[d] = left[d]
      /\ sent \in Seq(Byte) /\ after \in [Call -> SUBSET Call]
  BY DEF WriteByte, Room, TypeOK, gateVars, childVars
<1>1. b \in Byte /\ Owner(b) = c
  BY <1>0, Bytes, PiecesPositive
<1>2. gate = "open" /\ pending = <<>>
  BY <1>0 DEF Phases, TypeOK
<1> HIDE DEF b
<1>3. \A x : Occurs(x, sent') <=> Occurs(x, sent) \/ x = b
  BY <1>0, <1>1, OccursAppend
<1>4. Phases'
  BY <1>0 DEF Phases
<1>5. Started'
  <2>1. \A i \in 1..Len(sent') : Occurs(sent'[i], sent')
    BY DEF Occurs
  <2>2. \A x : Occurs(x, sent) => pc[Owner(x)] # "idle"
    BY DEF Started, Occurs
  <2>4. pc[Owner(b)] # "idle"
    BY <1>0, <1>1
  <2>5. \A i \in 1..Len(sent') : pc[Owner(sent'[i])] # "idle"
    BY <2>1, <2>2, <2>4, <1>3
  <2>3. Returned' = Returned
    BY <1>0 DEF Returned
  <2> QED
    BY <2>3, <2>5, <1>0 DEF Started
<1>6. Accounted'
  <2>1. Returned' = Returned
    BY <1>0 DEF Returned
  <2>2. \A d \in Returned : \A n \in 1..Pieces : Known(ByteOf(d, n), sent', pending)
    BY <1>0, <1>3 DEF Accounted, Known
  <2>3. ASSUME NEW d \in Call, pc[d] = "writing", NEW n \in 1..(Pieces - left'[d])
        PROVE  Occurs(ByteOf(d, n), sent')
    <3>1. CASE n \in 1..(Pieces - left[d])
      BY <3>1, <2>3, <1>3 DEF Accounted
    <3>2. CASE n \notin 1..(Pieces - left[d])
      <4>1. d = c /\ n = Pieces - left[c] + 1
        BY <3>2, <2>3, <1>0, PiecesPositive
      <4> QED
        BY <4>1, <1>3 DEF b
    <3> QED
      BY <3>1, <3>2
  <2> QED
    BY <2>1, <2>2, <2>3, <1>0 DEF Accounted
<1>7. QueueInOrder'
  BY <1>0, <1>2 DEF QueueInOrder, InOrder
<1>8. NoOvertaking'
  <2>1. \A a \in after[Owner(b)] : \A n \in 1..Pieces : Occurs(ByteOf(a, n), sent)
    BY <1>0, <1>1, <1>2 DEF Accounted, Started, Known, Occurs
  <2> QED
    BY <2>1, <1>0, <1>1, SendInOrder DEF NoOvertaking
<1> QED
  BY <1>4, <1>5, <1>6, <1>7, <1>8

LEMMA WriteDoneKeepsInv ==
  ASSUME IInv, TypeOK', NEW c \in Call, WriteDone(c)
  PROVE  IInv'
<1> USE DEF IInv
<1>0. /\ UNCHANGED <<left, after, gate, pending, watcher, sent, tty>>
      /\ pc[c] = "writing" /\ pc'[c] = "ok" /\ left[c] = 0
      /\ \A d \in Call \ {c} : pc'[d] = pc[d]
      /\ sent \in Seq(Byte) /\ pending \in Seq(Byte)
  BY DEF WriteDone, TypeOK, gateVars, childVars
<1>1. Returned' = Returned \cup {c}
  BY <1>0 DEF Returned
<1>2. Phases'
  BY <1>0 DEF Phases
<1>3. Started'
  <2>1. \A i \in 1..Len(sent) : Owner(sent[i]) \in Call
    BY <1>0, Bytes
  <2>2. \A i \in 1..Len(pending) : Owner(pending[i]) \in Call
    BY <1>0, Bytes
  <2> QED
    BY <2>1, <2>2, <1>0, <1>1 DEF Started
<1>4. Accounted'
  BY <1>0, <1>1, PiecesPositive DEF Accounted, Known
<1>5. QueueInOrder' /\ NoOvertaking'
  BY <1>0 DEF QueueInOrder, NoOvertaking
<1> QED
  BY <1>2, <1>3, <1>4, <1>5

LEMMA PollKeepsInv ==
  ASSUME IInv, TypeOK', StopPolling \/ OpenGate
  PROVE  IInv'
<1> USE DEF IInv
<1>0. /\ UNCHANGED <<pc, left, after, pending, sent, tty>>
      /\ gate = "held" /\ watcher \in {"polling", "opening"}
      /\ \/ gate' = "held" /\ watcher' = "opening"
         \/ gate' = "open" /\ watcher' = "done" /\ pending = <<>>
         \/ gate' = "flushing" /\ watcher' = "flushing"
  BY DEF StopPolling, OpenGate, Phases, callVars, wireVars, childVars
<1>1. Phases'
  BY <1>0 DEF Phases
<1>2. Started'
  BY <1>0 DEF Started, Returned
<1>3. Accounted'
  BY <1>0 DEF Accounted, Returned
<1>4. QueueInOrder' /\ NoOvertaking'
  BY <1>0 DEF QueueInOrder, NoOvertaking
<1> QED
  BY <1>1, <1>2, <1>3, <1>4

LEMMA FlushByteKeepsInv ==
  ASSUME IInv, TypeOK', FlushByte
  PROVE  IInv'
<1> USE DEF IInv
<1> DEFINE b == Head(pending)
           q == Tail(pending)
<1>0. /\ UNCHANGED <<pc, left, after, gate, watcher, tty>>
      /\ watcher = "flushing" /\ pending # <<>>
      /\ sent' = Append(sent, b) /\ pending' = q
      /\ sent \in Seq(Byte) /\ pending \in Seq(Byte)
  BY DEF FlushByte, TypeOK, callVars, childVars
<1>1. b \in Byte /\ q \in Seq(Byte)
  BY <1>0
<1>2. /\ Len(q) = Len(pending) - 1 /\ Len(pending) \in Nat \ {0}
      /\ b = pending[1]
      /\ \A i \in 1..Len(q) : q[i] = pending[i + 1]
      /\ \A x : Occurs(x, pending) => x = b \/ Occurs(x, q)
  BY <1>0, TailFacts
<1>3. gate = "flushing"
  BY <1>0 DEF Phases
<1> HIDE DEF b, q
<1>4. \A x : Occurs(x, sent') <=> Occurs(x, sent) \/ x = b
  BY <1>0, <1>1, OccursAppend
<1>5. Returned' = Returned
  BY <1>0 DEF Returned
<1>6. Phases'
  BY <1>0, <1>3 DEF Phases
<1>7. Started'
  <2>1. \A i \in 1..Len(sent') : Occurs(sent'[i], sent')
    BY DEF Occurs
  <2>2. \A x : Occurs(x, sent) => pc[Owner(x)] # "idle"
    BY DEF Started, Occurs
  <2>3. pc[Owner(b)] # "idle"
    BY <1>2 DEF Started
  <2>4. \A i \in 1..Len(sent') : pc[Owner(sent'[i])] # "idle"
    BY <2>1, <2>2, <2>3, <1>4
  <2>5. \A i \in 1..Len(q) : pc[Owner(q[i])] # "idle"
    BY <1>2 DEF Started
  <2> QED
    BY <2>4, <2>5, <1>0, <1>5 DEF Started
<1>8. Accounted'
  <2>1. \A x : Known(x, sent, pending) => Known(x, sent', q)
    BY <1>2, <1>4 DEF Known
  <2> QED
    BY <2>1, <1>0, <1>3, <1>4, <1>5 DEF Accounted
<1>9. ASSUME NEW i \in 1..Len(q), NEW a \in after[Owner(q[i])], NEW n \in 1..Pieces
      PROVE  Occurs(ByteOf(a, n), sent') \/ Ahead(ByteOf(a, n), q, i)
  <2>1. i + 1 \in 1..Len(pending) /\ q[i] = pending[i + 1] /\ i \in Nat
    BY <1>2
  <2>2. Occurs(ByteOf(a, n), sent) \/ Ahead(ByteOf(a, n), pending, i + 1)
    BY <2>1, <1>9 DEF QueueInOrder, InOrder
  <2>3. ASSUME NEW j \in 1..((i + 1) - 1), pending[j] = ByteOf(a, n)
        PROVE  ByteOf(a, n) = b \/ Ahead(ByteOf(a, n), q, i)
    <3>1. CASE j = 1
      BY <3>1, <2>3, <1>2
    <3>2. CASE j # 1
      <4>1. j - 1 \in 1..(i - 1) /\ j - 1 \in 1..Len(q)
        BY <3>2, <2>1, <1>2
      <4>2. q[j - 1] = pending[j]
        BY <4>1, <1>2
      <4> QED
        BY <4>1, <4>2, <2>3 DEF Ahead
    <3> QED
      BY <3>1, <3>2
  <2> QED
    BY <2>2, <2>3, <1>4 DEF Ahead
<1>10. QueueInOrder'
  BY <1>0, <1>9 DEF QueueInOrder, InOrder
<1>11. NoOvertaking'
  <2>1. 1 \in 1..Len(pending)
    BY <1>2
  <2>2. ASSUME NEW a \in after[Owner(b)], NEW n \in 1..Pieces
        PROVE  Occurs(ByteOf(a, n), sent)
    <3>1. Occurs(ByteOf(a, n), sent) \/ Ahead(ByteOf(a, n), pending, 1)
      BY <2>1, <2>2, <1>2 DEF QueueInOrder, InOrder
    <3> QED
      BY <3>1 DEF Ahead
  <2> QED
    BY <2>2, <1>0, <1>1, SendInOrder DEF NoOvertaking
<1> QED
  BY <1>6, <1>7, <1>8, <1>10, <1>11

LEMMA FlushEndsKeepsInv ==
  ASSUME IInv, TypeOK', FlushEnds
  PROVE  IInv'
<1> USE DEF IInv
<1>0. /\ UNCHANGED <<pc, left, after, sent, tty>>
      /\ watcher = "flushing" /\ watcher' = "done"
      /\ pending' = <<>> /\ gate' = "open"
      /\ pending = <<>> \/ ~tty
      /\ gate = "flushing" /\ Len(pending') = 0
  BY DEF FlushEnds, Phases, callVars, childVars
<1>1. Phases'
  BY <1>0 DEF Phases
<1>2. Started'
  BY <1>0 DEF Started, Returned
<1>3. Accounted'
  BY <1>0 DEF Accounted, Returned
<1>4. QueueInOrder'
  BY <1>0 DEF QueueInOrder, InOrder
<1>5. NoOvertaking'
  BY <1>0 DEF NoOvertaking
<1> QED
  BY <1>1, <1>2, <1>3, <1>4, <1>5

LEMMA InvStep == IInv /\ [Next]_vars => IInv'
<1> SUFFICES ASSUME IInv, [Next]_vars PROVE IInv'
  OBVIOUS
<1>0. TypeOK'
  BY TypeStep DEF IInv
<1>1. ASSUME NEW c \in Call, Write(c) PROVE IInv'
  BY <1>0, <1>1, EnterKeepsInv, HoldKeepsInv, PassKeepsInv, WriteByteKeepsInv,
     WriteDoneKeepsInv DEF Write
<1>2. CASE Watch
  BY <1>0, <1>2, PollKeepsInv, FlushByteKeepsInv, FlushEndsKeepsInv DEF Watch
<1>3. CASE TakeOver \/ ChildReads \/ ChildCloses \/ ReaderEof \/ DeadlinePasses
           \/ DropSession \/ UNCHANGED vars
  <2>1. Still
    BY <1>3 DEF Still, TakeOver, ChildReads, ChildCloses, ReaderEof, DeadlinePasses,
                DropSession, vars, callVars, gateVars, wireVars, childVars, lifeVars
  <2> QED
    BY <1>0, <2>1, StillKeepsInv
<1> QED
  BY <1>1, <1>2, <1>3 DEF Next

LEMMA InvInit == Init => IInv
<1> SUFFICES ASSUME Init PROVE IInv
  OBVIOUS
<1>1. TypeOK
  BY TypeInit
<1>2. Len(sent) = 0 /\ Len(pending) = 0
  BY DEF Init
<1>3. Phases /\ Started /\ Accounted
  BY <1>2 DEF Init, Phases, Started, Accounted, Returned
<1>4. QueueInOrder /\ NoOvertaking
  BY <1>2 DEF QueueInOrder, InOrder, NoOvertaking, Ordered
<1> QED
  BY <1>1, <1>3, <1>4 DEF IInv

LEMMA InvAlways == Spec => []IInv
  BY InvInit, InvStep, PTL DEF Spec

(* Input written after the gate opens never overtakes input that was held, *)
(* however many threads write and whatever the child does.                 *)
THEOREM InputInOrder == Spec => []NoOvertaking
<1>1. IInv => NoOvertaking
  BY DEF IInv
<1> QED
  BY <1>1, InvAlways, PTL

(* No acknowledged input vanishes while the child's terminal is open.      *)
THEOREM InputAccounted == Spec => []AckedAccounted
<1>1. IInv => AckedAccounted
  BY DEF IInv, Accounted, AckedAccounted
<1> QED
  BY <1>1, InvAlways, PTL

-----------------------------------------------------------------------------
(* Of one call's bytes one follows the other; between calls the last byte    *)
(* of one is followed by the first of another.                               *)
Follows(b, d) == d = <<b[1], b[2] + 1>> \/ (b[2] = Pieces /\ d[2] = 1)
Chain(s) == \A i \in 1..(Len(s) - 1) : Follows(s[i], s[i + 1])
AtRest(s) == s # <<>> => s[Len(s)][2] = Pieces

(* What an append, a whole call's data and the queue's tail make of a chain. *)
LEMMA ChainAppend ==
  ASSUME NEW s \in Seq(Byte), NEW b \in Byte, Chain(s), s # <<>> => Follows(s[Len(s)], b)
  PROVE  Chain(Append(s, b)) /\ Append(s, b) # <<>> /\ Append(s, b)[Len(Append(s, b))] = b
<1> DEFINE t == Append(s, b)
<1>1. /\ t \in Seq(Byte) /\ Len(t) = Len(s) + 1 /\ Len(s) \in Nat
      /\ \A i \in 1..Len(s) : t[i] = s[i]
      /\ t[Len(s) + 1] = b
      /\ t # <<>> /\ (s = <<>> <=> Len(s) = 0)
  OBVIOUS
<1> HIDE DEF t
<1>2. ASSUME NEW i \in 1..(Len(t) - 1) PROVE Follows(t[i], t[i + 1])
  <2>1. CASE i = Len(s)
    BY <1>1, <2>1
  <2>2. CASE i # Len(s)
    <3>1. i \in 1..(Len(s) - 1) /\ i \in 1..Len(s) /\ i + 1 \in 1..Len(s)
      BY <1>1, <2>2
    <3>2. Follows(s[i], s[i + 1])
      BY <3>1 DEF Chain
    <3> QED BY <1>1, <3>1, <3>2
  <2> QED BY <2>1, <2>2
<1>3. Chain(t)
  BY <1>2 DEF Chain
<1> QED BY <1>1, <1>3 DEF t

LEMMA ChainData ==
  ASSUME NEW s \in Seq(Byte), NEW c \in Call, Chain(s), AtRest(s)
  PROVE  Chain(s \o Data(c)) /\ AtRest(s \o Data(c)) /\ s \o Data(c) # <<>>
<1> DEFINE t == s \o Data(c)
<1>1. /\ Data(c) \in Seq(Byte) /\ Len(Data(c)) = Pieces
      /\ \A n \in 1..Pieces : Data(c)[n] = ByteOf(c, n)
  BY DataType
<1>2. /\ t \in Seq(Byte) /\ Len(t) = Len(s) + Pieces /\ Len(s) \in Nat
      /\ \A i \in 1..Len(s) : t[i] = s[i]
      /\ \A i \in (Len(s) + 1)..Len(t) : t[i] = Data(c)[i - Len(s)]
      /\ s = <<>> <=> Len(s) = 0
  BY <1>1
<1> HIDE DEF t
<1>3. \A i \in (Len(s) + 1)..Len(t) : i - Len(s) \in 1..Pieces /\ t[i] = ByteOf(c, i - Len(s))
  BY <1>1, <1>2, PiecesPositive
<1>4. Len(t) \in Nat \ {0} /\ Len(t) \in (Len(s) + 1)..Len(t) /\ Len(t) - Len(s) = Pieces
  BY <1>2, PiecesPositive
<1>5. t # <<>> /\ t[Len(t)][2] = Pieces
  <2>1. t[Len(t)] = ByteOf(c, Pieces)
    BY <1>3, <1>4
  <2>2. t # <<>>
    BY <1>4
  <2> QED BY <2>1, <2>2 DEF ByteOf
<1>6. ASSUME NEW i \in 1..(Len(t) - 1) PROVE Follows(t[i], t[i + 1])
  <2>1. CASE i < Len(s)
    <3>1. i \in 1..(Len(s) - 1) /\ i \in 1..Len(s) /\ i + 1 \in 1..Len(s)
      BY <1>2, <2>1
    <3>2. Follows(s[i], s[i + 1])
      BY <3>1 DEF Chain
    <3> QED BY <1>2, <3>1, <3>2
  <2>2. CASE i = Len(s)
    <3>1. i \in 1..Len(s) /\ i + 1 \in (Len(s) + 1)..Len(t) /\ (i + 1) - Len(s) = 1 /\ s # <<>>
      BY <1>2, <1>4, <2>2
    <3>2. t[i + 1] = ByteOf(c, 1) /\ t[i] = s[Len(s)]
      BY <1>2, <1>3, <2>2, <3>1
    <3>3. t[i][2] = Pieces /\ t[i + 1][2] = 1
      BY <3>1, <3>2 DEF AtRest, ByteOf
    <3> QED BY <3>3 DEF Follows
  <2>3. CASE i > Len(s)
    <3>1. /\ i \in (Len(s) + 1)..Len(t) /\ i + 1 \in (Len(s) + 1)..Len(t)
          /\ (i + 1) - Len(s) = (i - Len(s)) + 1
      BY <1>2, <1>4, <2>3
    <3>2. t[i] = ByteOf(c, i - Len(s)) /\ t[i + 1] = ByteOf(c, (i - Len(s)) + 1)
      BY <1>3, <3>1
    <3> QED BY <3>2 DEF Follows, ByteOf
  <2>4. i < Len(s) \/ i = Len(s) \/ i > Len(s)
    BY <1>2, <1>4
  <2> QED BY <2>1, <2>2, <2>3, <2>4
<1>7. Chain(t) /\ AtRest(t)
  BY <1>5, <1>6 DEF Chain, AtRest
<1> QED BY <1>5, <1>7 DEF t

LEMMA ChainTail ==
  ASSUME NEW q \in Seq(Byte), q # <<>>, Chain(q), AtRest(q)
  PROVE  /\ Chain(Tail(q)) /\ AtRest(Tail(q))
         /\ Tail(q) = <<>> => Head(q)[2] = Pieces
         /\ Tail(q) # <<>> => Follows(Head(q), Tail(q)[1])
<1> DEFINE t == Tail(q)
<1>1. /\ t \in Seq(Byte) /\ Len(t) = Len(q) - 1 /\ Len(q) \in Nat \ {0} /\ Head(q) = q[1]
      /\ \A i \in 1..Len(t) : t[i] = q[i + 1]
  BY TailFacts
<1>5. t = <<>> <=> Len(t) = 0
  BY <1>1
<1> HIDE DEF t
<1>2. ASSUME NEW i \in 1..(Len(t) - 1) PROVE Follows(t[i], t[i + 1])
  <2>1. i \in 1..Len(t) /\ i + 1 \in 1..Len(t) /\ i + 1 \in 1..(Len(q) - 1)
    BY <1>1
  <2>2. Follows(q[i + 1], q[(i + 1) + 1])
    BY <2>1 DEF Chain
  <2> QED BY <1>1, <2>1, <2>2
<1>3. CASE t = <<>>
  <2>1. Len(q) = 1
    BY <1>1, <1>3, <1>5
  <2>2. Head(q)[2] = Pieces
    BY <1>1, <2>1 DEF AtRest
  <2> QED BY <1>2, <1>3, <2>2 DEF Chain, AtRest, t
<1>4. CASE t # <<>>
  <2>1. 1 \in 1..(Len(q) - 1) /\ 1 \in 1..Len(t) /\ Len(t) \in 1..Len(t) /\ Len(t) + 1 = Len(q)
    BY <1>1, <1>4, <1>5
  <2>2. t[1] = q[1 + 1] /\ t[Len(t)] = q[Len(q)]
    BY <1>1, <2>1
  <2>3. Follows(Head(q), t[1])
    BY <1>1, <2>1, <2>2 DEF Chain
  <2>4. t[Len(t)][2] = Pieces
    BY <2>2 DEF AtRest
  <2> QED BY <1>2, <1>4, <2>3, <2>4 DEF Chain, AtRest, t
<1> QED BY <1>3, <1>4

(* Who may write: nobody while the gate is held, the watcher while it writes *)
(* the queue out, and then the call that holds the writer.                   *)
Locks ==
  /\ gate = "held" => writer = "none" /\ sent = <<>>
  /\ gate = "flushing" <=> writer = "watcher"
  /\ \A c \in Call : pc[c] = "writing" <=> writer = c

(* Every step keeps to it.                                                   *)
LEMMA StepLocks == IInv /\ Locks /\ [Next]_vars => Locks'
<1> SUFFICES ASSUME IInv, Locks, [Next]_vars PROVE Locks'
  OBVIOUS
<1>a. /\ gate = "held" <=> watcher \in {"polling", "opening"}
      /\ gate = "flushing" <=> watcher = "flushing"
      /\ gate # "open" => \A c \in Call : pc[c] \notin {"direct", "writing", "failed"}
      /\ gate \in {"held", "flushing", "open"}
      /\ pc \in [Call -> {"idle", "refused", "entered", "direct", "writing", "failed", "ok"}]
  BY DEF IInv, Phases, TypeOK
<1>b. /\ gate = "held" => writer = "none" /\ sent = <<>>
      /\ gate = "flushing" <=> writer = "watcher"
      /\ \A c \in Call : pc[c] = "writing" <=> writer = c
  BY DEF Locks
<1>t. \A c \in Call : c # "none" /\ c # "watcher"
  BY CallTags
<1> USE DEF Locks, callVars, gateVars, wireVars, childVars, lifeVars
<1>1. ASSUME NEW c \in Call, Write(c) PROVE Locks'
  <2>1. CASE Enter(c) \/ Hold(c) \/ Pass(c)
    <3>1. /\ UNCHANGED <<gate, writer, sent>> /\ pc[c] \in {"idle", "entered"}
          /\ pc'[c] # "writing" /\ \A d \in Call \ {c} : pc'[d] = pc[d]
      BY <1>a, <2>1 DEF Enter, Hold, Pass
    <3> QED BY <1>b, <3>1
  <2>2. CASE LockWriter(c)
    <3>1. /\ UNCHANGED <<gate, sent>> /\ writer = "none" /\ writer' = c /\ pc[c] = "direct"
          /\ pc'[c] = "writing" /\ \A d \in Call \ {c} : pc'[d] = pc[d]
      BY <1>a, <2>2 DEF LockWriter
    <3>2. gate = "open"
      BY <1>a, <3>1
    <3>3. \A d \in Call : pc[d] # "writing"
      BY <1>b, <1>t, <3>1
    <3> QED BY <1>t, <3>1, <3>2, <3>3
  <2>3. CASE WriteByte(c)
    <3>1. UNCHANGED <<gate, writer, pc>> /\ pc[c] = "writing"
      BY <2>3 DEF WriteByte
    <3> QED BY <1>a, <1>b, <3>1
  <2>4. CASE WriteFails(c) \/ WriteDone(c)
    <3>1. /\ UNCHANGED <<gate, sent>> /\ writer' = "none" /\ pc[c] = "writing"
          /\ pc'[c] # "writing" /\ \A d \in Call \ {c} : pc'[d] = pc[d]
      BY <1>a, <2>4 DEF WriteFails, WriteDone
    <3>2. gate = "open" /\ writer = c
      BY <1>a, <1>b, <3>1
    <3> QED BY <1>b, <1>t, <3>1, <3>2
  <2> QED BY <1>1, <2>1, <2>2, <2>3, <2>4 DEF Write
<1>2. CASE OpenGate
  <2>1. /\ gate = "held" /\ UNCHANGED <<pc, sent>>
        /\ (gate' = "open" /\ writer' = writer) \/ (gate' = "flushing" /\ writer' = "watcher")
    BY <1>2 DEF OpenGate
  <2>2. \A c \in Call : pc[c] # "writing"
    BY <1>a, <2>1
  <2> QED BY <1>b, <1>t, <2>1, <2>2
<1>3. CASE FlushByte
  <2>1. watcher = "flushing" /\ UNCHANGED <<gate, writer, pc>>
    BY <1>3 DEF FlushByte
  <2> QED BY <1>a, <1>b, <2>1
<1>4. CASE FlushEnds
  <2>1. watcher = "flushing" /\ gate' = "open" /\ writer' = "none" /\ UNCHANGED pc
    BY <1>4 DEF FlushEnds
  <2>2. gate = "flushing" /\ \A c \in Call : pc[c] # "writing"
    BY <1>a, <2>1
  <2> QED BY <1>t, <2>1, <2>2
<1>5. CASE StopPolling \/ TakeOver \/ ChildReads \/ ChildCloses \/ ReaderEof
           \/ DeadlinePasses \/ DropSession \/ UNCHANGED vars
  <2>1. UNCHANGED <<gate, writer, pc, sent>>
    BY <1>5 DEF StopPolling, TakeOver, ChildReads, ChildCloses, ReaderEof, DeadlinePasses,
                DropSession, vars
  <2> QED BY <1>b, <2>1
<1> QED BY <1>1, <1>2, <1>3, <1>4, <1>5 DEF Next, Watch

(* Where the stream is cut: the queue holds whole calls, and what is sent    *)
(* ends with one too, or with as much as the writing call has written.  Only *)
(* the end of the terminal leaves a call half written, and then nothing      *)
(* follows it.                                                               *)
Pieced ==
  /\ Chain(sent) /\ Chain(pending) /\ AtRest(pending)
  /\ sent # <<>> /\ pending # <<>> => Follows(sent[Len(sent)], pending[1])
  /\ tty /\ pending = <<>> /\ writer \notin Call => AtRest(sent)
  /\ tty => \A c \in Call : pc[c] = "writing" =>
       \/ left[c] = Pieces /\ AtRest(sent)
       \/ left[c] < Pieces /\ sent # <<>> /\ sent[Len(sent)] = ByteOf(c, Pieces - left[c])

(* Every step keeps it so, whoever writes.                                   *)
LEMMA StepPieced == IInv /\ Locks /\ Pieced /\ [Next]_vars => Pieced'
<1> SUFFICES ASSUME IInv, Locks, Pieced, [Next]_vars PROVE Pieced'
  OBVIOUS
<1>a. /\ gate = "held" <=> watcher \in {"polling", "opening"}
      /\ gate = "flushing" <=> watcher = "flushing"
      /\ gate = "open" => pending = <<>>
      /\ gate # "open" => \A c \in Call : pc[c] \notin {"direct", "writing", "failed"}
      /\ gate \in {"held", "flushing", "open"}
      /\ pc \in [Call -> {"idle", "refused", "entered", "direct", "writing", "failed", "ok"}]
      /\ tty \in BOOLEAN /\ left \in [Call -> 0..Pieces] /\ pending \in Seq(Byte) /\ sent \in Seq(Byte)
  BY DEF IInv, Phases, TypeOK
<1>b. /\ gate = "held" => writer = "none" /\ sent = <<>>
      /\ gate = "flushing" <=> writer = "watcher"
      /\ \A c \in Call : pc[c] = "writing" <=> writer = c
  BY DEF Locks
<1>t. \A c \in Call : c # "none" /\ c # "watcher"
  BY CallTags
<1>e. ASSUME UNCHANGED <<sent, pending>>,
             tty' => tty, writer' \notin Call => writer \notin Call,
             \A c \in Call : pc'[c] = "writing" => pc[c] = "writing" /\ left'[c] = left[c]
      PROVE  Pieced'
  <2>1. sent' = sent /\ pending' = pending
    BY <1>e
  <2> QED BY <1>e, <2>1 DEF Pieced
<1>n. Chain(<<>>) /\ AtRest(<<>>)
  BY DEF Chain, AtRest
<1> USE DEF callVars, gateVars, wireVars, childVars, lifeVars
<1>1. ASSUME NEW c \in Call, Enter(c) \/ Pass(c) PROVE Pieced'
  <2>1. /\ UNCHANGED <<sent, pending, tty, writer, left>>
        /\ pc'[c] # "writing" /\ \A d \in Call \ {c} : pc'[d] = pc[d]
    BY <1>a, <1>1 DEF Enter, Pass
  <2> QED BY <1>e, <2>1
<1>2. ASSUME NEW c \in Call, Hold(c) PROVE Pieced'
  <2>1. /\ UNCHANGED <<sent, tty, writer, left>> /\ gate = "held" /\ pending' = pending \o Data(c)
        /\ pc'[c] # "writing" /\ \A d \in Call \ {c} : pc'[d] = pc[d]
    BY <1>a, <1>2 DEF Hold
  <2>2. sent = <<>> /\ \A d \in Call : pc'[d] # "writing"
    BY <1>a, <1>b, <2>1
  <2>3. Chain(pending') /\ AtRest(pending') /\ pending' # <<>>
    BY <1>a, <2>1, ChainData DEF Pieced
  <2> QED BY <2>1, <2>2, <2>3, <1>n DEF Pieced
<1>3. ASSUME NEW c \in Call, LockWriter(c) PROVE Pieced'
  <2>1. /\ UNCHANGED <<sent, pending, tty>> /\ writer = "none" /\ writer' = c /\ pc[c] = "direct"
        /\ pc'[c] = "writing" /\ left'[c] = Pieces /\ \A d \in Call \ {c} : pc'[d] = pc[d]
    BY <1>a, <1>3 DEF LockWriter
  <2>2. pending = <<>> /\ writer \notin Call /\ \A d \in Call : pc[d] # "writing"
    BY <1>a, <1>b, <1>t, <2>1
  <2>3. tty => AtRest(sent)
    BY <2>1, <2>2 DEF Pieced
  <2>4. \A d \in Call : pc'[d] = "writing" => d = c
    BY <2>1, <2>2
  <2> QED BY <2>1, <2>2, <2>3, <2>4 DEF Pieced
<1>4. ASSUME NEW c \in Call, WriteByte(c) PROVE Pieced'
  <2> DEFINE k == Pieces - left[c] + 1
             b == ByteOf(c, k)
  <2>1. /\ UNCHANGED <<pending, tty, writer, pc>> /\ pc[c] = "writing" /\ tty
        /\ sent' = Append(sent, b) /\ left[c] \in 1..Pieces
        /\ left'[c] = left[c] - 1
    BY <1>a, <1>4 DEF WriteByte, Room
  <2>2. k \in 1..Pieces /\ k = Pieces - left'[c] /\ left'[c] < Pieces
    BY <2>1, PiecesPositive
  <2>3. b \in Byte
    BY <2>2, Bytes
  <2>4. sent # <<>> => Follows(sent[Len(sent)], b)
    <3>1. CASE left[c] = Pieces /\ AtRest(sent)
      <4>1. k = 1
        BY <3>1, PiecesPositive
      <4> QED BY <3>1, <4>1 DEF AtRest, Follows, ByteOf
    <3>2. CASE sent[Len(sent)] = ByteOf(c, Pieces - left[c])
      BY <3>2 DEF Follows, ByteOf
    <3> QED BY <2>1, <3>1, <3>2 DEF Pieced
  <2> HIDE DEF b, k
  <2>5. Chain(sent') /\ sent' # <<>> /\ sent'[Len(sent')] = b
    BY <1>a, <2>1, <2>3, <2>4, ChainAppend DEF Pieced
  <2>6. pending = <<>> /\ writer = c /\ \A d \in Call : pc[d] = "writing" => d = c
    BY <1>a, <1>b, <2>1
  <2>7. sent'[Len(sent')] = ByteOf(c, Pieces - left'[c])
    BY <2>2, <2>5 DEF b
  <2> QED BY <1>n, <2>1, <2>2, <2>5, <2>6, <2>7 DEF Pieced
<1>5. ASSUME NEW c \in Call, WriteFails(c) \/ WriteDone(c) PROVE Pieced'
  <2>1. /\ UNCHANGED <<sent, pending, tty, left>> /\ writer' = "none" /\ pc[c] = "writing"
        /\ left[c] = 0 \/ ~tty
        /\ pc'[c] # "writing" /\ \A d \in Call \ {c} : pc'[d] = pc[d]
    BY <1>a, <1>5 DEF WriteFails, WriteDone
  <2>2. \A d \in Call : pc'[d] # "writing"
    BY <1>b, <2>1
  <2>3. tty => AtRest(sent)
    <3> SUFFICES ASSUME tty PROVE AtRest(sent)
      OBVIOUS
    <3>1. left[c] = 0 /\ Pieces # 0 /\ Pieces - 0 = Pieces
      BY <2>1, PiecesPositive
    <3>2. sent[Len(sent)] = ByteOf(c, Pieces)
      BY <2>1, <3>1 DEF Pieced
    <3> QED BY <3>2 DEF AtRest, ByteOf
  <2> QED BY <2>1, <2>2, <2>3 DEF Pieced
<1>6. CASE OpenGate
  <2>1. /\ gate = "held" /\ UNCHANGED <<sent, pending, tty, pc, left>>
    BY <1>6 DEF OpenGate
  <2>2. writer \notin Call
    BY <1>b, <1>t, <2>1
  <2> QED BY <1>e, <2>1, <2>2
<1>7. CASE FlushByte
  <2>1. /\ watcher = "flushing" /\ pending # <<>> /\ pending' = Tail(pending)
        /\ sent' = Append(sent, Head(pending)) /\ UNCHANGED <<tty, pc, left, writer>>
    BY <1>7 DEF FlushByte
  <2>2. /\ Head(pending) \in Byte /\ Head(pending) = pending[1]
        /\ \A d \in Call : pc[d] # "writing"
    BY <1>a, <2>1
  <2>3. Chain(sent') /\ sent' # <<>> /\ sent'[Len(sent')] = Head(pending)
    BY <1>a, <2>1, <2>2, ChainAppend DEF Pieced
  <2>4. /\ Chain(pending') /\ AtRest(pending')
        /\ pending' = <<>> => Head(pending)[2] = Pieces
        /\ pending' # <<>> => Follows(Head(pending), pending'[1])
    BY <1>a, <2>1, ChainTail DEF Pieced
  <2>5. pending' = <<>> => AtRest(sent')
    BY <2>3, <2>4 DEF AtRest
  <2> QED BY <2>1, <2>2, <2>3, <2>4, <2>5 DEF Pieced
<1>8. CASE FlushEnds
  <2>1. /\ watcher = "flushing" /\ writer' = "none" /\ UNCHANGED <<tty, pc, left, sent>>
        /\ pending' = <<>> /\ (pending = <<>> \/ ~tty)
    BY <1>8 DEF FlushEnds
  <2>2. writer \notin Call /\ \A d \in Call : pc[d] # "writing"
    BY <1>a, <1>b, <1>t, <2>1
  <2>3. tty => AtRest(sent)
    BY <2>1, <2>2 DEF Pieced
  <2>7. Chain(sent)
    BY DEF Pieced
  <2>4. sent' = sent /\ tty' = tty /\ pending' = <<>>
    BY <2>1, Zenon
  <2>5. \A d \in Call : pc'[d] # "writing"
    BY <2>1, <2>2
  <2>6. Chain(pending') /\ AtRest(pending')
    BY <1>n, <2>4
  <2> QED BY <2>3, <2>4, <2>5, <2>6, <2>7 DEF Pieced
<1>9. CASE StopPolling \/ TakeOver \/ ChildReads \/ ChildCloses \/ ReaderEof
           \/ DeadlinePasses \/ DropSession \/ UNCHANGED vars
  <2>1. UNCHANGED <<sent, pending, writer, pc, left>> /\ (tty' = tty \/ ~tty')
    BY <1>9 DEF StopPolling, TakeOver, ChildReads, ChildCloses, ReaderEof, DeadlinePasses,
                DropSession, vars
  <2>2. tty' => tty
    BY <1>a, <2>1, Zenon
  <2>3. UNCHANGED <<sent, pending, writer, pc, left>>
    BY <2>1
  <2> QED BY <1>e, <2>2, <2>3
<1> QED BY <1>1, <1>2, <1>3, <1>4, <1>5, <1>6, <1>7, <1>8, <1>9 DEF Next, Watch, Write

(* While the session lives, its terminal is open and canonical and the       *)
(* deadline has not passed, the watcher has no reason to stop polling.       *)
Armed ==
  /\ alive \/ ~tty
  /\ tty /\ mode = "canonical" /\ ~expired /\ master => watcher = "polling"

(* Every step keeps it armed: the child, the clock and the owner end it.     *)
LEMMA StepArmed == IInv /\ Armed /\ [Next]_vars => Armed'
<1> SUFFICES ASSUME IInv, Armed, [Next]_vars PROVE Armed'
  OBVIOUS
<1>a. /\ alive \/ ~tty
      /\ tty /\ mode = "canonical" /\ ~expired /\ master => watcher = "polling"
      /\ mode \in {"canonical", "raw"}
      /\ alive \in BOOLEAN /\ tty \in BOOLEAN /\ expired \in BOOLEAN /\ master \in BOOLEAN
  BY DEF Armed, IInv, TypeOK
<1> USE DEF callVars, gateVars, wireVars, childVars, lifeVars
<1>1. ASSUME NEW c \in Call, Write(c) PROVE Armed'
  <2>1. UNCHANGED <<alive, tty, mode, expired, master, watcher>>
    BY <1>1 DEF Write, Enter, Hold, Pass, LockWriter, WriteByte, WriteFails, WriteDone
  <2> QED BY <1>a, <2>1 DEF Armed
<1>2. CASE StopPolling
  <2>1. /\ expired \/ ~alive \/ TRUE \in AcceptsInput
        /\ UNCHANGED <<alive, tty, mode, expired, master>>
    BY <1>2 DEF StopPolling
  <2>2. expired \/ ~alive \/ ~master \/ mode = "raw"
    BY <2>1 DEF AcceptsInput
  <2> QED BY <1>a, <2>1, <2>2 DEF Armed
<1>3. CASE OpenGate \/ FlushByte \/ FlushEnds
  <2>1. watcher # "polling" /\ UNCHANGED <<alive, tty, mode, expired, master>>
    BY <1>3 DEF OpenGate, FlushByte, FlushEnds
  <2> QED BY <1>a, <2>1 DEF Armed
<1>4. CASE TakeOver \/ ChildReads \/ ChildCloses \/ ReaderEof \/ DeadlinePasses
           \/ DropSession \/ UNCHANGED vars
  <2>1. /\ watcher' = watcher
        /\ \/ mode' = "raw" /\ UNCHANGED <<tty, alive, expired, master>>
           \/ (tty' = tty \/ ~tty') /\ UNCHANGED <<mode, alive, expired, master>>
           \/ ~tty /\ UNCHANGED <<tty, mode, expired, master>>
           \/ expired' /\ UNCHANGED <<tty, mode, alive, master>>
           \/ ~master' /\ UNCHANGED <<tty, mode, alive, expired>>
    BY <1>4 DEF TakeOver, ChildReads, ChildCloses, ReaderEof, DeadlinePasses, DropSession, vars
  <2> QED BY <1>a, <2>1 DEF Armed
<1> QED BY <1>1, <1>2, <1>3, <1>4 DEF Next, Watch

(* The child's taking over finds nothing sent then.                          *)
LEMMA StepKept ==
  IInv /\ Locks /\ Armed /\ TakeOverDestroysNothing /\ [Next]_vars => TakeOverDestroysNothing'
<1> SUFFICES ASSUME IInv, Locks, Armed, TakeOverDestroysNothing, [Next]_vars
             PROVE  TakeOverDestroysNothing'
  OBVIOUS
<1>a. (destroyed # {} => expired \/ ~master) /\ expired \in BOOLEAN /\ master \in BOOLEAN
  BY DEF TakeOverDestroysNothing, IInv, TypeOK
<1> USE DEF callVars, gateVars, wireVars, childVars, lifeVars
<1>1. ASSUME NEW c \in Call, Write(c) PROVE TakeOverDestroysNothing'
  <2>1. UNCHANGED <<destroyed, expired, master>>
    BY <1>1 DEF Write, Enter, Hold, Pass, LockWriter, WriteByte, WriteFails, WriteDone
  <2> QED BY <1>a, <2>1 DEF TakeOverDestroysNothing
<1>2. CASE TakeOver
  <2>1. /\ tty /\ mode = "canonical" /\ UNCHANGED <<expired, master>>
        /\ destroyed' = destroyed \cup {sent[i] : i \in (taken + 1)..Len(sent)}
    BY <1>2 DEF TakeOver
  <2>2. ASSUME ~expired, master PROVE destroyed' = {}
    <3>1. sent = <<>> /\ taken \in Nat
      BY <2>1, <2>2 DEF Armed, Locks, IInv, Phases, TypeOK
    <3>2. (taken + 1)..Len(sent) = {}
      BY <3>1
    <3> QED BY <1>a, <2>1, <2>2, <3>2
  <2> QED BY <2>1, <2>2 DEF TakeOverDestroysNothing
<1>3. CASE Watch \/ ChildReads \/ ChildCloses \/ ReaderEof \/ DeadlinePasses
           \/ DropSession \/ UNCHANGED vars
  <2>1. UNCHANGED destroyed /\ (expired' = expired \/ expired') /\ (master' = master \/ ~master')
    BY <1>3 DEF Watch, StopPolling, OpenGate, FlushByte, FlushEnds, ChildReads, ChildCloses,
                ReaderEof, DeadlinePasses, DropSession, vars
  <2> QED BY <1>a, <2>1 DEF TakeOverDestroysNothing
<1> QED BY <1>1, <1>2, <1>3 DEF Next

(* The stronger invariant the two theorems below rest on.                    *)
WireInv == Locks /\ Pieced /\ Armed /\ TakeOverDestroysNothing

LEMMA WireAlways == Spec => []WireInv
<1>1. Init => WireInv
  <2> SUFFICES ASSUME Init PROVE WireInv
    OBVIOUS
  <2>1. Locks /\ Armed /\ TakeOverDestroysNothing
    BY CallTags DEF Init, Locks, Armed, TakeOverDestroysNothing
  <2>2. Pieced
    <3>1. sent = <<>> /\ pending = <<>> /\ \A c \in Call : pc[c] # "writing"
      BY DEF Init
    <3> QED BY <3>1 DEF Pieced, Chain, AtRest
  <2> QED BY <2>1, <2>2 DEF WireInv
<1>2. IInv /\ WireInv /\ [Next]_vars => WireInv'
  BY StepLocks, StepPieced, StepArmed, StepKept DEF WireInv
<1> QED BY <1>1, <1>2, InvAlways, PTL DEF Spec

(* The data of a call reaches the child in one piece, however many threads   *)
(* write while the watcher opens the gate.                                   *)
THEOREM CallsInOnePiece == Spec => []Contiguous
<1>1. WireInv => Contiguous
  BY DEF WireInv, Pieced, Chain, Follows, Contiguous
<1> QED BY <1>1, WireAlways, PTL

(* A line editor that takes the terminal over in time destroys no input:     *)
(* until then none was sent.                                                 *)
THEOREM NothingDestroyed == Spec => []TakeOverDestroysNothing
<1>1. WireInv => TakeOverDestroysNothing
  BY DEF WireInv
<1> QED BY <1>1, WireAlways, PTL
=============================================================================
