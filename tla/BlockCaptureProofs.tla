-------------------------- MODULE BlockCaptureProofs --------------------------
(***************************************************************************)
(* Proofs that the builder's Blocks are those the stream marks, for every  *)
(* stream, every way of cutting it into reads and batches, and every       *)
(* number of markers.                                                      *)
(*                                                                         *)
(* The argument compares the pump with one scan of the whole stream:       *)
(* At(stream, n) is that scan's machine after n bytes.  The pump's machine *)
(* is always it, and the signals of a batch are its markers (Pumping); the *)
(* builder has then handled as many markers as the scan shows by the batch *)
(* (Control), and holds the bytes before them, in order (Kept); each byte  *)
(* it has seen is in the Block that shall have it, or carried as the head  *)
(* of the marker the batch was cut in, or excused (Decided, Carried).      *)
(***************************************************************************)
EXTENDS BlockCapture, SequenceInduction


-----------------------------------------------------------------------------
(* The machine.  What it keeps, and the part of it that decides what it does.*)
ScanStates == {"Ground", "Escape", "Csi", "Osc", "OscEscape", "String", "StringEscape"}
Hits == [start : Int, end : Nat, payload : Seq(Tokens)]
Modes == [enabled : BOOLEAN, end : Nat]
Scanners == [state : ScanStates, payload : Seq(Tokens), overflowed : BOOLEAN, start : Int,
             hits : Seq(Hits), modes : Seq(Modes)]

Alike(s, r) == s.state = r.state /\ s.payload = r.payload /\ s.overflowed = r.overflowed

(* What ends a sequence, as a hit, and what changes screens.                 *)
Closes(s, b) == (s.state = "Osc" /\ b = "BEL") \/ (s.state = "OscEscape" /\ b = "\\")
HitBy(s, b) == Closes(s, b) /\ ~s.overflowed /\ s.payload # <<>>
ModeBy(s, b) == s.state = "Csi" /\ b \in {"h", "l"}
OpensBy(s, b) == s.state = "Escape" /\ b = "]"

HitAt(s, at) == [start |-> s.start, end |-> at + 1, payload |-> s.payload]
ModeAt(b, at) == [enabled |-> b = "h", end |-> at + 1]

LEMMA ScannerFields ==
  ASSUME NEW s \in Scanners
  PROVE  /\ s = [state |-> s.state, payload |-> s.payload, overflowed |-> s.overflowed,
                 start |-> s.start, hits |-> s.hits, modes |-> s.modes]
         /\ s.state \in ScanStates /\ s.payload \in Seq(Tokens) /\ s.overflowed \in BOOLEAN
         /\ s.start \in Int /\ s.hits \in Seq(Hits) /\ s.modes \in Seq(Modes)
  BY DEF Scanners

LEMMA PayloadPushed ==
  ASSUME NEW s \in Scanners, NEW b \in Tokens
  PROVE  /\ PushPayload(s, b) \in Scanners
         /\ PushPayload(s, b).state = s.state /\ PushPayload(s, b).start = s.start
         /\ PushPayload(s, b).hits = s.hits /\ PushPayload(s, b).modes = s.modes
         /\ PushPayload(s, b).overflowed = (s.overflowed \/ Len(s.payload) >= MaxPayload)
         /\ PushPayload(s, b).payload = IF Len(s.payload) >= MaxPayload THEN s.payload ELSE Append(s.payload, b)
<1>1. Append(s.payload, b) \in Seq(Tokens) /\ s.overflowed \in BOOLEAN
  BY DEF Scanners
<1> QED BY <1>1 DEF Scanners, PushPayload

(* One byte: what it makes of the machine, of its hits and of its start.     *)
Scanned(s, at, b, t) ==
  /\ t \in Scanners
  /\ t.hits = IF HitBy(s, b) THEN Append(s.hits, HitAt(s, at)) ELSE s.hits
  /\ t.modes = IF ModeBy(s, b) THEN Append(s.modes, ModeAt(b, at)) ELSE s.modes
  /\ OpensBy(s, b) => InsideOsc(t) /\ t.start = IF at = 0 THEN None ELSE at - 1
  /\ InsideOsc(t) => OpensBy(s, b) \/ (InsideOsc(s) /\ t.start = s.start)
  /\ t.state = "Escape" => b = "ESC"
  /\ HitBy(s, b) => InsideOsc(s) /\ t.state = "Ground"

LEMMA ScanDoes ==
  ASSUME NEW s \in Scanners, NEW at \in Nat, NEW b \in Tokens
  PROVE  Scanned(s, at, b, Scan(s, at, b))
<1> DEFINE t == Scan(s, at, b)
<1>f. /\ s = [state |-> s.state, payload |-> s.payload, overflowed |-> s.overflowed,
              start |-> s.start, hits |-> s.hits, modes |-> s.modes]
      /\ s.state \in ScanStates /\ s.payload \in Seq(Tokens) /\ s.overflowed \in BOOLEAN
      /\ s.start \in Int /\ s.hits \in Seq(Hits) /\ s.modes \in Seq(Modes)
  BY ScannerFields
<1>h. HitAt(s, at) \in Hits /\ ModeAt(b, at) \in Modes /\ <<>> \in Seq(Tokens)
  BY <1>f DEF HitAt, ModeAt, Hits, Modes
<1>n. (IF at = 0 THEN None ELSE at - 1) \in Int
  BY DEF None
<1>a. Append(s.hits, HitAt(s, at)) \in Seq(Hits) /\ Append(s.modes, ModeAt(b, at)) \in Seq(Modes)
  BY <1>f, <1>h
<1> USE DEF Scanned, InsideOsc, HitBy, ModeBy, OpensBy, Closes
<1>1. CASE s.state = "Ground"
  <2>1. t = IF b = "ESC" THEN [s EXCEPT !.state = "Escape"] ELSE s
    BY <1>1 DEF Scan, InGround, Goto
  <2>2. t \in Scanners
    BY <2>1 DEF Scanners, ScanStates
  <2> QED BY <1>1, <1>f, <2>1, <2>2
<1>2. CASE s.state = "Escape"
  <2>1. t = CASE b = "]"   -> [s EXCEPT !.payload = <<>>, !.overflowed = FALSE, !.state = "Osc",
                                        !.start = IF at = 0 THEN None ELSE at - 1]
              [] b = "["   -> [s EXCEPT !.state = "Csi"]
              [] b = "P"   -> [s EXCEPT !.state = "String"]
              [] b = "ESC" -> s
              [] OTHER     -> [s EXCEPT !.state = "Ground"]
    BY <1>2 DEF Scan, InEscape, Goto
  <2>2. t \in Scanners
    BY <2>1, <1>h, <1>n DEF Scanners, ScanStates
  <2> QED BY <1>2, <1>f, <2>1, <2>2
<1>3. CASE s.state = "Csi"
  <2>1. t = CASE b \in {"h", "l"} -> [s EXCEPT !.modes = Append(@, ModeAt(b, at)), !.state = "Ground"]
              [] b = "ESC" -> [s EXCEPT !.state = "Escape"]
              [] b = "BEL" -> s
              [] OTHER     -> [s EXCEPT !.state = "Ground"]
    BY <1>3 DEF Scan, InCsi, Goto, ModeAt
  <2>2. t \in Scanners
    BY <2>1, <1>a DEF Scanners, ScanStates
  <2> QED BY <1>3, <1>f, <2>1, <2>2
<1>9. /\ FinishOsc(s, at + 1) \in Scanners
      /\ FinishOsc(s, at + 1).hits = IF ~s.overflowed /\ s.payload # <<>> THEN Append(s.hits, HitAt(s, at)) ELSE s.hits
      /\ FinishOsc(s, at + 1).modes = s.modes /\ FinishOsc(s, at + 1).state = "Ground"
  <2>1. (IF s.overflowed \/ s.payload = <<>> THEN s.hits ELSE Append(s.hits, HitAt(s, at))) \in Seq(Hits)
    BY <1>a, <1>f
  <2>2. None \in Int
    BY DEF None
  <2>3. FinishOsc(s, at + 1) =
          [s EXCEPT !.hits = IF s.overflowed \/ s.payload = <<>> THEN s.hits ELSE Append(s.hits, HitAt(s, at)),
                    !.payload = <<>>, !.overflowed = FALSE, !.start = None, !.state = "Ground"]
    BY <1>f DEF FinishOsc, HitAt
  <2>4. FinishOsc(s, at + 1) \in Scanners
    BY <2>1, <2>2, <2>3, <1>h DEF Scanners, ScanStates
  <2> QED BY <1>f, <2>3, <2>4
<1>4. CASE s.state = "Osc"
  <2>1. t = CASE b = "BEL" -> FinishOsc(s, at + 1)
              [] b = "ESC" -> [s EXCEPT !.state = "OscEscape"]
              [] b = "CAN" -> [s EXCEPT !.payload = <<>>, !.state = "Ground"]
              [] OTHER     -> PushPayload(s, b)
    BY <1>4 DEF Scan, InOsc, Goto
  <2>2. CASE b = "BEL"
    BY <1>4, <1>9, <1>f, <2>1, <2>2
  <2>3. CASE b = "ESC"
    <3>1. t = [s EXCEPT !.state = "OscEscape"]
      BY <2>1, <2>3
    <3>2. t \in Scanners
      BY <3>1 DEF Scanners, ScanStates
    <3> QED BY <1>4, <1>f, <2>3, <3>1, <3>2
  <2>4. CASE b = "CAN"
    <3>1. t = [s EXCEPT !.payload = <<>>, !.state = "Ground"]
      BY <2>1, <2>4
    <3>2. t \in Scanners
      BY <3>1, <1>h DEF Scanners, ScanStates
    <3> QED BY <1>4, <1>f, <2>4, <3>1, <3>2
  <2>5. CASE b \notin {"BEL", "ESC", "CAN"}
    <3>1. t = PushPayload(s, b)
      BY <2>1, <2>5
    <3> QED BY <1>4, <1>f, <2>5, <3>1, PayloadPushed
  <2> QED BY <2>2, <2>3, <2>4, <2>5
<1>5. CASE s.state = "OscEscape"
  <2>1. t = CASE b = "\\"  -> FinishOsc(s, at + 1)
              [] b = "ESC" -> s
              [] OTHER     -> [PushPayload(PushPayload(s, "ESC"), b) EXCEPT !.state = "Osc"]
    BY <1>5 DEF Scan, InOscEscape, Goto
  <2>2. "ESC" \in Tokens
    BY DEF Tokens
  <2>3. PICK p \in Scanners : /\ p = PushPayload(PushPayload(s, "ESC"), b)
                             /\ p.state = s.state /\ p.start = s.start /\ p.hits = s.hits /\ p.modes = s.modes
    BY <2>2, PayloadPushed
  <2>4. t \in Scanners
    BY <2>1, <2>3, <1>9 DEF Scanners, ScanStates
  <2>5. p.state = s.state /\ p.start = s.start /\ p.hits = s.hits /\ p.modes = s.modes
        /\ p = [state |-> p.state, payload |-> p.payload, overflowed |-> p.overflowed,
              start |-> p.start, hits |-> p.hits, modes |-> p.modes]
    BY <2>3, ScannerFields
  <2> QED BY <1>5, <1>9, <1>f, <2>1, <2>3, <2>4, <2>5
<1>6. CASE s.state = "String"
  <2>1. t = CASE b = "BEL" -> [s EXCEPT !.state = "Ground"]
              [] b = "ESC" -> [s EXCEPT !.state = "StringEscape"]
              [] OTHER     -> s
    BY <1>6 DEF Scan, InString, Goto
  <2>2. t \in Scanners
    BY <2>1 DEF Scanners, ScanStates
  <2> QED BY <1>6, <1>f, <2>1, <2>2
<1>7. CASE s.state = "StringEscape"
  <2>1. t = CASE b = "\\" -> [s EXCEPT !.state = "Ground"]
              [] b = "ESC" -> s
              [] OTHER     -> [s EXCEPT !.state = "String"]
    BY <1>7 DEF Scan, InStringEscape, Goto
  <2>2. t \in Scanners
    BY <2>1 DEF Scanners, ScanStates
  <2> QED BY <1>7, <1>f, <2>1, <2>2
<1> QED BY <1>f, <1>1, <1>2, <1>3, <1>4, <1>5, <1>6, <1>7 DEF ScanStates

(* Machines alike do alike, wherever they began to count.                    *)
LEMMA StayAlike ==
  ASSUME NEW s \in Scanners, NEW r \in Scanners, NEW a \in Nat, NEW c \in Nat, NEW b \in Tokens,
         Alike(s, r)
  PROVE  Alike(Scan(s, a, b), Scan(r, c, b))
<1>f. /\ s.state \in ScanStates /\ s.payload \in Seq(Tokens) /\ s.overflowed \in BOOLEAN
      /\ s = [state |-> s.state, payload |-> s.payload, overflowed |-> s.overflowed,
              start |-> s.start, hits |-> s.hits, modes |-> s.modes]
      /\ r = [state |-> r.state, payload |-> r.payload, overflowed |-> r.overflowed,
              start |-> r.start, hits |-> r.hits, modes |-> r.modes]
      /\ s.state = r.state /\ s.payload = r.payload /\ s.overflowed = r.overflowed
  BY ScannerFields DEF Alike
<1>g. /\ FinishOsc(s, a + 1).state = "Ground" /\ FinishOsc(r, c + 1).state = "Ground"
      /\ FinishOsc(s, a + 1).payload = <<>> /\ FinishOsc(r, c + 1).payload = <<>>
      /\ FinishOsc(s, a + 1).overflowed = FALSE /\ FinishOsc(r, c + 1).overflowed = FALSE
  BY <1>f DEF FinishOsc
<1>p. ASSUME NEW x \in Tokens PROVE Alike(PushPayload(s, x), PushPayload(r, x))
  <2>1. /\ PushPayload(s, x).state = s.state
        /\ PushPayload(s, x).overflowed = (s.overflowed \/ Len(s.payload) >= MaxPayload)
        /\ PushPayload(s, x).payload = IF Len(s.payload) >= MaxPayload THEN s.payload ELSE Append(s.payload, x)
    BY PayloadPushed
  <2>2. /\ PushPayload(r, x).state = r.state
        /\ PushPayload(r, x).overflowed = (r.overflowed \/ Len(r.payload) >= MaxPayload)
        /\ PushPayload(r, x).payload = IF Len(r.payload) >= MaxPayload THEN r.payload ELSE Append(r.payload, x)
    BY PayloadPushed
  <2>3. s.state = r.state /\ s.payload = r.payload /\ s.overflowed = r.overflowed
    BY <1>f
  <2> QED BY <2>1, <2>2, <2>3, Zenon DEF Alike
<1>1. CASE s.state = "Ground"
  BY <1>1, <1>f DEF Scan, InGround, Goto, Alike
<1>2. CASE s.state = "Escape"
  BY <1>2, <1>f DEF Scan, InEscape, Goto, Alike
<1>3. CASE s.state = "Csi"
  BY <1>3, <1>f DEF Scan, InCsi, Goto, Alike
<1>4. CASE s.state = "Osc"
  <2>1. CASE b = "BEL"
    BY <1>4, <1>f, <1>g, <2>1 DEF Scan, InOsc, Alike
  <2>2. CASE b = "ESC"
    BY <1>4, <1>f, <2>2 DEF Scan, InOsc, Goto, Alike
  <2>3. CASE b = "CAN"
    BY <1>4, <1>f, <2>3 DEF Scan, InOsc, Alike
  <2>4. CASE b \notin {"BEL", "ESC", "CAN"}
    BY <1>4, <1>f, <1>p, <2>4 DEF Scan, InOsc
  <2> QED BY <2>1, <2>2, <2>3, <2>4
<1>5. CASE s.state = "OscEscape"
  <2>1. CASE b = "\\"
    BY <1>5, <1>f, <1>g, <2>1 DEF Scan, InOscEscape, Alike
  <2>2. CASE b = "ESC"
    BY <1>5, <1>f, <2>2 DEF Scan, InOscEscape, Alike
  <2>3. CASE b \notin {"\\", "ESC"}
    <3>1. "ESC" \in Tokens
      BY DEF Tokens
    <3>2. PICK s1 \in Scanners : s1 = PushPayload(s, "ESC")
      BY <3>1, PayloadPushed
    <3>3. PICK r1 \in Scanners : r1 = PushPayload(r, "ESC")
      BY <3>1, PayloadPushed
    <3>4. Alike(s1, r1)
      BY <3>1, <3>2, <3>3, <1>p
    <3>5. Alike(PushPayload(s1, b), PushPayload(r1, b))
      BY <3>4, PayloadPushed DEF Alike
    <3>6. PICK s2 \in Scanners : s2 = PushPayload(s1, b)
      BY PayloadPushed
    <3>7. PICK r2 \in Scanners : r2 = PushPayload(r1, b)
      BY PayloadPushed
    <3>8. /\ Scan(s, a, b) = [s2 EXCEPT !.state = "Osc"]
          /\ Scan(r, c, b) = [r2 EXCEPT !.state = "Osc"]
      BY <1>5, <1>f, <2>3, <3>2, <3>3, <3>6, <3>7 DEF Scan, InOscEscape, Goto
    <3>9. /\ s2 = [state |-> s2.state, payload |-> s2.payload, overflowed |-> s2.overflowed,
                   start |-> s2.start, hits |-> s2.hits, modes |-> s2.modes]
          /\ r2 = [state |-> r2.state, payload |-> r2.payload, overflowed |-> r2.overflowed,
                   start |-> r2.start, hits |-> r2.hits, modes |-> r2.modes]
      BY ScannerFields
    <3> QED BY <3>5, <3>6, <3>7, <3>8, <3>9 DEF Alike
  <2> QED BY <2>1, <2>2, <2>3
<1>6. CASE s.state = "String"
  BY <1>6, <1>f DEF Scan, InString, Goto, Alike
<1>7. CASE s.state = "StringEscape"
  BY <1>7, <1>f DEF Scan, InStringEscape, Goto, Alike
<1> QED BY <1>f, <1>1, <1>2, <1>3, <1>4, <1>5, <1>6, <1>7 DEF ScanStates

-----------------------------------------------------------------------------
(* The states of one feed, byte by byte.                                     *)
Fresh(s) == [s EXCEPT !.hits = <<>>, !.modes = <<>>,
                      !.start = IF InsideOsc(s) THEN None ELSE @]

Trails(f, n, s, bytes) ==
  f = [i \in 0..n |-> IF i = 0 THEN Fresh(s) ELSE Scan(f[i - 1], i - 1, bytes[i])]
Trail(s, bytes) == CHOOSE f : Trails(f, Len(bytes), s, bytes)

(* There are such states, for any number of bytes.                           *)
LEMMA TrailsExist == ASSUME NEW s, NEW bytes PROVE \A n \in Nat : \E f : Trails(f, n, s, bytes)
<1> DEFINE P == {n \in Nat : \E f : Trails(f, n, s, bytes)}
<1>1. 0 \in P
  <2> DEFINE f == [i \in 0..0 |-> Fresh(s)]
  <2>1. Trails(f, 0, s, bytes)
    <3>1. \A i \in 0..0 : i = 0
      OBVIOUS
    <3>2. f = [i \in 0..0 |-> IF i = 0 THEN Fresh(s) ELSE Scan(f[i - 1], i - 1, bytes[i])]
      BY <3>1
    <3> QED BY <3>2 DEF Trails
  <2> HIDE DEF f
  <2> QED BY <2>1
<1>2. ASSUME NEW n \in P PROVE n + 1 \in P
  <2>1. PICK f : Trails(f, n, s, bytes)
    OBVIOUS
  <2> DEFINE g == [i \in 0..(n + 1) |-> IF i = 0 THEN Fresh(s) ELSE Scan(f[i - 1], i - 1, bytes[i])]
  <2>a. n \in Nat
    BY DEF P
  <2>2. \A i \in 0..n : g[i] = f[i]
    <3> SUFFICES ASSUME NEW i \in 0..n PROVE g[i] = f[i]
      OBVIOUS
    <3>1. f[i] = IF i = 0 THEN Fresh(s) ELSE Scan(f[i - 1], i - 1, bytes[i])
      BY <2>1, Zenon DEF Trails
    <3>2. i \in 0..(n + 1)
      BY <2>a
    <3> QED BY <3>1, <3>2, Zenon
  <2>3. g = [i \in 0..(n + 1) |-> IF i = 0 THEN Fresh(s) ELSE Scan(g[i - 1], i - 1, bytes[i])]
    <3>1. \A i \in 0..(n + 1) : i # 0 => i - 1 \in 0..n
      BY <2>a
    <3>2. \A i \in 0..(n + 1) : i # 0 => g[i - 1] = f[i - 1]
      BY <2>2, <3>1
    <3> QED BY <3>2, Zenon
  <2>4. Trails(g, n + 1, s, bytes)
    BY <2>3, Zenon DEF Trails
  <2> HIDE DEF g
  <2> QED BY <2>4
<1> HIDE DEF P
<1>3. P = Nat
  <2>1. P \in SUBSET Nat
    BY DEF P
  <2> QED BY <1>1, <1>2, <2>1, Induction
<1> QED BY <1>3 DEF P

LEMMA FreshIs ==
  ASSUME NEW s \in Scanners
  PROVE  /\ Fresh(s) \in Scanners /\ Alike(Fresh(s), s)
         /\ Fresh(s).hits = <<>> /\ Fresh(s).modes = <<>>
         /\ InsideOsc(s) => Fresh(s).start = None
<1>1. <<>> \in Seq(Hits) /\ <<>> \in Seq(Modes) /\ None \in Int
  BY DEF None
<1>2. s.start \in Int
  BY ScannerFields
<1>3. (IF InsideOsc(s) THEN None ELSE s.start) \in Int
  BY <1>1, <1>2
<1> QED BY <1>1, <1>3, ScannerFields DEF Fresh, Scanners, Alike

(* What the feed does with each byte, and what it returns.                   *)
LEMMA TrailIs ==
  ASSUME NEW s \in Scanners, NEW bytes \in Seq(Tokens)
  PROVE  /\ Trail(s, bytes)[0] = Fresh(s)
         /\ \A i \in 0..Len(bytes) : Trail(s, bytes)[i] \in Scanners
         /\ \A i \in 1..Len(bytes) :
              /\ Trail(s, bytes)[i] = Scan(Trail(s, bytes)[i - 1], i - 1, bytes[i])
              /\ Scanned(Trail(s, bytes)[i - 1], i - 1, bytes[i], Trail(s, bytes)[i])
         /\ FeedIndexed(s, bytes) = Trail(s, bytes)[Len(bytes)]
<1> DEFINE n == Len(bytes)
           f == Trail(s, bytes)
<1>a. n \in Nat /\ \A i \in 1..n : bytes[i] \in Tokens
  OBVIOUS
<1>1. f = [i \in 0..n |-> IF i = 0 THEN Fresh(s) ELSE Scan(f[i - 1], i - 1, bytes[i])]
  <2>1. \E g : Trails(g, n, s, bytes)
    BY <1>a, TrailsExist
  <2> QED BY <2>1, Zenon DEF Trail, Trails
<1>2. FeedIndexed(s, bytes) = f[n]
  BY Zenon DEF FeedIndexed, Trail, Trails, Fresh
<1> HIDE DEF f
<1>3. f[0] = Fresh(s)
  <2>1. 0 \in 0..n
    BY <1>a
  <2> QED BY <1>1, <2>1, Zenon
<1>4. ASSUME NEW i \in 1..n PROVE f[i] = Scan(f[i - 1], i - 1, bytes[i])
  <2>1. i \in 0..n /\ i # 0
    BY <1>a
  <2> QED BY <1>1, <2>1, Zenon
<1>5. \A i \in 0..n : f[i] \in Scanners
  <2> DEFINE P == {i \in Nat : i <= n => f[i] \in Scanners}
  <2>1. 0 \in P
    BY <1>3, FreshIs
  <2>2. ASSUME NEW i \in P PROVE i + 1 \in P
    <3>1. i \in Nat /\ i + 1 \in Nat
      OBVIOUS
    <3>2. ASSUME i + 1 <= n PROVE f[i + 1] \in Scanners
      <4>1. f[i] \in Scanners /\ i + 1 \in 1..n /\ (i + 1) - 1 = i
        BY <1>a, <3>1, <3>2
      <4>2. f[i + 1] = Scan(f[i], i, bytes[i + 1])
        BY <1>4, <4>1
      <4>3. bytes[i + 1] \in Tokens
        BY <1>a, <4>1
      <4>4. Scanned(f[i], i, bytes[i + 1], Scan(f[i], i, bytes[i + 1]))
        BY <3>1, <4>1, <4>3, ScanDoes
      <4> QED BY <4>2, <4>4 DEF Scanned
    <3> QED BY <3>1, <3>2
  <2>3. P = Nat
    <3>1. P \in SUBSET Nat
      OBVIOUS
    <3> HIDE DEF P
    <3> QED BY <2>1, <2>2, <3>1, Induction
  <2> QED BY <1>a, <2>3
<1>6. ASSUME NEW i \in 1..n PROVE Scanned(f[i - 1], i - 1, bytes[i], f[i])
  <2>1. i - 1 \in 0..n /\ i - 1 \in Nat /\ bytes[i] \in Tokens
    BY <1>a
  <2>2. f[i - 1] \in Scanners
    BY <1>5, <2>1
  <2> QED BY <1>4, <2>1, <2>2, ScanDoes
<1> QED BY <1>2, <1>3, <1>4, <1>5, <1>6 DEF f

-----------------------------------------------------------------------------
(* What is chosen of a sequence, as the sequence grows.                      *)
Pieces(s, A) == [i \in DOMAIN s |-> IF i \in A THEN <<s[i]>> ELSE <<>>]

LEMMA PiecesTyped ==
  ASSUME NEW S, NEW s \in Seq(S), NEW A
  PROVE  Pieces(s, A) \in Seq(Seq(S)) /\ Len(Pieces(s, A)) = Len(s)
<1>1. \A i \in 1..Len(s) : <<s[i]>> \in Seq(S) /\ <<>> \in Seq(S)
  OBVIOUS
<1>2. DOMAIN s = 1..Len(s) /\ Len(s) \in Nat
  OBVIOUS
<1>3. \A i \in 1..Len(s) : Pieces(s, A)[i] \in Seq(S)
  BY <1>1, <1>2, Zenon DEF Pieces
<1>4. Pieces(s, A) = [i \in 1..Len(s) |-> Pieces(s, A)[i]]
  BY <1>2, Zenon DEF Pieces
<1> QED BY <1>2, <1>3, <1>4

LEMMA ChosenEmpty == \A A : Chosen(<<>>, A) = <<>>
<1>1. DOMAIN <<>> = {}
  OBVIOUS
<1>2. \A A : [i \in DOMAIN <<>> |-> IF i \in A THEN <<<<>>[i]>> ELSE <<>>] = <<>>
  BY <1>1
<1> QED BY <1>2, FlattenEmpty DEF Chosen

LEMMA ChosenTyped ==
  ASSUME NEW S, NEW s \in Seq(S), NEW A PROVE Chosen(s, A) \in Seq(S)
<1>1. Pieces(s, A) \in Seq(Seq(S))
  BY PiecesTyped
<1> QED BY <1>1, FlattenTyped DEF Chosen, Pieces

LEMMA ChosenGrows ==
  ASSUME NEW S, NEW s \in Seq(S), NEW x \in S, NEW A, NEW B,
         \A i \in 1..Len(s) : i \in A <=> i \in B
  PROVE  Chosen(Append(s, x), B) =
           IF Len(s) + 1 \in B THEN Append(Chosen(s, A), x) ELSE Chosen(s, A)
<1> DEFINE last == IF Len(s) + 1 \in B THEN <<x>> ELSE <<>>
           t == Append(s, x)
<1>1. /\ t \in Seq(S) /\ Len(s) \in Nat /\ Len(t) = Len(s) + 1 /\ t[Len(s) + 1] = x
      /\ \A i \in 1..Len(s) : t[i] = s[i] /\ i \in 1..Len(t)
      /\ DOMAIN s = 1..Len(s) /\ DOMAIN t = 1..Len(t)
  OBVIOUS
<1>2. Pieces(s, A) \in Seq(Seq(S)) /\ Len(Pieces(s, A)) = Len(s)
      /\ Pieces(t, B) \in Seq(Seq(S)) /\ Len(Pieces(t, B)) = Len(t)
  BY <1>1, PiecesTyped
<1>3. last \in Seq(S)
  <2>1. <<x>> \in Seq(S) /\ <<>> \in Seq(S)
    OBVIOUS
  <2> QED BY <2>1
<1>4. \A i \in 1..Len(s) : Pieces(t, B)[i] = Pieces(s, A)[i]
  BY <1>1, Zenon DEF Pieces
<1>5. Pieces(t, B)[Len(s) + 1] = last
  <2>1. Len(s) + 1 \in 1..Len(t)
    BY <1>1
  <2> QED BY <1>1, <2>1, Zenon DEF Pieces
<1> HIDE DEF t, last
<1>6. Pieces(t, B) = Append(Pieces(s, A), last)
  <2>1. PICK p \in Seq(Seq(S)) : p = Pieces(s, A)
    BY <1>2
  <2>2. PICK q \in Seq(Seq(S)) : q = Pieces(t, B)
    BY <1>2
  <2>3. Len(p) = Len(s) /\ Len(q) = Len(s) + 1 /\ q[Len(s) + 1] = last /\ \A i \in 1..Len(s) : q[i] = p[i]
    BY <1>1, <1>2, <1>4, <1>5, <2>1, <2>2
  <2>4. q = Append(p, last)
    BY <1>1, <1>3, <2>3
  <2> QED BY <2>1, <2>2, <2>4
<1>7. FlattenSeq(Pieces(t, B)) = FlattenSeq(Pieces(s, A)) \o last
  BY <1>2, <1>3, <1>6, FlattenAppend
<1>8. Chosen(s, A) \in Seq(S)
  BY ChosenTyped
<1>9. Chosen(t, B) = Chosen(s, A) \o last
  BY <1>7 DEF Chosen, Pieces
<1> QED
  <2>1. PICK c \in Seq(S) : c = Chosen(s, A)
    BY <1>8
  <2>2. CASE Len(s) + 1 \in B
    <3>1. last = <<x>>
      BY <2>2 DEF last
    <3>2. c \o <<x>> = Append(c, x)
      OBVIOUS
    <3> QED BY <1>9, <2>1, <2>2, <3>1, <3>2 DEF t
  <2>3. CASE Len(s) + 1 \notin B
    <3>1. last = <<>>
      BY <2>3 DEF last
    <3>2. c \o <<>> = c
      OBVIOUS
    <3> QED BY <1>9, <2>1, <2>3, <3>1, <3>2 DEF t
  <2> QED BY <2>2, <2>3

-----------------------------------------------------------------------------
(* What the markers of some hits say, in their order.                        *)
Kinds == {"PromptStart", "PromptEnd", "CommandExecuted", "CommandFinished",
          "Meta", "CwdLocal", "CwdRemote"}

LEMMA SignalIs == /\ \A x \in DOMAIN Signal : Signal[x] \in Kinds
                  /\ \A x \in DOMAIN Signal : x \in Tokens
  BY DEF Signal, Kinds, Tokens

LEMMA MarkersGrow ==
  ASSUME NEW hits \in Seq(Hits), NEW h \in Hits
  PROVE  /\ Markers(hits) \in Seq(Hits)
         /\ Markers(Append(hits, h)) =
              IF Recognised(h.payload) THEN Append(Markers(hits), h) ELSE Markers(hits)
<1> DEFINE t == Append(hits, h)
           A == {i \in DOMAIN hits : Recognised(hits[i].payload)}
           B == {i \in DOMAIN t : Recognised(t[i].payload)}
<1>1. /\ Len(hits) \in Nat /\ DOMAIN hits = 1..Len(hits) /\ DOMAIN t = 1..(Len(hits) + 1)
      /\ t[Len(hits) + 1] = h /\ \A i \in 1..Len(hits) : t[i] = hits[i]
  OBVIOUS
<1>2. \A i \in 1..Len(hits) : i \in DOMAIN t
  BY <1>1
<1>3. \A i \in 1..Len(hits) : i \in A <=> i \in B
  BY <1>1, <1>2, Zenon
<1>4. Len(hits) + 1 \in B <=> Recognised(h.payload)
  <2>1. Len(hits) + 1 \in DOMAIN t
    BY <1>1
  <2> QED BY <1>1, <2>1, Zenon
<1> HIDE DEF A, B
<1>5. Chosen(t, B) = IF Len(hits) + 1 \in B THEN Append(Chosen(hits, A), h) ELSE Chosen(hits, A)
  BY <1>3, ChosenGrows
<1>6. Chosen(hits, A) \in Seq(Hits)
  BY ChosenTyped
<1> QED BY <1>4, <1>5, <1>6 DEF Markers, A, B

LEMMA MarkersRecognised ==
  \A hits \in Seq(Hits) : \A i \in DOMAIN Markers(hits) : Recognised(Markers(hits)[i].payload)
<1> DEFINE P == {hits \in Seq(Hits) :
                   \A i \in DOMAIN Markers(hits) : Recognised(Markers(hits)[i].payload)}
<1>1. <<>> \in P
  <2>1. DOMAIN <<>> = {} /\ <<>> \in Seq(Hits)
    OBVIOUS
  <2>2. Markers(<<>>) = <<>>
    BY ChosenEmpty DEF Markers
  <2> QED BY <2>1, <2>2
<1>2. ASSUME NEW hits \in P, NEW h \in Hits PROVE Append(hits, h) \in P
  <2>1. hits \in Seq(Hits) /\ Append(hits, h) \in Seq(Hits)
    OBVIOUS
  <2>2. PICK m \in Seq(Hits) : m = Markers(hits)
    BY <2>1, MarkersGrow
  <2>3. \A i \in 1..Len(m) : Recognised(m[i].payload)
    BY <2>2
  <2>4. Markers(Append(hits, h)) = IF Recognised(h.payload) THEN Append(m, h) ELSE m
    BY <2>1, <2>2, MarkersGrow
  <2>5. CASE Recognised(h.payload)
    <3>1. PICK a \in Seq(Hits) : a = Append(m, h)
      <4>1. Append(m, h) \in Seq(Hits)
        OBVIOUS
      <4> QED BY <4>1, Zenon
    <3>2. \A i \in DOMAIN a : a[i] = h \/ (i \in 1..Len(m) /\ a[i] = m[i])
      BY <3>1
    <3>3. \A i \in DOMAIN a : Recognised(a[i].payload)
      BY <2>3, <2>5, <3>2, Zenon
    <3> QED BY <2>1, <2>4, <2>5, <3>1, <3>3
  <2>6. CASE ~Recognised(h.payload)
    BY <2>1, <2>2, <2>3, <2>4, <2>6
  <2> QED BY <2>5, <2>6
<1>3. P \in SUBSET Seq(Hits)
  OBVIOUS
<1> HIDE DEF P
<1>4. P = Seq(Hits)
  BY <1>1, <1>2, <1>3, InductionOnSeq
<1> QED BY <1>4 DEF P

-----------------------------------------------------------------------------
(* One scan of a whole stream: the machine after n bytes, the markers it has *)
(* found by then, and how far the bytes are known not to be part of a later  *)
(* marker.                                                                   *)
At(s, n) == Trail(NewScanner, s)[n]

Told(s, n) == Markers(At(s, n).hits)

Frontier(s, n) == IF InsideOsc(At(s, n)) THEN At(s, n).start
               ELSE IF At(s, n).state = "Escape" THEN n - 1 ELSE n

LEMMA NewIs ==
  /\ NewScanner \in Scanners /\ Fresh(NewScanner) = NewScanner
  /\ NewScanner.state = "Ground" /\ NewScanner.hits = <<>> /\ NewScanner.modes = <<>>
<1>1. <<>> \in Seq(Hits) /\ <<>> \in Seq(Modes) /\ <<>> \in Seq(Tokens) /\ None \in Int
  BY DEF None
<1>2. NewScanner \in Scanners
  BY <1>1 DEF NewScanner, Scanners, ScanStates
<1>3. NewScanner.state = "Ground" /\ NewScanner.hits = <<>> /\ NewScanner.modes = <<>>
  BY DEF NewScanner
<1>4. Fresh(NewScanner) = NewScanner
  <2>1. PICK t \in Scanners : t = NewScanner
    BY <1>2
  <2>2. ~InsideOsc(t) /\ t.hits = <<>> /\ t.modes = <<>>
    BY <1>3, <2>1 DEF InsideOsc
  <2>3. Fresh(t) = [t EXCEPT !.hits = <<>>, !.modes = <<>>, !.start = t.start]
    BY <2>2 DEF Fresh
  <2>4. Fresh(t) = t
    BY <2>2, <2>3 DEF Scanners
  <2> QED BY <2>1, <2>4
<1> QED BY <1>2, <1>3, <1>4

LEMMA WholeIs ==
  ASSUME NEW s \in Seq(Tokens)
  PROVE  /\ At(s, 0) = NewScanner
         /\ \A n \in 0..Len(s) : At(s, n) \in Scanners
         /\ \A n \in 0..(Len(s) - 1) :
              At(s, n + 1) = Scan(At(s, n), n, s[n + 1]) /\ Scanned(At(s, n), n, s[n + 1], At(s, n + 1))
         /\ FeedIndexed(NewScanner, s) = At(s, Len(s))
<1>1. /\ At(s, 0) = NewScanner
      /\ \A n \in 0..Len(s) : At(s, n) \in Scanners
      /\ \A i \in 1..Len(s) : At(s, i) = Scan(At(s, i - 1), i - 1, s[i])
                              /\ Scanned(At(s, i - 1), i - 1, s[i], At(s, i))
      /\ FeedIndexed(NewScanner, s) = At(s, Len(s))
  BY NewIs, TrailIs DEF At
<1>2. ASSUME NEW n \in 0..(Len(s) - 1)
      PROVE  At(s, n + 1) = Scan(At(s, n), n, s[n + 1]) /\ Scanned(At(s, n), n, s[n + 1], At(s, n + 1))
  <2>1. n + 1 \in 1..Len(s) /\ (n + 1) - 1 = n
    OBVIOUS
  <2> QED BY <1>1, <2>1
<1> QED BY <1>1, <1>2

(* The frontier never moves back.                                               *)
LEMMA FrontierStep ==
  ASSUME NEW s \in Seq(Tokens)
  PROVE  \A n \in 0..Len(s) :
           /\ Frontier(s, n) \in 0..n
           /\ At(s, n).state = "Escape" => n >= 1
           /\ InsideOsc(At(s, n)) => Frontier(s, n) < n
           /\ n < Len(s) => Frontier(s, n) <= Frontier(s, n + 1)
<1> DEFINE Good(n) == /\ Frontier(s, n) \in 0..n
                      /\ At(s, n).state = "Escape" => n >= 1
                      /\ InsideOsc(At(s, n)) => Frontier(s, n) < n
           P == {n \in Nat : n <= Len(s) => Good(n)}
<1>1. Good(0)
  BY WholeIs, NewIs DEF Frontier, InsideOsc
<1>2. ASSUME NEW n \in Nat, n < Len(s), Good(n) PROVE Good(n + 1) /\ Frontier(s, n) <= Frontier(s, n + 1)
  <2>1. n \in 0..(Len(s) - 1) /\ n \in 0..Len(s)
    BY <1>2
  <2>2. PICK a \in Scanners : a = At(s, n)
    BY <2>1, WholeIs
  <2>3. PICK c : c = At(s, n + 1) /\ Scanned(a, n, s[n + 1], c)
    BY <2>1, <2>2, WholeIs
  <2>4. a.start \in Int
    BY ScannerFields
  <2>5. CASE OpensBy(a, s[n + 1])
    <3>1. n >= 1 /\ Frontier(s, n) = n - 1
      BY <1>2, <2>2, <2>5 DEF OpensBy, Frontier, InsideOsc
    <3>2. InsideOsc(c) /\ c.start = n - 1
      BY <2>3, <2>5, <3>1 DEF Scanned
    <3>3. Frontier(s, n + 1) = n - 1 /\ c.state # "Escape"
      BY <2>3, <3>2 DEF Frontier, InsideOsc
    <3> QED BY <2>3, <3>1, <3>3
  <2>6. CASE InsideOsc(c) /\ ~OpensBy(a, s[n + 1])
    <3>1. InsideOsc(a) /\ c.start = a.start
      BY <2>3, <2>6 DEF Scanned
    <3>2. Frontier(s, n + 1) = Frontier(s, n) /\ Frontier(s, n) < n /\ c.state # "Escape"
      BY <1>2, <2>2, <2>3, <2>6, <3>1 DEF Frontier, InsideOsc
    <3> QED BY <1>2, <2>3, <3>2
  <2>7. CASE ~InsideOsc(c)
    <3>1. Frontier(s, n + 1) = IF c.state = "Escape" THEN n ELSE n + 1
      BY <2>3, <2>7 DEF Frontier
    <3> QED BY <1>2, <2>3, <2>7, <3>1
  <2> QED BY <2>5, <2>6, <2>7
<1>3. P = Nat
  <2>1. 0 \in P
    BY <1>1
  <2>2. ASSUME NEW n \in P PROVE n + 1 \in P
    <3>1. Len(s) \in Nat
      OBVIOUS
    <3>2. n + 1 <= Len(s) => n < Len(s) /\ n <= Len(s)
      BY <3>1
    <3> QED BY <1>2, <3>2
  <2>3. P \in SUBSET Nat
    OBVIOUS
  <2> HIDE DEF P
  <2> QED BY <2>1, <2>2, <2>3, Induction
<1> QED
  <2> SUFFICES ASSUME NEW n \in 0..Len(s)
               PROVE  Good(n) /\ (n < Len(s) => Frontier(s, n) <= Frontier(s, n + 1))
    OBVIOUS
  <2>1. n \in Nat /\ n <= Len(s)
    OBVIOUS
  <2>2. Good(n)
    BY <1>3, <2>1
  <2> QED BY <1>2, <2>1, <2>2

LEMMA ToldStep ==
  ASSUME NEW s \in Seq(Tokens), NEW n \in 0..(Len(s) - 1)
  PROVE  /\ Told(s, n) \in Seq(Hits)
         /\ HitAt(At(s, n), n) \in Hits
         /\ Told(s, n + 1) = IF HitBy(At(s, n), s[n + 1]) /\ Recognised(At(s, n).payload)
                               THEN Append(Told(s, n), HitAt(At(s, n), n)) ELSE Told(s, n)
<1>1. n \in 0..Len(s) /\ n \in Nat
  OBVIOUS
<1>2. PICK a \in Scanners : a = At(s, n)
  BY <1>1, WholeIs
<1>3. Scanned(a, n, s[n + 1], At(s, n + 1))
  BY <1>2, WholeIs
<1>4. a.hits \in Seq(Hits) /\ a.start \in Int /\ a.payload \in Seq(Tokens)
  BY ScannerFields
<1>5. HitAt(a, n) \in Hits /\ HitAt(a, n).payload = a.payload
  BY <1>1, <1>4 DEF HitAt, Hits
<1>6. At(s, n + 1).hits = IF HitBy(a, s[n + 1]) THEN Append(a.hits, HitAt(a, n)) ELSE a.hits
  BY <1>3 DEF Scanned
<1>7. /\ Markers(a.hits) \in Seq(Hits)
      /\ Markers(Append(a.hits, HitAt(a, n))) =
           IF Recognised(a.payload) THEN Append(Markers(a.hits), HitAt(a, n)) ELSE Markers(a.hits)
  BY <1>4, <1>5, MarkersGrow
<1> QED BY <1>2, <1>5, <1>6, <1>7, Zenon DEF Told

LEMMA ToldTyped == ASSUME NEW s \in Seq(Tokens), NEW n \in 0..Len(s) PROVE Told(s, n) \in Seq(Hits)
<1>1. At(s, n).hits \in Seq(Hits)
  BY WholeIs, ScannerFields
<1> QED BY <1>1, ChosenTyped DEF Told, Markers

(* A marker lies behind the front once it is found, after those before it.   *)
LEMMA ToldPlaced ==
  ASSUME NEW s \in Seq(Tokens)
  PROVE  \A n \in 0..Len(s) : \A i \in 1..Len(Told(s, n)) :
           /\ Told(s, n)[i].start \in Nat /\ Told(s, n)[i].end \in Nat
           /\ Told(s, n)[i].start < Told(s, n)[i].end /\ Told(s, n)[i].end <= Frontier(s, n)
           /\ \A j \in 1..(i - 1) : Told(s, n)[j].end <= Told(s, n)[i].start
<1> DEFINE Well(m, f) == \A i \in 1..Len(m) :
                           /\ m[i].start \in Nat /\ m[i].end \in Nat
                           /\ m[i].start < m[i].end /\ m[i].end <= f
                           /\ \A j \in 1..(i - 1) : m[j].end <= m[i].start
           P == {n \in Nat : n <= Len(s) => Well(Told(s, n), Frontier(s, n))}
<1>1. Well(Told(s, 0), Frontier(s, 0))
  <2>1. Told(s, 0) = <<>>
    BY WholeIs, NewIs, ChosenEmpty DEF Told, Markers
  <2> QED BY <2>1
<1>2. ASSUME NEW n \in Nat, n < Len(s), Well(Told(s, n), Frontier(s, n))
      PROVE  Well(Told(s, n + 1), Frontier(s, n + 1))
  <2>1. n \in 0..(Len(s) - 1) /\ n \in 0..Len(s) /\ n + 1 \in 0..Len(s)
    BY <1>2
  <2>2. PICK m \in Seq(Hits) : m = Told(s, n)
    BY <2>1, ToldTyped
  <2>3. Frontier(s, n) \in 0..n /\ Frontier(s, n + 1) \in 0..(n + 1) /\ Frontier(s, n) <= Frontier(s, n + 1)
    BY <1>2, <2>1, FrontierStep
  <2>4. CASE Told(s, n + 1) = m
    <3>1. \A i \in 1..Len(m) : m[i].end \in Nat /\ m[i].end <= Frontier(s, n)
      BY <1>2, <2>2
    <3>2. \A i \in 1..Len(m) : m[i].end <= Frontier(s, n + 1)
      BY <2>3, <3>1
    <3> QED BY <1>2, <2>2, <2>4, <3>2, Zenon
  <2>5. CASE HitBy(At(s, n), s[n + 1]) /\ Told(s, n + 1) = Append(m, HitAt(At(s, n), n))
    <3>1. Scanned(At(s, n), n, s[n + 1], At(s, n + 1))
      BY <2>1, WholeIs
    <3>2. InsideOsc(At(s, n)) /\ At(s, n + 1).state = "Ground"
      BY <2>5, <3>1 DEF Scanned
    <3>3. Frontier(s, n) = At(s, n).start /\ Frontier(s, n + 1) = n + 1 /\ Frontier(s, n) < n
      BY <2>1, <3>2, FrontierStep DEF Frontier, InsideOsc
    <3>4. PICK h \in Hits : h = HitAt(At(s, n), n)
      BY <2>1, ToldStep
    <3>5. h.start = Frontier(s, n) /\ h.end = n + 1
      BY <3>3, <3>4 DEF HitAt
    <3>6. PICK t \in Seq(Hits) : t = Append(m, h)
      <4>1. Append(m, h) \in Seq(Hits)
        OBVIOUS
      <4> QED BY <4>1, Zenon
    <3>7. Len(m) \in Nat /\ Len(t) = Len(m) + 1 /\ t[Len(m) + 1] = h /\ \A i \in 1..Len(m) : t[i] = m[i]
      BY <3>6
    <3>8. ASSUME NEW i \in 1..Len(t)
          PROVE  /\ t[i].start \in Nat /\ t[i].end \in Nat
                 /\ t[i].start < t[i].end /\ t[i].end <= n + 1
                 /\ \A j \in 1..(i - 1) : t[j].end <= t[i].start
      <4>1. CASE i = Len(m) + 1
        <5>1. \A j \in 1..Len(m) : t[j].end <= Frontier(s, n)
          BY <1>2, <2>2, <3>7
        <5> QED BY <2>3, <3>3, <3>5, <3>7, <4>1, <5>1
      <4>2. CASE i \in 1..Len(m)
        <5>1. /\ m[i].start \in Nat /\ m[i].end \in Nat
              /\ m[i].start < m[i].end /\ m[i].end <= Frontier(s, n)
              /\ \A j \in 1..(i - 1) : m[j].end <= m[i].start
          BY <1>2, <2>2, <4>2
        <5>2. \A j \in 1..(i - 1) : j \in 1..Len(m)
          BY <3>7, <4>2
        <5>3. t[i] = m[i] /\ \A j \in 1..(i - 1) : t[j] = m[j]
          BY <3>7, <4>2, <5>2
        <5>4. m[i].end <= n + 1
          BY <2>3, <3>3, <5>1
        <5> QED BY <5>1, <5>3, <5>4, Zenon
      <4> QED BY <3>7, <4>1, <4>2
    <3>9. Told(s, n + 1) = t
      BY <2>5, <3>4, <3>6
    <3> QED BY <3>3, <3>8, <3>9
  <2> QED BY <2>1, <2>2, <2>4, <2>5, ToldStep
<1>3. P = Nat
  <2>1. 0 \in P
    BY <1>1
  <2>2. ASSUME NEW n \in P PROVE n + 1 \in P
    <3>1. Len(s) \in Nat
      OBVIOUS
    <3>2. n + 1 <= Len(s) => n < Len(s) /\ n <= Len(s)
      BY <3>1
    <3> QED BY <1>2, <3>2
  <2>3. P \in SUBSET Nat
    OBVIOUS
  <2> HIDE DEF P
  <2> QED BY <2>1, <2>2, <2>3, Induction
<1> QED
  <2> SUFFICES ASSUME NEW n \in 0..Len(s) PROVE Well(Told(s, n), Frontier(s, n))
    OBVIOUS
  <2>1. n \in Nat /\ n <= Len(s)
    OBVIOUS
  <2> QED BY <1>3, <2>1

(* Those found later follow those found before, beyond the front of then.    *)
LEMMA ToldGrows ==
  ASSUME NEW s \in Seq(Tokens), NEW n \in 0..Len(s)
  PROVE  \A k \in 0..(Len(s) - n) :
           /\ Frontier(s, n) <= Frontier(s, n + k)
           /\ Len(Told(s, n)) <= Len(Told(s, n + k))
           /\ \A i \in 1..Len(Told(s, n)) : Told(s, n + k)[i] = Told(s, n)[i]
           /\ \A i \in (Len(Told(s, n)) + 1)..Len(Told(s, n + k)) :
                Told(s, n + k)[i].start >= Frontier(s, n) /\ Told(s, n + k)[i].end > n
<1>1. PICK m \in Seq(Hits) : m = Told(s, n)
  BY ToldTyped
<1> DEFINE Good(t, k) == /\ Frontier(s, n) <= Frontier(s, n + k)
                         /\ Len(m) <= Len(t)
                         /\ \A i \in 1..Len(m) : t[i] = m[i]
                         /\ \A i \in (Len(m) + 1)..Len(t) : t[i].start >= Frontier(s, n) /\ t[i].end > n
           P == {k \in Nat : n + k <= Len(s) => Good(Told(s, n + k), k)}
<1>a. Len(s) \in Nat /\ Len(m) \in Nat /\ n \in Nat
  OBVIOUS
<1>2. Good(Told(s, n + 0), 0)
  <2>1. n + 0 = n
    OBVIOUS
  <2>2. Frontier(s, n) \in Int
    BY FrontierStep
  <2>3. (Len(m) + 1)..Len(m) = {}
    BY <1>a
  <2> QED BY <1>1, <1>a, <2>1, <2>2, <2>3
<1>3. ASSUME NEW k \in Nat, n + k < Len(s), Good(Told(s, n + k), k)
      PROVE  Good(Told(s, n + (k + 1)), k + 1)
  <2>1. PICK q \in Nat : q = n + k
    OBVIOUS
  <2>2. n + (k + 1) = q + 1 /\ q \in 0..(Len(s) - 1) /\ q \in 0..Len(s) /\ q + 1 \in 0..Len(s)
    BY <1>3, <2>1
  <2>3. PICK t \in Seq(Hits) : t = Told(s, q)
    BY <2>2, ToldTyped
  <2>4. Good(t, k) /\ Len(t) \in Nat
    BY <1>3, <2>1, <2>3
  <2>5. Frontier(s, q) <= Frontier(s, q + 1) /\ Frontier(s, n) \in Int /\ Frontier(s, q) \in Int /\ Frontier(s, q + 1) \in Int
    BY <2>2, FrontierStep
  <2>6. Frontier(s, n) <= Frontier(s, q + 1)
    BY <2>1, <2>4, <2>5
  <2>7. CASE Told(s, q + 1) = t
    BY <2>2, <2>4, <2>6, <2>7
  <2>8. CASE HitBy(At(s, q), s[q + 1]) /\ Told(s, q + 1) = Append(t, HitAt(At(s, q), q))
    <3>1. Scanned(At(s, q), q, s[q + 1], At(s, q + 1))
      BY <2>2, WholeIs
    <3>2. Frontier(s, q) = At(s, q).start
      BY <2>8, <3>1 DEF Scanned, Frontier
    <3>3. PICK h \in Hits : h = HitAt(At(s, q), q)
      BY <2>2, ToldStep
    <3>4. h.start >= Frontier(s, n) /\ h.end > n
      BY <2>1, <2>4, <2>5, <3>2, <3>3 DEF HitAt
    <3>5. PICK u \in Seq(Hits) : u = Append(t, h)
      <4>1. Append(t, h) \in Seq(Hits)
        OBVIOUS
      <4> QED BY <4>1, Zenon
    <3>6. Len(u) = Len(t) + 1 /\ u[Len(t) + 1] = h /\ \A i \in 1..Len(t) : u[i] = t[i]
      BY <3>5
    <3>7. \A i \in (Len(m) + 1)..Len(u) : i = Len(t) + 1 \/ i \in (Len(m) + 1)..Len(t)
      BY <1>a, <2>4, <3>6
    <3>8. \A i \in (Len(m) + 1)..Len(t) : i \in 1..Len(t)
      BY <1>a, <2>4
    <3>9. Good(u, k + 1)
      <4>1. Len(m) <= Len(u) /\ \A i \in 1..Len(m) : i \in 1..Len(t)
        BY <1>a, <2>4, <3>6
      <4>2. \A i \in 1..Len(m) : u[i] = m[i]
        BY <2>4, <3>6, <4>1
      <4>3. \A i \in (Len(m) + 1)..Len(u) : u[i].start >= Frontier(s, n) /\ u[i].end > n
        <5>1. \A i \in (Len(m) + 1)..Len(t) : u[i].start >= Frontier(s, n) /\ u[i].end > n
          BY <2>4, <3>6, <3>8
        <5> QED BY <3>4, <3>6, <3>7, <5>1
      <4>4. Frontier(s, n) <= Frontier(s, n + (k + 1))
        BY <2>2, <2>6
      <4> QED BY <4>1, <4>2, <4>3, <4>4
    <3> QED BY <2>2, <2>8, <3>3, <3>5, <3>9
  <2> QED BY <2>2, <2>3, <2>7, <2>8, ToldStep
<1>4. P = Nat
  <2>1. 0 \in P
    BY <1>2
  <2>2. ASSUME NEW k \in P PROVE k + 1 \in P
    <3>2. n + (k + 1) <= Len(s) => n + k < Len(s) /\ n + k <= Len(s)
      BY <1>a
    <3> QED BY <1>3, <3>2
  <2>3. P \in SUBSET Nat
    OBVIOUS
  <2> HIDE DEF P
  <2> QED BY <2>1, <2>2, <2>3, Induction
<1> QED
  <2> SUFFICES ASSUME NEW k \in 0..(Len(s) - n) PROVE Good(Told(s, n + k), k)
    BY <1>1
  <2>1. k \in Nat /\ n + k <= Len(s)
    BY <1>a
  <2> QED BY <1>4, <2>1

-----------------------------------------------------------------------------
(* The changes of screen one scan of a whole stream has found after n bytes. *)
Screens(s, n) == At(s, n).modes

(* A token adds the change of screen it completes, if any, and no other.     *)
LEMMA ScreensStep ==
  ASSUME NEW s \in Seq(Tokens), NEW n \in 0..(Len(s) - 1)
  PROVE  /\ Screens(s, n) \in Seq(Modes)
         /\ ModeAt(s[n + 1], n) \in Modes
         /\ Screens(s, n + 1) = IF ModeBy(At(s, n), s[n + 1])
                                  THEN Append(Screens(s, n), ModeAt(s[n + 1], n)) ELSE Screens(s, n)
         /\ ModeBy(At(s, n), s[n + 1]) => Frontier(s, n + 1) = n + 1
<1>1. n \in 0..Len(s) /\ n \in Nat /\ s[n + 1] \in Tokens
  OBVIOUS
<1>2. PICK a \in Scanners : a = At(s, n)
  BY <1>1, WholeIs
<1>3. At(s, n + 1) = Scan(a, n, s[n + 1]) /\ Scanned(a, n, s[n + 1], At(s, n + 1))
  BY <1>2, WholeIs
<1>4. a.modes \in Seq(Modes)
  BY ScannerFields
<1>5. ModeAt(s[n + 1], n) \in Modes
  <2>1. (s[n + 1] = "h") \in BOOLEAN /\ n + 1 \in Nat
    BY <1>1
  <2> QED BY <2>1 DEF ModeAt, Modes
<1>6. ASSUME ModeBy(a, s[n + 1]) PROVE Frontier(s, n + 1) = n + 1
  <2>1. Scan(a, n, s[n + 1]).state = "Ground"
    BY <1>6, ScannerFields DEF ModeBy, Scan, InCsi
  <2> QED BY <1>3, <2>1 DEF Frontier, InsideOsc
<1> QED BY <1>2, <1>3, <1>4, <1>5, <1>6 DEF Screens, Scanned

LEMMA ScreensTyped == ASSUME NEW s \in Seq(Tokens), NEW n \in 0..Len(s) PROVE Screens(s, n) \in Seq(Modes)
  BY WholeIs, ScannerFields DEF Screens

(* A change of screen lies behind the frontier once it is found.             *)
LEMMA ScreensPlaced ==
  ASSUME NEW s \in Seq(Tokens)
  PROVE  \A n \in 0..Len(s) : \A i \in 1..Len(Screens(s, n)) : Screens(s, n)[i].end <= Frontier(s, n)
<1> DEFINE Good(n) == \A i \in 1..Len(Screens(s, n)) : Screens(s, n)[i].end <= Frontier(s, n)
           P == {n \in Nat : n <= Len(s) => Good(n)}
<1>a. Len(s) \in Nat
  OBVIOUS
<1>1. Good(0)
  BY WholeIs, NewIs DEF Screens
<1>2. ASSUME NEW n \in Nat, n < Len(s), Good(n) PROVE Good(n + 1)
  <2>1. n \in 0..(Len(s) - 1) /\ n \in 0..Len(s) /\ n + 1 \in 0..Len(s)
    BY <1>2
  <2>2. PICK m \in Seq(Modes) : m = Screens(s, n)
    BY <2>1, ScreensTyped
  <2>3. Frontier(s, n) \in Int /\ Frontier(s, n + 1) \in Int /\ Frontier(s, n) <= Frontier(s, n + 1)
    BY <1>2, <2>1, FrontierStep
  <2>4. \A i \in 1..Len(m) : m[i].end \in Int /\ m[i].end <= Frontier(s, n + 1)
    <3>1. \A i \in 1..Len(m) : m[i].end \in Int
      <4>1. \A x \in Modes : x.end \in Int
        BY DEF Modes
      <4>2. \A i \in 1..Len(m) : m[i] \in Modes
        OBVIOUS
      <4> QED BY <4>1, <4>2
    <3>2. \A i \in 1..Len(m) : m[i].end <= Frontier(s, n)
      BY <1>2, <2>2, Zenon
    <3> QED BY <2>3, <3>1, <3>2
  <2>5. CASE Screens(s, n + 1) = m
    BY <2>4, <2>5
  <2>6. CASE Screens(s, n + 1) = Append(m, ModeAt(s[n + 1], n)) /\ Frontier(s, n + 1) = n + 1
    <3>1. PICK x \in Modes : x = ModeAt(s[n + 1], n) /\ x.end = n + 1
      BY <2>1, ScreensStep DEF ModeAt
    <3>2. PICK u \in Seq(Modes) : u = Append(m, x)
      <4>1. Append(m, x) \in Seq(Modes)
        OBVIOUS
      <4> QED BY <4>1, Zenon
    <3>3. Len(u) = Len(m) + 1 /\ u[Len(m) + 1] = x /\ \A i \in 1..Len(m) : u[i] = m[i]
      BY <3>2
    <3>4. \A i \in 1..Len(u) : i = Len(m) + 1 \/ i \in 1..Len(m)
      BY <3>3
    <3>5. \A i \in 1..Len(u) : u[i].end <= Frontier(s, n + 1)
      <4>1. x.end <= Frontier(s, n + 1)
        BY <2>6, <3>1
      <4> QED BY <2>4, <3>3, <3>4, <4>1
    <3> QED BY <2>6, <3>1, <3>2, <3>5, Zenon
  <2> QED BY <2>1, <2>2, <2>5, <2>6, ScreensStep
<1>3. P = Nat
  <2>1. 0 \in P
    BY <1>1
  <2>2. ASSUME NEW n \in P PROVE n + 1 \in P
    <3>1. n + 1 <= Len(s) => n < Len(s) /\ n <= Len(s)
      BY <1>a
    <3> QED BY <1>2, <3>1
  <2>3. P \in SUBSET Nat
    OBVIOUS
  <2> HIDE DEF P
  <2> QED BY <2>1, <2>2, <2>3, Induction
<1> QED
  <2> SUFFICES ASSUME NEW n \in 0..Len(s) PROVE Good(n)
    OBVIOUS
  <2>1. n \in Nat /\ n <= Len(s)
    BY <1>a
  <2> QED BY <1>3, <2>1

(* Those found before stay, and those found later end later.                 *)
LEMMA ScreensGrow ==
  ASSUME NEW s \in Seq(Tokens), NEW n \in 0..Len(s)
  PROVE  \A k \in 0..(Len(s) - n) :
           /\ Len(Screens(s, n)) <= Len(Screens(s, n + k))
           /\ \A i \in 1..Len(Screens(s, n)) : Screens(s, n + k)[i] = Screens(s, n)[i]
           /\ \A i \in (Len(Screens(s, n)) + 1)..Len(Screens(s, n + k)) : Screens(s, n + k)[i].end > n
<1>1. PICK m \in Seq(Modes) : m = Screens(s, n)
  BY ScreensTyped
<1> DEFINE Good(t) == /\ Len(m) <= Len(t)
                      /\ \A i \in 1..Len(m) : t[i] = m[i]
                      /\ \A i \in (Len(m) + 1)..Len(t) : t[i].end > n
           P == {k \in Nat : n + k <= Len(s) => Good(Screens(s, n + k))}
<1>a. Len(s) \in Nat /\ Len(m) \in Nat /\ n \in Nat
  OBVIOUS
<1>2. Good(Screens(s, n + 0))
  <2>1. n + 0 = n
    OBVIOUS
  <2>2. (Len(m) + 1)..Len(m) = {}
    BY <1>a
  <2> QED BY <1>1, <1>a, <2>1, <2>2
<1>3. ASSUME NEW k \in Nat, n + k < Len(s), Good(Screens(s, n + k))
      PROVE  Good(Screens(s, n + (k + 1)))
  <2>1. PICK q \in Nat : q = n + k
    OBVIOUS
  <2>2. n + (k + 1) = q + 1 /\ q \in 0..(Len(s) - 1) /\ q \in 0..Len(s) /\ q >= n
    BY <1>3, <2>1
  <2>3. PICK t \in Seq(Modes) : t = Screens(s, q)
    BY <2>2, ScreensTyped
  <2>4. Good(t) /\ Len(t) \in Nat
    BY <1>3, <2>1, <2>3
  <2>5. CASE Screens(s, q + 1) = t
    BY <2>2, <2>4, <2>5
  <2>6. CASE Screens(s, q + 1) = Append(t, ModeAt(s[q + 1], q))
    <3>1. PICK x \in Modes : x = ModeAt(s[q + 1], q) /\ x.end = q + 1
      BY <2>2, ScreensStep DEF ModeAt
    <3>2. PICK u \in Seq(Modes) : u = Append(t, x)
      <4>1. Append(t, x) \in Seq(Modes)
        OBVIOUS
      <4> QED BY <4>1, Zenon
    <3>3. Len(u) = Len(t) + 1 /\ u[Len(t) + 1] = x /\ \A i \in 1..Len(t) : u[i] = t[i]
      BY <3>2
    <3>4. Len(m) <= Len(u) /\ \A i \in 1..Len(m) : i \in 1..Len(t)
      BY <1>a, <2>4, <3>3
    <3>5. \A i \in 1..Len(m) : u[i] = m[i]
      BY <2>4, <3>3, <3>4
    <3>6. \A i \in (Len(m) + 1)..Len(u) : i = Len(t) + 1 \/ (i \in (Len(m) + 1)..Len(t) /\ i \in 1..Len(t))
      BY <1>a, <2>4, <3>3
    <3>7. x.end > n
      BY <2>2, <3>1
    <3>8. \A i \in (Len(m) + 1)..Len(u) : u[i].end > n
      BY <2>4, <3>3, <3>6, <3>7
    <3>9. Good(u)
      BY <3>4, <3>5, <3>8
    <3> QED BY <2>2, <2>6, <3>1, <3>2, <3>9, Zenon
  <2> QED BY <2>2, <2>3, <2>5, <2>6, ScreensStep
<1>4. P = Nat
  <2>1. 0 \in P
    BY <1>2
  <2>2. ASSUME NEW k \in P PROVE k + 1 \in P
    <3>1. k \in Nat /\ k + 1 \in Nat /\ (n + k <= Len(s) => Good(Screens(s, n + k)))
      OBVIOUS
    <3>2. n + (k + 1) <= Len(s) => n + k < Len(s) /\ n + k <= Len(s)
      BY <1>a
    <3> HIDE DEF Good
    <3> QED BY <1>3, <3>1, <3>2
  <2>3. P \in SUBSET Nat
    OBVIOUS
  <2> HIDE DEF P
  <2> QED BY <2>1, <2>2, <2>3, Induction
<1> QED
  <2> SUFFICES ASSUME NEW k \in 0..(Len(s) - n) PROVE Good(Screens(s, n + k))
    BY <1>1
  <2>1. k \in Nat /\ n + k <= Len(s)
    BY <1>a
  <2> QED BY <1>4, <2>1

(* The frontier is where it was before, or beyond all that was read then;    *)
(* so is the start of a marker found since.                                  *)
LEMMA FrontierJumps ==
  ASSUME NEW s \in Seq(Tokens), NEW n \in 0..Len(s)
  PROVE  \A k \in 0..(Len(s) - n) :
           /\ Frontier(s, n + k) = Frontier(s, n) \/ Frontier(s, n + k) >= n
           /\ Len(Told(s, n)) <= Len(Told(s, n + k))
           /\ \A i \in (Len(Told(s, n)) + 1)..Len(Told(s, n + k)) :
                Told(s, n + k)[i].start = Frontier(s, n) \/ Told(s, n + k)[i].start >= n
<1>1. PICK m \in Nat : m = Len(Told(s, n))
  BY ToldTyped
<1>a. Len(s) \in Nat /\ n \in Nat
  OBVIOUS
<1> DEFINE Here(f) == f = Frontier(s, n) \/ f >= n
           Good(k, t) == /\ Here(Frontier(s, n + k)) /\ m <= Len(t)
                         /\ \A i \in (m + 1)..Len(t) : Here(t[i].start)
           P == {k \in Nat : n + k <= Len(s) => Good(k, Told(s, n + k))}
<1>2. Good(0, Told(s, n + 0))
  <2>1. n + 0 = n /\ (m + 1)..m = {}
    OBVIOUS
  <2> QED BY <1>1, <2>1
<1>3. ASSUME NEW k \in Nat, n + k < Len(s), Good(k, Told(s, n + k))
      PROVE  Good(k + 1, Told(s, n + (k + 1)))
  <2>1. PICK q \in Nat : q = n + k
    OBVIOUS
  <2>2. n + (k + 1) = q + 1 /\ q \in 0..(Len(s) - 1) /\ q \in 0..Len(s) /\ q >= n /\ q + 1 \in 0..Len(s)
        /\ q < Len(s)
    BY <1>3, <2>1
  <2>3. PICK t \in Seq(Hits) : t = Told(s, q)
    BY <2>2, ToldTyped
  <2>4. Good(k, t) /\ Len(t) \in Nat /\ Here(Frontier(s, q))
    BY <1>3, <2>1, <2>3
  <2>5. PICK a \in Scanners : a = At(s, q)
    BY <2>2, WholeIs
  <2>6. PICK c : c = At(s, q + 1) /\ Scanned(a, q, s[q + 1], c)
    BY <2>2, <2>5, WholeIs
  <2>7. Here(Frontier(s, q + 1))
    <3>1. CASE OpensBy(a, s[q + 1])
      <4>1. q >= 1 /\ Frontier(s, q) = q - 1
        BY <2>2, <2>5, <3>1, FrontierStep DEF OpensBy, Frontier, InsideOsc
      <4>2. InsideOsc(c) /\ c.start = q - 1
        BY <2>6, <3>1, <4>1 DEF Scanned
      <4>3. Frontier(s, q + 1) = q - 1
        BY <2>6, <4>2 DEF Frontier
      <4> QED BY <2>4, <4>1, <4>3
    <3>2. CASE InsideOsc(c) /\ ~OpensBy(a, s[q + 1])
      <4>1. InsideOsc(a) /\ c.start = a.start
        BY <2>6, <3>2 DEF Scanned
      <4>2. Frontier(s, q + 1) = Frontier(s, q)
        BY <2>5, <2>6, <3>2, <4>1 DEF Frontier
      <4> QED BY <2>4, <4>2
    <3>3. CASE ~InsideOsc(c)
      <4>1. Frontier(s, q + 1) \in {q, q + 1}
        <5>1. c.state = "Escape" => Frontier(s, q + 1) = (q + 1) - 1
          BY <2>6, <3>3 DEF Frontier
        <5>2. c.state # "Escape" => Frontier(s, q + 1) = q + 1
          BY <2>6, <3>3 DEF Frontier
        <5> QED BY <5>1, <5>2
      <4> QED BY <1>a, <2>2, <4>1
    <3> QED BY <3>1, <3>2, <3>3
  <2>8. CASE Told(s, q + 1) = t
    BY <2>2, <2>4, <2>7, <2>8
  <2>9. CASE HitBy(a, s[q + 1]) /\ Told(s, q + 1) = Append(t, HitAt(a, q))
    <3>1. a.start = Frontier(s, q)
      BY <2>5, <2>6, <2>9 DEF Scanned, Frontier
    <3>2. PICK h \in Hits : h = HitAt(a, q) /\ h.start = a.start
      BY <2>2, <2>5, ToldStep DEF HitAt
    <3>3. PICK u \in Seq(Hits) : u = Append(t, h)
      <4>1. Append(t, h) \in Seq(Hits)
        OBVIOUS
      <4> QED BY <4>1, Zenon
    <3>4. Len(u) = Len(t) + 1 /\ u[Len(t) + 1] = h /\ \A i \in 1..Len(t) : u[i] = t[i]
      BY <3>3
    <3>5. \A i \in (m + 1)..Len(u) : i = Len(t) + 1 \/ (i \in (m + 1)..Len(t) /\ i \in 1..Len(t))
      BY <2>4, <3>4
    <3>6. Here(h.start)
      BY <2>4, <3>1, <3>2
    <3>7. \A i \in (m + 1)..Len(u) : Here(u[i].start)
      BY <2>4, <3>4, <3>5, <3>6
    <3>8. m <= Len(u)
      BY <2>4, <3>4
    <3>9. Here(Frontier(s, n + (k + 1)))
      BY <2>2, <2>7
    <3> QED BY <2>2, <2>9, <3>2, <3>3, <3>7, <3>8, <3>9, Zenon
  <2> QED BY <2>2, <2>3, <2>5, <2>8, <2>9, ToldStep
<1>4. P = Nat
  <2>1. 0 \in P
    BY <1>2
  <2>2. ASSUME NEW k \in P PROVE k + 1 \in P
    <3>2. n + (k + 1) <= Len(s) => n + k < Len(s) /\ n + k <= Len(s)
      BY <1>a
    <3> QED BY <1>3, <3>2
  <2>3. P \in SUBSET Nat
    OBVIOUS
  <2> HIDE DEF P
  <2> QED BY <2>1, <2>2, <2>3, Induction
<1> QED
  <2> SUFFICES ASSUME NEW k \in 0..(Len(s) - n) PROVE Good(k, Told(s, n + k))
    BY <1>1
  <2>1. k \in Nat /\ n + k <= Len(s)
    BY <1>a
  <2> QED BY <1>4, <2>1

-----------------------------------------------------------------------------
(* One read against the scan of the whole: the same machine byte by byte,    *)
(* and the markers it finds are the next ones of the whole.                  *)
Placed(at, whole, fedTo) == \/ at = None /\ whole < fedTo
                            \/ at \in Nat /\ whole = fedTo + at

Continues(s, n, hits, k) ==
  /\ Len(Told(s, n + k)) = Len(Told(s, n)) + Len(Markers(hits))
  /\ \A i \in 1..Len(Markers(hits)) :
       /\ Told(s, n + k)[Len(Told(s, n)) + i].payload = Markers(hits)[i].payload
       /\ Told(s, n + k)[Len(Told(s, n)) + i].end = n + Markers(hits)[i].end
       /\ Placed(Markers(hits)[i].start, Told(s, n + k)[Len(Told(s, n)) + i].start, n)

LEMMA ContinuesStep ==
  ASSUME NEW s \in Seq(Tokens), NEW n \in Nat, NEW k \in Nat, n + k + 1 <= Len(s),
         NEW q \in Scanners, NEW r, Alike(q, At(s, n + k)),
         Continues(s, n, q.hits, k),
         InsideOsc(q) => Placed(q.start, At(s, n + k).start, n),
         Scanned(q, k, s[n + k + 1], r)
  PROVE  Continues(s, n, r.hits, k + 1)
<1> DEFINE b == s[n + k + 1]
           a == At(s, n + k)
<1>1. /\ n + k \in 0..(Len(s) - 1) /\ n + k \in 0..Len(s) /\ n \in 0..Len(s) /\ n + k + 1 \in 0..Len(s)
      /\ n + (k + 1) = n + k + 1 /\ b \in Tokens
  OBVIOUS
<1>2. a \in Scanners
  BY <1>1, WholeIs
<1>3. HitBy(a, b) <=> HitBy(q, b)
  BY DEF HitBy, Closes, Alike
<1>4. a.payload = q.payload
  BY DEF Alike
<1>5. PICK m \in Seq(Hits) : m = Told(s, n + k)
  BY <1>1, ToldTyped
<1>6. PICK x \in Seq(Hits) : x = Markers(q.hits)
  <2>1. q.hits \in Seq(Hits)
    BY ScannerFields
  <2> QED BY <2>1, ChosenTyped DEF Markers
<1>7. PICK c \in Nat : c = Len(Told(s, n))
  <2>1. Told(s, n) \in Seq(Hits)
    BY <1>1, ToldTyped
  <2> QED BY <2>1
<1>8. /\ Len(m) = c + Len(x) /\ Len(x) \in Nat
      /\ \A i \in 1..Len(x) : /\ m[c + i].payload = x[i].payload /\ m[c + i].end = n + x[i].end
                              /\ Placed(x[i].start, m[c + i].start, n)
  BY <1>5, <1>6, <1>7 DEF Continues
<1>9. CASE HitBy(q, b) /\ Recognised(q.payload)
  <2>1. PICK h \in Hits : h = HitAt(a, n + k)
    BY <1>1, ToldStep
  <2>2. HitAt(q, k) \in Hits
    BY ScannerFields DEF HitAt, Hits
  <2>3. PICK g \in Hits : g = HitAt(q, k)
    BY <2>2
  <2>4. Told(s, n + k + 1) = Append(m, h)
    BY <1>1, <1>3, <1>4, <1>5, <1>9, <2>1, ToldStep
  <2>5. r.hits = Append(q.hits, g) /\ q.hits \in Seq(Hits)
    BY <1>9, <2>3, ScannerFields DEF Scanned
  <2>6. g.payload = q.payload /\ h.payload = q.payload /\ h.end = n + g.end /\ Placed(g.start, h.start, n)
    <3>1. InsideOsc(q)
      BY <1>9 DEF Scanned
    <3> QED BY <1>4, <2>1, <2>3, <3>1 DEF HitAt
  <2>7. Markers(r.hits) = Append(x, g)
    BY <1>6, <1>9, <2>5, <2>6, MarkersGrow
  <2>8. PICK t \in Seq(Hits) : t = Append(m, h)
    <3>1. Append(m, h) \in Seq(Hits)
      OBVIOUS
    <3> QED BY <3>1, Zenon
  <2>9. PICK y \in Seq(Hits) : y = Append(x, g)
    <3>1. Append(x, g) \in Seq(Hits)
      OBVIOUS
    <3> QED BY <3>1, Zenon
  <2>10. /\ Len(t) = c + Len(y) /\ Len(y) = Len(x) + 1
         /\ y[Len(x) + 1] = g /\ t[c + (Len(x) + 1)] = h
         /\ \A i \in 1..Len(x) : y[i] = x[i] /\ t[c + i] = m[c + i]
    <3>1. Len(y) = Len(x) + 1 /\ y[Len(x) + 1] = g /\ \A i \in 1..Len(x) : y[i] = x[i]
      BY <2>9
    <3>2. Len(t) = Len(m) + 1 /\ t[Len(m) + 1] = h /\ \A i \in 1..Len(m) : t[i] = m[i]
      BY <2>8
    <3>3. \A i \in 1..Len(x) : c + i \in 1..Len(m)
      BY <1>8
    <3> QED BY <1>8, <3>1, <3>2, <3>3
  <2>11. ASSUME NEW i \in 1..Len(y)
         PROVE  /\ t[c + i].payload = y[i].payload /\ t[c + i].end = n + y[i].end
                /\ Placed(y[i].start, t[c + i].start, n)
    <3>1. CASE i = Len(x) + 1
      BY <2>6, <2>10, <3>1
    <3>2. CASE i \in 1..Len(x)
      BY <1>8, <2>10, <3>2, Zenon
    <3> QED BY <1>8, <2>10, <3>1, <3>2
  <2>12. Told(s, n + (k + 1)) = t /\ Markers(r.hits) = y
    BY <1>1, <2>4, <2>7, <2>8, <2>9
  <2> QED BY <1>7, <2>10, <2>11, <2>12, Zenon DEF Continues
<1>10. CASE ~(HitBy(q, b) /\ Recognised(q.payload))
  <2>1. Told(s, n + k + 1) = m
    BY <1>1, <1>3, <1>4, <1>5, <1>10, ToldStep
  <2>2. Markers(r.hits) = x
    <3>1. CASE ~HitBy(q, b)
      BY <1>6, <3>1 DEF Scanned
    <3>2. CASE HitBy(q, b)
      <4>0. q.start \in Int /\ q.payload \in Seq(Tokens) /\ q.hits \in Seq(Hits)
        BY ScannerFields
      <4>1. HitAt(q, k) \in Hits /\ HitAt(q, k).payload = q.payload /\ q.hits \in Seq(Hits)
        BY <4>0 DEF HitAt, Hits
      <4>2. r.hits = Append(q.hits, HitAt(q, k))
        BY <3>2 DEF Scanned
      <4> QED BY <1>6, <1>10, <3>2, <4>1, <4>2, MarkersGrow
    <3> QED BY <3>1, <3>2
  <2> QED BY <1>1, <1>7, <1>8, <2>1, <2>2 DEF Continues
<1> QED BY <1>9, <1>10

Shows(s, n, modes, k) ==
  /\ Len(Screens(s, n + k)) = Len(Screens(s, n)) + Len(modes)
  /\ \A i \in 1..Len(modes) : Screens(s, n + k)[Len(Screens(s, n)) + i].enabled <=> modes[i].enabled

LEMMA ShowsStep ==
  ASSUME NEW s \in Seq(Tokens), NEW n \in Nat, NEW k \in Nat, n + k + 1 <= Len(s),
         NEW q \in Scanners, NEW r, Alike(q, At(s, n + k)),
         Shows(s, n, q.modes, k), Scanned(q, k, s[n + k + 1], r)
  PROVE  Shows(s, n, r.modes, k + 1)
<1>1. /\ n \in 0..Len(s) /\ n + k \in 0..(Len(s) - 1) /\ n + k \in 0..Len(s)
      /\ n + (k + 1) = n + k + 1 /\ n + k \in Nat
  OBVIOUS
<1>2. PICK w \in Seq(Modes) : w = Screens(s, n + k)
  BY <1>1, ScreensTyped
<1>3. PICK old \in Nat : old = Len(Screens(s, n))
  BY <1>1, ScreensTyped
<1>4. PICK m \in Seq(Modes) : m = q.modes
  BY ScannerFields
<1>5. /\ Len(w) = old + Len(m) /\ Len(m) \in Nat /\ Len(w) \in Nat
      /\ \A i \in 1..Len(m) : w[old + i].enabled <=> m[i].enabled
  BY <1>2, <1>3, <1>4 DEF Shows
<1>6. PICK b : b = s[n + k + 1]
  OBVIOUS
<1>7. ModeBy(q, b) <=> ModeBy(At(s, n + k), b)
  BY DEF Alike, ModeBy
<1>8. /\ r.modes = IF ModeBy(q, b) THEN Append(m, ModeAt(b, k)) ELSE m
      /\ Screens(s, n + k + 1) = IF ModeBy(q, b) THEN Append(w, ModeAt(b, n + k)) ELSE w
  BY <1>1, <1>2, <1>4, <1>6, <1>7, ScreensStep DEF Scanned
<1>9. CASE ~ModeBy(q, b)
  BY <1>1, <1>3, <1>5, <1>8, <1>9 DEF Shows
<1>10. CASE ModeBy(q, b)
  <2>1. ModeAt(b, k) \in Modes /\ ModeAt(b, n + k) \in Modes
        /\ (ModeAt(b, k).enabled <=> ModeAt(b, n + k).enabled)
    <3>1. (b = "h") \in BOOLEAN /\ k + 1 \in Nat /\ n + k + 1 \in Nat
      BY <1>1
    <3> QED BY <3>1 DEF ModeAt, Modes
  <2>2. PICK x \in Modes : x = ModeAt(b, k)
    BY <2>1
  <2>3. PICK y \in Modes : y = ModeAt(b, n + k) /\ (x.enabled <=> y.enabled)
    BY <2>1, <2>2
  <2>4. PICK m2 \in Seq(Modes) : m2 = Append(m, x)
    <3>1. Append(m, x) \in Seq(Modes)
      OBVIOUS
    <3> QED BY <3>1, Zenon
  <2>5. PICK w2 \in Seq(Modes) : w2 = Append(w, y)
    <3>1. Append(w, y) \in Seq(Modes)
      OBVIOUS
    <3> QED BY <3>1, Zenon
  <2>6. /\ Len(m2) = Len(m) + 1 /\ m2[Len(m) + 1] = x /\ \A i \in 1..Len(m) : m2[i] = m[i]
        /\ Len(w2) = Len(w) + 1 /\ w2[Len(w) + 1] = y /\ \A i \in 1..Len(w) : w2[i] = w[i]
    BY <2>4, <2>5
  <2>7. ASSUME NEW i \in 1..Len(m2) PROVE w2[old + i].enabled <=> m2[i].enabled
    <3>1. CASE i = Len(m) + 1
      <4>1. old + i = Len(w) + 1
        BY <1>5, <3>1
      <4> QED BY <2>3, <2>6, <3>1, <4>1
    <3>2. CASE i \in 1..Len(m)
      <4>1. old + i \in 1..Len(w)
        BY <1>5, <3>2
      <4> QED BY <1>5, <2>6, <3>2, <4>1
    <3>3. i = Len(m) + 1 \/ i \in 1..Len(m)
      BY <1>5, <2>6
    <3> QED BY <3>1, <3>2, <3>3
  <2>8. Len(w2) = old + Len(m2)
    BY <1>5, <2>6
  <2>9. r.modes = m2 /\ Screens(s, n + (k + 1)) = w2
    BY <1>1, <1>8, <1>10, <2>2, <2>3, <2>4, <2>5, Zenon
  <2> QED BY <1>3, <2>7, <2>8, <2>9 DEF Shows
<1> QED BY <1>9, <1>10

LEMMA ReadMatches ==
  ASSUME NEW s \in Seq(Tokens), NEW n \in Nat, NEW l \in Nat, n + l <= Len(s),
         NEW r \in Scanners, Alike(r, At(s, n))
  PROVE  \E t \in Scanners :
           /\ t = FeedIndexed(r, SubSeq(s, n + 1, n + l))
           /\ Alike(t, At(s, n + l))
           /\ InsideOsc(t) => Placed(t.start, At(s, n + l).start, n)
           /\ Continues(s, n, t.hits, l)
           /\ Shows(s, n, t.modes, l)
<1> DEFINE bytes == SubSeq(s, n + 1, n + l)
           q == Trail(r, bytes)
           Good(k) == /\ q[k] \in Scanners
                      /\ Alike(q[k], At(s, n + k))
                      /\ InsideOsc(q[k]) => Placed(q[k].start, At(s, n + k).start, n)
                      /\ Continues(s, n, q[k].hits, k)
                      /\ Shows(s, n, q[k].modes, k)
           P == {k \in Nat : k <= l => Good(k)}
<1>1. /\ bytes \in Seq(Tokens) /\ Len(bytes) = l
      /\ \A k \in Nat : k < l => bytes[k + 1] = s[n + k + 1]
  <2>1. n + 1 \in 1..(Len(s) + 1) /\ n + l \in 0..Len(s)
    OBVIOUS
  <2>2. /\ SubSeq(s, n + 1, n + l) \in Seq(Tokens)
        /\ Len(SubSeq(s, n + 1, n + l)) = IF n + 1 <= n + l THEN n + l - (n + 1) + 1 ELSE 0
        /\ \A i \in 1..(n + l - (n + 1) + 1) : SubSeq(s, n + 1, n + l)[i] = s[n + 1 + i - 1]
    BY <2>1, SubSeqProperties
  <2>3. PICK c \in Seq(Tokens) : c = bytes
    BY <2>2, Zenon
  <2>4. Len(c) = l
    BY <2>2, <2>3
  <2>5. ASSUME NEW k \in Nat, k < l PROVE c[k + 1] = s[n + k + 1]
    <3>1. k + 1 \in 1..(n + l - (n + 1) + 1) /\ n + 1 + (k + 1) - 1 = n + k + 1
      BY <2>5
    <3> QED BY <2>2, <2>3, <3>1, Zenon
  <2> QED BY <2>3, <2>4, <2>5
<1>2. /\ q[0] = Fresh(r) /\ \A i \in 0..l : q[i] \in Scanners
      /\ \A i \in 1..l : /\ q[i] = Scan(q[i - 1], i - 1, bytes[i])
                         /\ Scanned(q[i - 1], i - 1, bytes[i], q[i])
      /\ FeedIndexed(r, bytes) = q[l]
  BY <1>1, TrailIs
<1> HIDE DEF q, bytes
<1>3. Good(0)
  <2>1. n \in 0..Len(s) /\ n + 0 = n
    OBVIOUS
  <2>2. q[0] \in Scanners /\ Alike(q[0], r) /\ q[0].hits = <<>> /\ (InsideOsc(r) => q[0].start = None)
    BY <1>2, FreshIs
  <2>3. Alike(q[0], At(s, n))
    BY <2>2 DEF Alike
  <2>4. InsideOsc(q[0]) => q[0].start = None /\ At(s, n).start < n
    <3>1. InsideOsc(q[0]) => InsideOsc(r) /\ InsideOsc(At(s, n))
      BY <2>2, <2>3 DEF Alike, InsideOsc
    <3>2. InsideOsc(At(s, n)) => At(s, n).start < n
      BY <2>1, FrontierStep DEF Frontier
    <3> QED BY <2>2, <3>1, <3>2
  <2>5. Markers(q[0].hits) = <<>>
    BY <2>2, ChosenEmpty DEF Markers
  <2>6. Told(s, n) \in Seq(Hits)
    BY <2>1, ToldTyped
  <2>7. Continues(s, n, q[0].hits, 0)
    BY <2>1, <2>5, <2>6 DEF Continues
  <2>8. Shows(s, n, q[0].modes, 0)
    <3>1. q[0].modes = <<>> /\ Screens(s, n) \in Seq(Modes)
      BY <1>2, <2>1, FreshIs, ScreensTyped
    <3> QED BY <2>1, <3>1 DEF Shows
  <2> QED BY <2>1, <2>2, <2>3, <2>4, <2>7, <2>8 DEF Placed
<1>4. ASSUME NEW k \in Nat, k < l, Good(k) PROVE Good(k + 1)
  <2>1. k + 1 \in 1..l /\ (k + 1) - 1 = k /\ n + k \in 0..(Len(s) - 1) /\ n + k \in 0..Len(s)
        /\ n + k \in Nat /\ n + (k + 1) = n + k + 1 /\ n + k + 1 <= Len(s) /\ k + 1 \in 0..l /\ s[n + k + 1] \in Tokens
    BY <1>4
  <2>2. PICK b \in Tokens : b = s[n + k + 1] /\ b = bytes[k + 1]
    BY <1>1, <1>4, <2>1
  <2>3. q[k + 1] = Scan(q[k], k, b) /\ Scanned(q[k], k, b, q[k + 1]) /\ q[k + 1] \in Scanners
    BY <1>2, <2>1, <2>2
  <2>4. PICK a \in Scanners : a = At(s, n + k)
    BY <2>1, WholeIs
  <2>5. PICK c : c = At(s, n + k + 1) /\ c = Scan(a, n + k, b) /\ Scanned(a, n + k, b, c)
    BY <2>1, <2>2, <2>4, WholeIs
  <2>6. Alike(q[k + 1], c)
    BY <1>4, <2>1, <2>3, <2>4, <2>5, StayAlike
  <2>7. ASSUME InsideOsc(q[k + 1]) PROVE Placed(q[k + 1].start, c.start, n)
    <3>1. InsideOsc(c)
      BY <2>6, <2>7 DEF Alike, InsideOsc
    <3>2. OpensBy(q[k], b) <=> OpensBy(a, b)
      BY <1>4, <2>4 DEF Alike, OpensBy
    <3>3. CASE OpensBy(a, b)
      <4>1. n + k >= 1
        BY <2>1, <2>4, <3>3, FrontierStep DEF OpensBy
      <4>2. c.start = n + k - 1
        BY <2>5, <3>3, <4>1 DEF Scanned
      <4>3. q[k + 1].start = IF k = 0 THEN None ELSE k - 1
        BY <2>3, <3>2, <3>3 DEF Scanned
      <4> QED BY <4>2, <4>3 DEF Placed
    <3>4. CASE ~OpensBy(a, b)
      <4>1. InsideOsc(a) /\ c.start = a.start
        BY <2>5, <3>1, <3>4 DEF Scanned
      <4>2. InsideOsc(q[k]) /\ q[k + 1].start = q[k].start
        BY <2>3, <2>7, <3>2, <3>4 DEF Scanned
      <4> QED BY <1>4, <2>4, <4>1, <4>2
    <3> QED BY <3>3, <3>4
  <2>8. Continues(s, n, q[k + 1].hits, k + 1)
    BY <1>4, <2>1, <2>2, <2>3, ContinuesStep
  <2>9. Shows(s, n, q[k + 1].modes, k + 1)
    BY <1>4, <2>1, <2>2, <2>3, ShowsStep
  <2> QED BY <2>1, <2>3, <2>5, <2>6, <2>7, <2>8, <2>9
<1>5. P = Nat
  <2>1. 0 \in P
    BY <1>3
  <2>2. ASSUME NEW k \in P PROVE k + 1 \in P
    <3>1. k + 1 <= l => k < l /\ k <= l
      OBVIOUS
    <3> QED BY <1>4, <3>1
  <2>3. P \in SUBSET Nat
    OBVIOUS
  <2> HIDE DEF P
  <2> QED BY <2>1, <2>2, <2>3, Induction
<1>6. Good(l)
  BY <1>5
<1> QED BY <1>2, <1>6 DEF bytes

-----------------------------------------------------------------------------
(* The pump: its machine is the one that scans the whole, and the signals of *)
(* its batch are the markers found in it, where they are.                    *)
LEMMA ToldInAll ==
  ASSUME NEW s \in Seq(Tokens), NEW n \in 0..Len(s), NEW n2 \in n..Len(s)
  PROVE  /\ Frontier(s, n) <= Frontier(s, n2)
         /\ Len(Told(s, n)) <= Len(Told(s, n2))
         /\ \A i \in 1..Len(Told(s, n)) : Told(s, n2)[i] = Told(s, n)[i]
         /\ \A i \in (Len(Told(s, n)) + 1)..Len(Told(s, n2)) :
              Told(s, n2)[i].start >= Frontier(s, n) /\ Told(s, n2)[i].end > n
<1>1. PICK k \in 0..(Len(s) - n) : n2 = n + k
  <2>1. n2 - n \in 0..(Len(s) - n) /\ n2 = n + (n2 - n)
    OBVIOUS
  <2> QED BY <2>1
<1> QED BY <1>1, ToldGrows

SignalRecs == [start : Int, end : Nat, signal : Kinds]
Pendings == [kind : {"None", "Earlier", "StartedAt"}, at : Int]

(* The signal sig of the batch is the marker w of the whole; it starts before *)
(* the batch, or after a seam, or where w does.                              *)
Matches(sig, w) ==
  /\ sig.signal = Signal[w.payload[1]]
  /\ w.end = flushed + sig.end
  /\ \/ sig.start = None /\ (seam \/ w.start < flushed)
     \/ sig.start \in Nat /\ w.start = flushed + sig.start

(* Where the marker that is still open began, as far as the tap can tell.     *)
Opened ==
  /\ pending \in Pendings
  /\ pending.kind = "StartedAt" => /\ InsideOsc(At(stream, fed)) /\ pending.at \in Nat
                                   /\ At(stream, fed).start = flushed + pending.at
  /\ pending.kind = "Earlier" => /\ InsideOsc(At(stream, fed))
                                 /\ seam \/ At(stream, fed).start < flushed
  /\ pending.kind = "None" => ~InsideOsc(At(stream, fed)) \/ fed = flushed

(* The variables of the pump have their types, the counts in their order.    *)
Reading ==
  /\ stream \in Streams /\ marked = MarkedBlocks(stream)
  /\ fed \in 0..Len(stream) /\ flushed \in 0..fed
  /\ alternate \in BOOLEAN /\ ended \in BOOLEAN /\ seam \in BOOLEAN /\ switched \in BOOLEAN

(* The pump's machine is the one that scans the whole.                        *)
InStep ==
  /\ scanner \in Scanners /\ scanner.hits = <<>> /\ scanner.modes = <<>>
  /\ Alike(scanner, At(stream, fed))

(* The signals of the batch are the markers found since the last flush.       *)
Tapped ==
  /\ signals \in Seq(SignalRecs)
  /\ Len(Told(stream, fed)) = Len(Told(stream, flushed)) + Len(signals)
  /\ \A i \in 1..Len(signals) :
       Matches(signals[i], Told(stream, fed)[Len(Told(stream, flushed)) + i])

Pumping == Reading /\ InStep /\ Tapped /\ Opened

LEMMA PumpingFirst == Init => Pumping
<1> SUFFICES ASSUME Init PROVE Pumping
  OBVIOUS
<1>1. stream \in Seq(Tokens) /\ stream \in Streams
  BY StreamsAssumption DEF Init
<1>2. At(stream, 0) = NewScanner /\ NewScanner \in Scanners /\ ~InsideOsc(NewScanner)
      /\ NewScanner.hits = <<>> /\ NewScanner.modes = <<>>
  BY <1>1, WholeIs, NewIs DEF InsideOsc
<1>3. pending = [kind |-> "None", at |-> None]
  BY <1>2 DEF Init, PendingMarker
<1>4. signals = <<>> /\ signals \in Seq(SignalRecs)
  BY DEF Init
<1>5. Told(stream, 0) \in Seq(Hits)
  BY <1>1, ToldTyped
<1>6. fed = 0 /\ flushed = 0 /\ scanner = NewScanner /\ alternate = FALSE /\ ended = FALSE
      /\ seam = FALSE /\ switched = FALSE /\ marked = MarkedBlocks(stream)
  BY DEF Init
<1>7. Len(Told(stream, fed)) = Len(Told(stream, flushed)) + Len(signals)
  BY <1>4, <1>5, <1>6
<1>8. Opened
  BY <1>2, <1>3, <1>6 DEF Opened, Pendings, None
<1>9. Reading
  <2>1. Len(stream) \in Nat
    BY <1>1
  <2>2. fed \in 0..Len(stream) /\ flushed \in 0..fed
    BY <1>6, <2>1
  <2> QED BY <1>1, <1>6, <2>2 DEF Reading
<1>10. InStep
  BY <1>2, <1>6 DEF InStep, Alike
<1>11. Tapped
  BY <1>4, <1>7 DEF Tapped
<1> QED BY <1>8, <1>9, <1>10, <1>11 DEF Pumping

(* What a read adds to the batch.                                            *)
LEMMA RebasedIs ==
  ASSUME NEW base \in Nat, NEW hits \in Seq(Hits)
  PROVE  /\ Markers(hits) \in Seq(Hits)
         /\ (\A i \in 1..Len(Markers(hits)) :
               Markers(hits)[i].start = None \/ Markers(hits)[i].start \in Nat)
            => Rebased(base, hits) \in Seq(SignalRecs)
         /\ Len(Rebased(base, hits)) = Len(Markers(hits))
         /\ \A i \in 1..Len(Markers(hits)) :
              /\ Rebased(base, hits)[i].start = Offset(base, Markers(hits)[i].start)
              /\ Rebased(base, hits)[i].end = base + Markers(hits)[i].end
              /\ Rebased(base, hits)[i].signal = Signal[Markers(hits)[i].payload[1]]
<1>1. PICK m \in Seq(Hits) : m = Markers(hits)
  BY ChosenTyped DEF Markers
<1>2. DOMAIN m = 1..Len(m) /\ Len(m) \in Nat
  OBVIOUS
<1>3. Rebased(base, hits) = [i \in 1..Len(m) |->
        [start |-> Offset(base, m[i].start), end |-> base + m[i].end, signal |-> Kind(m, i)]]
  BY <1>1, <1>2, Zenon DEF Rebased
<1>4. ASSUME NEW i \in 1..Len(m), m[i].start = None \/ m[i].start \in Nat
      PROVE  [start |-> Offset(base, m[i].start), end |-> base + m[i].end, signal |-> Kind(m, i)] \in SignalRecs
  <2>1. Recognised(m[i].payload)
    BY <1>1, <1>2, MarkersRecognised
  <2>2. Kind(m, i) \in Kinds
    BY <2>1, SignalIs DEF Kind, Recognised
  <2>3. Offset(base, m[i].start) \in Int /\ base + m[i].end \in Nat
    <3>1. m[i] \in Hits
      OBVIOUS
    <3>2. m[i].start \in Int /\ m[i].end \in Nat
      BY <3>1 DEF Hits
    <3> QED BY <3>2 DEF Offset, None
  <2> QED BY <2>2, <2>3 DEF SignalRecs
<1>6. Len(Rebased(base, hits)) = Len(m)
  BY <1>2, <1>3
<1>7. (\A i \in 1..Len(m) : m[i].start = None \/ m[i].start \in Nat) => Rebased(base, hits) \in Seq(SignalRecs)
  BY <1>2, <1>3, <1>4
<1>8. \A i \in 1..Len(m) :
              /\ Rebased(base, hits)[i].start = Offset(base, m[i].start)
              /\ Rebased(base, hits)[i].end = base + m[i].end
              /\ Rebased(base, hits)[i].signal = Signal[m[i].payload[1]]
  BY <1>3 DEF Kind
<1> QED BY <1>1, <1>6, <1>7, <1>8

LEMMA PumpingRead ==
  ASSUME Pumping, NEW n \in Nat, Read(n)
  PROVE  Pumping'
<1>1. stream \in Seq(Tokens) /\ stream \in Streams /\ stream' = stream /\ flushed' = flushed
      /\ ended' = ended /\ marked' = marked /\ marked = MarkedBlocks(stream)
  BY StreamsAssumption DEF Pumping, Reading, Read
<1>2. n \in 1..(Len(stream) - fed) /\ fed' = fed + n /\ Len(stream) \in Nat
  BY <1>1 DEF Read
<1>3. fed \in 0..Len(stream) /\ flushed \in 0..fed
  BY DEF Pumping, Reading
<1>4. /\ fed' \in 0..Len(stream) /\ fed' \in fed..Len(stream) /\ fed \in flushed..Len(stream)
      /\ flushed \in 0..Len(stream) /\ fed \in Nat /\ flushed \in Nat
      /\ flushed \in 0..fed' /\ fed + n <= Len(stream)
  BY <1>2, <1>3
<1>5. PICK base \in Nat : base = fed - flushed
  BY <1>3, <1>4
<1>a. fed \in Nat /\ flushed \in Nat /\ fed = flushed + base
  BY <1>3, <1>4, <1>5
<1>6. PICK t \in Scanners :
        /\ t = FeedIndexed(scanner, SubSeq(stream, fed + 1, fed + n))
        /\ Alike(t, At(stream, fed + n))
        /\ InsideOsc(t) => Placed(t.start, At(stream, fed + n).start, fed)
        /\ Continues(stream, fed, t.hits, n)
  BY <1>1, <1>4, ReadMatches DEF Pumping, InStep
<1>7. /\ scanner' = [t EXCEPT !.hits = <<>>, !.modes = <<>>]
      /\ signals' = signals \o Rebased(base, t.hits)
      /\ pending' = [PendingMarker(t) EXCEPT !.at = Offset(base, @)]
      /\ alternate' = IF t.modes = <<>> THEN alternate ELSE Last(t.modes).enabled
      /\ seam' = (seam \/ (base > 0 /\ scanner.state \in {"Escape", "Osc", "OscEscape"}))
      /\ switched' = (switched \/ t.modes # <<>>)
  BY <1>5, <1>6 DEF Read
<1>8. scanner' \in Scanners /\ scanner'.hits = <<>> /\ scanner'.modes = <<>>
      /\ Alike(scanner', At(stream, fed'))
  <2>1. <<>> \in Seq(Hits) /\ <<>> \in Seq(Modes)
    OBVIOUS
  <2> QED BY <1>2, <1>6, <1>7, <2>1 DEF Scanners, Alike
<1>9. /\ seam \in BOOLEAN /\ seam' \in BOOLEAN /\ switched' \in BOOLEAN /\ (seam => seam')
      /\ ended' \in BOOLEAN
  BY <1>1, <1>7 DEF Pumping, Reading
<1>10. alternate' \in BOOLEAN
  <2>1. t.modes \in Seq(Modes) /\ alternate \in BOOLEAN
    BY ScannerFields DEF Pumping, Reading
  <2>2. ASSUME t.modes # <<>> PROVE Last(t.modes).enabled \in BOOLEAN
    <3>1. t.modes[Len(t.modes)] \in Modes
      BY <2>1, <2>2
    <3> QED BY <3>1 DEF Last, Modes
  <2> QED BY <1>7, <2>1, <2>2
\* A sequence under way is a seam, unless the batch has only begun.
<1>11. ASSUME NEW f \in Int, f >= Frontier(stream, fed), f < fed PROVE seam' \/ f < flushed
  <2>1. CASE base = 0
    BY <1>3, <1>5, <1>11, <2>1
  <2>2. CASE base > 0
    <3>1. Frontier(stream, fed) < fed
      BY <1>3, <1>4, <1>11, <1>1, FrontierStep
    <3>2. At(stream, fed).state \in {"Escape", "Osc", "OscEscape"}
      BY <1>4, <3>1 DEF Frontier, InsideOsc
    <3>3. scanner.state = At(stream, fed).state
      BY DEF Pumping, InStep, Alike
    <3> QED BY <1>7, <2>2, <3>2, <3>3
  <2> QED BY <2>1, <2>2
<1>12. /\ Frontier(stream, fed) <= Frontier(stream, fed') /\ Frontier(stream, fed) \in Int
       /\ Frontier(stream, fed') \in Int
  BY <1>1, <1>3, <1>4, ToldInAll, FrontierStep
<1>13. PICK w \in Seq(Hits) : w = Told(stream, fed')
  BY <1>1, <1>4, ToldTyped
<1>14. PICK old \in Seq(Hits) : old = Told(stream, fed)
  BY <1>1, <1>3, ToldTyped
<1>15. PICK c \in Nat : c = Len(Told(stream, flushed))
  <2>1. Told(stream, flushed) \in Seq(Hits)
    BY <1>1, <1>4, ToldTyped
  <2> QED BY <2>1
<1>16. PICK x \in Seq(Hits) : x = Markers(t.hits)
  <2>1. t.hits \in Seq(Hits)
    BY ScannerFields
  <2> QED BY <2>1, ChosenTyped DEF Markers
<1>17. /\ Len(w) = Len(old) + Len(x)
       /\ \A i \in 1..Len(x) : /\ w[Len(old) + i].payload = x[i].payload
                               /\ w[Len(old) + i].end = fed + x[i].end
                               /\ Placed(x[i].start, w[Len(old) + i].start, fed)
  BY <1>2, <1>6, <1>13, <1>14, <1>16 DEF Continues
<1>18. /\ \A i \in 1..Len(old) : w[i] = old[i]
       /\ \A i \in (Len(old) + 1)..Len(w) : w[i].start >= Frontier(stream, fed)
  BY <1>1, <1>3, <1>4, <1>13, <1>14, ToldInAll
<1>19. /\ signals \in Seq(SignalRecs) /\ Len(old) = c + Len(signals)
       /\ \A i \in 1..Len(signals) : Matches(signals[i], old[c + i])
  BY <1>14, <1>15 DEF Pumping, Tapped
<1>20. PICK r \in Seq(SignalRecs) :
         /\ r = Rebased(base, t.hits) /\ Len(r) = Len(x)
         /\ \A i \in 1..Len(x) : /\ r[i].start = Offset(base, x[i].start)
                                 /\ r[i].end = base + x[i].end
                                 /\ r[i].signal = Signal[x[i].payload[1]]
  <2>1. t.hits \in Seq(Hits)
    BY ScannerFields
  <2>2. \A i \in 1..Len(x) : x[i].start = None \/ x[i].start \in Nat
    BY <1>17 DEF Placed
  <2>3. /\ Rebased(base, t.hits) \in Seq(SignalRecs)
        /\ Len(Rebased(base, t.hits)) = Len(x)
        /\ \A i \in 1..Len(x) : /\ Rebased(base, t.hits)[i].start = Offset(base, x[i].start)
                                /\ Rebased(base, t.hits)[i].end = base + x[i].end
                                /\ Rebased(base, t.hits)[i].signal = Signal[x[i].payload[1]]
    BY <1>16, <2>1, <2>2, RebasedIs
  <2> QED BY <2>3, Zenon
<1>21. PICK z \in Seq(SignalRecs) : z = signals'
  <2>1. signals \o r \in Seq(SignalRecs)
    BY <1>19
  <2> QED BY <1>7, <1>20, <2>1
<1>22. /\ Len(z) = Len(signals) + Len(x) /\ Len(signals) \in Nat /\ Len(x) \in Nat
       /\ \A i \in 1..Len(signals) : z[i] = signals[i]
       /\ \A i \in 1..Len(x) : z[Len(signals) + i] = r[i]
  <2>1. PICK y \in Seq(SignalRecs) : y = signals
    BY <1>19
  <2>2. z = y \o r /\ Len(r) = Len(x)
    BY <1>7, <1>20, <1>21, <2>1, Zenon
  <2>3. Len(z) = Len(y) + Len(r) /\ Len(y) \in Nat /\ Len(r) \in Nat
        /\ (\A i \in 1..Len(y) : z[i] = y[i]) /\ \A i \in 1..Len(r) : z[Len(y) + i] = r[i]
    <3>1. /\ Len(z) = Len(y) + Len(r) /\ Len(y) \in Nat /\ Len(r) \in Nat
          /\ \A i \in 1..(Len(y) + Len(r)) : z[i] = IF i <= Len(y) THEN y[i] ELSE r[i - Len(y)]
      <4>1. /\ Len(y \o r) = Len(y) + Len(r)
            /\ \A i \in 1..(Len(y) + Len(r)) : (y \o r)[i] = IF i <= Len(y) THEN y[i] ELSE r[i - Len(y)]
        BY ConcatProperties
      <4>2. Len(y) \in Nat /\ Len(r) \in Nat
        OBVIOUS
      <4> QED BY <2>2, <4>1, <4>2, Zenon
    <3>2. \A i \in 1..Len(y) : i \in 1..(Len(y) + Len(r)) /\ i <= Len(y)
      BY <3>1
    <3>3. \A i \in 1..Len(r) : /\ Len(y) + i \in 1..(Len(y) + Len(r)) /\ ~(Len(y) + i <= Len(y))
                              /\ (Len(y) + i) - Len(y) = i
      BY <3>1
    <3>4. (\A i \in 1..Len(y) : z[i] = y[i]) /\ \A i \in 1..Len(r) : z[Len(y) + i] = r[i]
      BY <3>1, <3>2, <3>3
    <3> QED BY <3>1, <3>4
  <2> QED BY <2>1, <2>2, <2>3, Zenon
<1>23. Len(w) = c + Len(z)
  BY <1>17, <1>19, <1>22
<1>24. ASSUME NEW i \in 1..Len(z) PROVE Matches(z[i], w[c + i])'
  <2>1. CASE i \in 1..Len(signals)
    <3>1. Matches(signals[i], old[c + i])
      BY <1>19, <2>1
    <3>2. z[i] = signals[i] /\ w[c + i] = old[c + i]
      BY <1>18, <1>19, <1>22, <2>1
    <3>3. z[i].signal = Signal[w[c + i].payload[1]] /\ w[c + i].end = flushed + z[i].end
          /\ \/ z[i].start = None /\ (seam' \/ w[c + i].start < flushed)
             \/ z[i].start \in Nat /\ w[c + i].start = flushed + z[i].start
      BY <1>9, <3>1, <3>2, Zenon DEF Matches
    <3> QED BY <1>1, <3>3, Zenon DEF Matches
  <2>2. CASE i > Len(signals)
    <3>1. PICK j \in 1..Len(x) : i = Len(signals) + j
      <4>1. i - Len(signals) \in 1..Len(x) /\ i = Len(signals) + (i - Len(signals))
        BY <1>22, <2>2
      <4> QED BY <4>1
    <3>2. PICK v \in Hits : v = w[c + i] /\ v = w[Len(old) + j]
      <4>1. c + i = Len(old) + j /\ c + i \in 1..Len(w)
        BY <1>19, <1>22, <1>23, <3>1
      <4> QED BY <4>1
    <3>3. PICK y \in Hits : y = x[j]
      OBVIOUS
    <3>4. v.payload = y.payload /\ v.end = fed + y.end /\ Placed(y.start, v.start, fed)
      BY <1>17, <3>2, <3>3
    <3>5. v.start >= Frontier(stream, fed)
      <4>1. Len(old) + j \in (Len(old) + 1)..Len(w)
        BY <1>17, <1>22
      <4> QED BY <1>18, <3>2, <4>1
    <3>6. z[i] = r[j] /\ r[j].start = Offset(base, y.start) /\ r[j].end = base + y.end
          /\ r[j].signal = Signal[y.payload[1]]
      BY <1>20, <1>22, <3>1, <3>3
    <3>7. y.end \in Nat /\ v.start \in Int /\ v.end \in Nat /\ y.start \in Int
      BY DEF Hits
    <3>8. v.end = flushed + z[i].end
      <4>1. z[i].end = base + y.end /\ v.end = fed + y.end
        BY <3>4, <3>6
      <4> QED BY <1>a, <3>7, <4>1
    <3>9. \/ z[i].start = None /\ (seam' \/ v.start < flushed)
          \/ z[i].start \in Nat /\ v.start = flushed + z[i].start
      <4>1. CASE y.start = None /\ v.start < fed
        BY <1>11, <3>5, <3>6, <3>7, <4>1 DEF Offset
      <4>2. CASE y.start \in Nat /\ v.start = fed + y.start
        <5>1. z[i].start = base + y.start
          BY <3>6, <4>2 DEF Offset, None
        <5>2. PICK a \in Nat : a = y.start
          BY <4>2
        <5>3. z[i].start = base + a /\ v.start = fed + a
          BY <4>2, <5>1, <5>2
        <5> QED BY <1>a, <5>3
      <4> QED BY <3>4, <4>1, <4>2 DEF Placed
    <3> QED BY <1>1, <3>2, <3>4, <3>6, <3>8, <3>9 DEF Matches
  <2> QED BY <1>22, <2>1, <2>2
<1>25. Opened'
  <2>1. PICK g \in Int : g = At(stream, fed').start
    <3>1. At(stream, fed') \in Scanners
      BY <1>1, <1>4, WholeIs
    <3> QED BY <3>1, ScannerFields
  <2>2. InsideOsc(t) <=> InsideOsc(At(stream, fed'))
    BY <1>2, <1>6 DEF Alike, InsideOsc
  <2>3. InsideOsc(t) => g >= Frontier(stream, fed)
    BY <1>12, <2>1, <2>2 DEF Frontier
  <2>4. CASE ~InsideOsc(t)
    <3>1. pending' = [kind |-> "None", at |-> None]
      BY <1>7, <2>4 DEF PendingMarker, Offset
    <3> QED BY <1>1, <2>2, <2>4, <3>1 DEF Pendings, Opened, None
  <2>5. CASE InsideOsc(t) /\ t.start = None
    <3>1. pending' = [kind |-> "Earlier", at |-> None]
      BY <1>7, <2>5 DEF PendingMarker, Offset
    <3>2. g < fed
      BY <1>2, <1>6, <2>1, <2>5 DEF Placed, None
    <3>3. seam' \/ g < flushed
      BY <1>11, <2>3, <2>5, <3>2
    <3> QED BY <1>1, <2>1, <2>2, <2>5, <3>1, <3>3 DEF Pendings, Opened, None
  <2>6. CASE InsideOsc(t) /\ t.start # None
    <3>1. pending' = [kind |-> "StartedAt", at |-> base + t.start]
      BY <1>7, <2>6 DEF PendingMarker, Offset
    <3>2. t.start \in Nat /\ g = fed + t.start
      BY <1>2, <1>6, <2>1, <2>6 DEF Placed
    <3>3. base + t.start \in Nat /\ g = flushed + (base + t.start)
      BY <1>a, <3>2
    <3> QED BY <1>1, <2>1, <2>2, <2>6, <3>1, <3>3 DEF Pendings, Opened
  <2> QED BY <2>4, <2>5, <2>6
<1>26. Tapped'
  <2>1. Told(stream, fed)' = w /\ Len(Told(stream, flushed))' = c /\ signals' = z
    BY <1>1, <1>13, <1>15, <1>21
  <2>2. \A i \in 1..Len(z) : Matches(z[i], w[c + i])'
    BY <1>24
  <2>3. \A i \in 1..Len(signals') :
           Matches(signals[i], Told(stream, fed)[Len(Told(stream, flushed)) + i])'
    BY <2>1, <2>2, Zenon
  <2> QED BY <1>23, <2>1, <2>3, Zenon DEF Tapped
<1>27. Reading'
  BY <1>1, <1>4, <1>9, <1>10 DEF Reading
<1>28. InStep'
  BY <1>1, <1>8 DEF InStep
<1> QED BY <1>25, <1>26, <1>27, <1>28 DEF Pumping

LEMMA PumpingFlush ==
  ASSUME Pumping, Flush
  PROVE  Pumping'
<1>1. stream' = stream /\ fed' = fed /\ flushed' = fed /\ scanner' = scanner /\ alternate' = alternate
      /\ ended' = ended /\ signals' = <<>> /\ seam' = FALSE /\ switched' = FALSE
      /\ pending' = PendingMarker(NewScanner) /\ marked' = marked
  BY DEF Flush
<1>2. stream \in Seq(Tokens) /\ fed \in 0..Len(stream)
  BY StreamsAssumption DEF Pumping, Reading
<1>3. Told(stream, fed) \in Seq(Hits)
  BY <1>2, ToldTyped
<1>4. pending' = [kind |-> "None", at |-> None]
  BY <1>1, NewIs DEF PendingMarker, InsideOsc
<1>5. fed' = flushed' /\ flushed' \in 0..fed' /\ signals' \in Seq(SignalRecs) /\ pending' \in Pendings
  BY <1>1, <1>2, <1>4 DEF Pendings, None
<1>6. Opened'
  BY <1>4, <1>5 DEF Opened, Pendings
<1>7. /\ Len(Told(stream', fed')) = Len(Told(stream', flushed')) + Len(signals')
      /\ Len(signals') = 0
  BY <1>1, <1>3
<1>8. Reading'
  BY <1>1, <1>2, <1>5 DEF Pumping, Reading
<1>9. InStep'
  BY <1>1 DEF Pumping, InStep
<1>10. Tapped'
  BY <1>5, <1>7 DEF Tapped
<1> QED BY <1>6, <1>8, <1>9, <1>10 DEF Pumping

LEMMA PumpingEnds ==
  ASSUME Pumping, SessionEnds \/ UNCHANGED vars
  PROVE  Pumping'
<1>1. /\ UNCHANGED <<stream, marked, fed, flushed, scanner, signals, pending, alternate, seam, switched>>
      /\ ended' \in BOOLEAN
  BY DEF SessionEnds, vars, batchVars, Pumping, Reading
<1> QED BY <1>1 DEF Pumping, Reading, InStep, Tapped, Matches, Opened

-----------------------------------------------------------------------------
(* The builder: what each of its operations makes of the Blocks.             *)
Phases == {"Unsynced", "AtPrompt", "Executing"}
Hosts == {"local", "remote"}
Exits == {"running", "code", "unknown"}
Blocks == [named : BOOLEAN, host : Hosts, exit : Exits, output : Seq(Int), redraws : Nat]
Builders == [phase : Phases, meta : BOOLEAN, host : Hosts, blocks : Seq(Blocks), running : BOOLEAN,
             alternate : BOOLEAN, redraws : Nat, carry : Seq(Int)]
Ready(b) == b \in Builders /\ (b.running => b.blocks # <<>>)

LEMMA BuilderFields ==
  ASSUME NEW b \in Builders
  PROVE  /\ b = [phase |-> b.phase, meta |-> b.meta, host |-> b.host, blocks |-> b.blocks,
                 running |-> b.running, alternate |-> b.alternate, redraws |-> b.redraws, carry |-> b.carry]
         /\ b.phase \in Phases /\ b.meta \in BOOLEAN /\ b.host \in Hosts /\ b.blocks \in Seq(Blocks)
         /\ b.running \in BOOLEAN /\ b.alternate \in BOOLEAN /\ b.redraws \in Nat /\ b.carry \in Seq(Int)
         /\ Len(b.blocks) \in Nat
  BY DEF Builders

LEMMA BlockFields ==
  ASSUME NEW k \in Blocks
  PROVE  /\ k = [named |-> k.named, host |-> k.host, exit |-> k.exit, output |-> k.output, redraws |-> k.redraws]
         /\ k.named \in BOOLEAN /\ k.host \in Hosts /\ k.exit \in Exits /\ k.output \in Seq(Int)
         /\ k.redraws \in Nat
  BY DEF Blocks

(* The last Block replaced by another.                                       *)
LEMMA LastReplaced ==
  ASSUME NEW s \in Seq(Blocks), s # <<>>, NEW x \in Blocks
  PROVE  /\ Len(s) \in 1..Len(s) /\ s[Len(s)] \in Blocks
         /\ [s EXCEPT ![Len(s)] = x] \in Seq(Blocks) /\ [s EXCEPT ![Len(s)] = x] # <<>>
         /\ Len([s EXCEPT ![Len(s)] = x]) = Len(s)
         /\ \A k \in 1..Len(s) : [s EXCEPT ![Len(s)] = x][k] = IF k = Len(s) THEN x ELSE s[k]
<1>1. Len(s) \in 1..Len(s) /\ Len(s) \in Nat
  BY EmptySeq
<1>2. s[Len(s)] \in Blocks
  BY <1>1
<1>3. /\ [s EXCEPT ![Len(s)] = x] \in Seq(Blocks)
      /\ Len([s EXCEPT ![Len(s)] = x]) = Len(s)
      /\ \A k \in 1..Len(s) : [s EXCEPT ![Len(s)] = x][k] = IF k = Len(s) THEN x ELSE s[k]
  BY <1>1
<1>4. [s EXCEPT ![Len(s)] = x] # <<>>
  BY <1>1, <1>3
<1> QED BY <1>1, <1>2, <1>3, <1>4

(* t is b with x written to the Block it holds open, on the normal screen.   *)
Captures(b, t, x) ==
  /\ t.meta = b.meta /\ t.running = b.running /\ t.carry = b.carry /\ t.alternate = b.alternate
  /\ Len(t.blocks) = Len(b.blocks)
  /\ \A k \in 1..Len(b.blocks) :
       /\ t.blocks[k].named = b.blocks[k].named /\ t.blocks[k].exit = b.blocks[k].exit
       /\ t.blocks[k].output = IF b.running /\ ~b.alternate /\ k = Len(b.blocks)
                                 THEN b.blocks[k].output \o x ELSE b.blocks[k].output

LEMMA OutputIs ==
  ASSUME NEW b, Ready(b), NEW x \in Seq(Int)
  PROVE  Ready(AppendOutput(b, x)) /\ Captures(b, AppendOutput(b, x), x)
<1> DEFINE t == AppendOutput(b, x)
<1>0. b \in Builders
  BY DEF Ready
<1>1. CASE x = <<>> \/ ~b.running
  <2>1. t = b
    BY <1>1 DEF AppendOutput
  <2>2. ASSUME x = <<>>, NEW k \in 1..Len(b.blocks) PROVE b.blocks[k].output \o x = b.blocks[k].output
    <3>1. PICK o \in Seq(Int) : o = b.blocks[k].output
      <4>1. b.blocks[k] \in Blocks
        BY <1>0, BuilderFields
      <4> QED BY <4>1, BlockFields
    <3>2. o \o <<>> = o
      OBVIOUS
    <3> QED BY <2>2, <3>1, <3>2
  <2> QED BY <1>1, <2>1, <2>2 DEF Captures
<1>2. CASE x # <<>> /\ b.running /\ b.alternate
  <2>1. t = [b EXCEPT !.redraws = b.redraws + Len(x)]
    BY <1>2 DEF AppendOutput
  <2>2. b.redraws + Len(x) \in Nat
    BY <1>0, BuilderFields
  <2>3. t \in Builders
    BY <1>0, <2>1, <2>2 DEF Builders
  <2> QED BY <1>0, <1>2, <2>1, <2>3, BuilderFields DEF Captures, Ready
<1>3. CASE x # <<>> /\ b.running /\ ~b.alternate
  <2>1. b.blocks \in Seq(Blocks) /\ b.blocks # <<>>
    BY <1>0, <1>3, BuilderFields DEF Ready
  <2>2. PICK last \in Blocks : last = b.blocks[Len(b.blocks)]
    BY <2>1, LastReplaced
  <2>3. PICK new \in Blocks : new = [last EXCEPT !.output = last.output \o x]
    <3>1. last.output \o x \in Seq(Int)
      BY BlockFields
    <3> QED BY <3>1 DEF Blocks
  <2>4. t = [b EXCEPT !.blocks = [b.blocks EXCEPT ![Len(b.blocks)] = new]]
    BY <1>3, <2>2, <2>3 DEF AppendOutput
  <2>5. PICK s \in Seq(Blocks) :
          /\ s = [b.blocks EXCEPT ![Len(b.blocks)] = new] /\ s # <<>> /\ Len(s) = Len(b.blocks)
          /\ \A k \in 1..Len(s) : s[k] = IF k = Len(s) THEN new ELSE b.blocks[k]
    <3>1. LET r == [b.blocks EXCEPT ![Len(b.blocks)] = new]
          IN  /\ r \in Seq(Blocks) /\ r # <<>> /\ Len(r) = Len(b.blocks)
              /\ \A k \in 1..Len(b.blocks) : r[k] = IF k = Len(b.blocks) THEN new ELSE b.blocks[k]
      BY <2>1, LastReplaced
    <3> QED BY <3>1, Zenon
  <2>6. t = [b EXCEPT !.blocks = s]
    BY <2>4, <2>5
  <2>7. t \in Builders
    BY <1>0, <2>6 DEF Builders
  <2>8. /\ t.phase = b.phase /\ t.meta = b.meta /\ t.running = b.running /\ t.carry = b.carry
        /\ t.alternate = b.alternate /\ t.blocks = s
    BY <1>0, <2>6, BuilderFields
  <2>9. new.named = last.named /\ new.exit = last.exit /\ new.output = last.output \o x
    BY <2>3, BlockFields
  <2> QED BY <1>3, <2>2, <2>5, <2>7, <2>8, <2>9 DEF Captures, Ready
<1> QED BY <1>1, <1>2, <1>3

(* t is b with its open Block ended, if ends, by that exit.                  *)
Settles(b, t, ends, exit) ==
  /\ t.carry = b.carry /\ t.alternate = b.alternate
  /\ \A k \in 1..Len(b.blocks) :
       /\ t.blocks[k].named = b.blocks[k].named /\ t.blocks[k].output = b.blocks[k].output
       /\ t.blocks[k].exit = IF ends /\ b.running /\ k = Len(b.blocks) THEN exit ELSE b.blocks[k].exit

LEMMA FinishIs ==
  ASSUME NEW b, Ready(b), NEW exit \in Exits
  PROVE  LET t == FinishCommand(b, exit)
         IN  /\ Ready(t) /\ ~t.running /\ t.meta = b.meta /\ Len(t.blocks) = Len(b.blocks)
             /\ Settles(b, t, TRUE, exit)
<1> DEFINE t == FinishCommand(b, exit)
<1>0. b \in Builders
  BY DEF Ready
<1>1. CASE ~b.running
  <2>1. t = b
    BY <1>1 DEF FinishCommand
  <2> QED BY <1>1, <2>1 DEF Settles
<1>2. CASE b.running
  <2>1. b.blocks \in Seq(Blocks) /\ b.blocks # <<>> /\ b.redraws \in Nat
    BY <1>0, <1>2, BuilderFields DEF Ready
  <2>2. PICK last \in Blocks : last = b.blocks[Len(b.blocks)]
    BY <2>1, LastReplaced
  <2>3. PICK new \in Blocks : new = [last EXCEPT !.exit = exit, !.redraws = b.redraws]
    BY <2>1 DEF Blocks
  <2>5. PICK s \in Seq(Blocks) :
          /\ s = [b.blocks EXCEPT ![Len(b.blocks)] = new] /\ s # <<>> /\ Len(s) = Len(b.blocks)
          /\ \A k \in 1..Len(s) : s[k] = IF k = Len(s) THEN new ELSE b.blocks[k]
    <3>1. LET r == [b.blocks EXCEPT ![Len(b.blocks)] = new]
          IN  /\ r \in Seq(Blocks) /\ r # <<>> /\ Len(r) = Len(b.blocks)
              /\ \A k \in 1..Len(b.blocks) : r[k] = IF k = Len(b.blocks) THEN new ELSE b.blocks[k]
      BY <2>1, LastReplaced
    <3> QED BY <3>1, Zenon
  <2>6. t = [b EXCEPT !.blocks = s, !.redraws = 0, !.running = FALSE, !.phase = "AtPrompt"]
    <3>1. t = [b EXCEPT !.blocks[Len(b.blocks)] = new, !.redraws = 0, !.running = FALSE, !.phase = "AtPrompt"]
      BY <1>2, <2>2, <2>3 DEF FinishCommand
    <3> QED BY <2>5, <3>1
  <2>7. t \in Builders
    <3>1. t = [phase |-> "AtPrompt", meta |-> b.meta, host |-> b.host, blocks |-> s, running |-> FALSE,
               alternate |-> b.alternate, redraws |-> 0, carry |-> b.carry]
      BY <1>0, <2>6, BuilderFields
    <3> QED BY <1>0, <3>1, BuilderFields DEF Builders, Phases
  <2>8. /\ t.meta = b.meta /\ ~t.running /\ t.carry = b.carry /\ t.alternate = b.alternate /\ t.blocks = s
    BY <1>0, <2>6, BuilderFields
  <2>9. new.named = last.named /\ new.exit = exit /\ new.output = last.output
    BY <2>3, BlockFields
  <2> QED BY <1>2, <2>2, <2>5, <2>7, <2>8, <2>9 DEF Settles, Ready
<1> QED BY <1>1, <1>2

ExitBy(kind) == IF kind = "CommandFinished" THEN "code" ELSE "unknown"

(* handle_signal.                                                            *)
Handles(b, t, kind) ==
  /\ Settles(b, t, kind \in EndsBlock, ExitBy(kind))
  /\ t.running <=> (kind = "CommandExecuted" \/ (b.running /\ kind \notin EndsBlock))
  /\ t.meta <=> (kind = "Meta" \/ (b.meta /\ kind # "CommandExecuted"))
  /\ Len(t.blocks) = Len(b.blocks) + IF kind = "CommandExecuted" THEN 1 ELSE 0
  /\ kind = "CommandExecuted" => /\ t.blocks[Len(b.blocks) + 1].named = b.meta
                                 /\ t.blocks[Len(b.blocks) + 1].exit = "running"
                                 /\ t.blocks[Len(b.blocks) + 1].output = <<>>

LEMMA PhaseOnly ==
  ASSUME NEW b, Ready(b), NEW p \in Phases
  PROVE  LET t == [b EXCEPT !.phase = p]
         IN  /\ Ready(t) /\ t.meta = b.meta /\ t.running = b.running /\ t.carry = b.carry
             /\ t.alternate = b.alternate /\ t.blocks = b.blocks
<1>1. [b EXCEPT !.phase = p] \in Builders
  BY DEF Ready, Builders
<1> QED BY <1>1, BuilderFields DEF Ready

LEMMA HandleIs ==
  ASSUME NEW b, Ready(b), NEW kind \in Kinds
  PROVE  Ready(HandleSignal(b, kind)) /\ Handles(b, HandleSignal(b, kind), kind)
<1> DEFINE t == HandleSignal(b, kind)
<1>0. b \in Builders /\ "AtPrompt" \in Phases /\ "unknown" \in Exits /\ "code" \in Exits
  BY DEF Ready, Phases, Exits
<1>f. b.meta \in BOOLEAN /\ b.running \in BOOLEAN /\ Len(b.blocks) \in Nat
  BY <1>0, BuilderFields
<1>1. CASE kind \in {"PromptStart", "CommandFinished"}
  <2>1. PICK e \in Exits : e = ExitBy(kind)
    BY <1>0 DEF ExitBy
  <2>2. PICK f : f = FinishCommand(b, e)
    OBVIOUS
  <2>3. /\ Ready(f) /\ ~f.running /\ f.meta = b.meta /\ Len(f.blocks) = Len(b.blocks)
        /\ Settles(b, f, TRUE, e)
    BY <2>2, FinishIs
  <2>4. t = [f EXCEPT !.phase = "AtPrompt"]
    BY <1>1, <2>1, <2>2 DEF HandleSignal, ExitBy
  <2>5. /\ Ready(t) /\ t.meta = f.meta /\ t.running = f.running /\ t.carry = f.carry
        /\ t.alternate = f.alternate /\ t.blocks = f.blocks
    BY <1>0, <2>3, <2>4, PhaseOnly
  <2>6. ~t.running /\ t.running \in BOOLEAN
    BY <2>3, <2>5, BuilderFields DEF Ready
  <2>7. kind \in EndsBlock /\ kind # "CommandExecuted" /\ kind # "Meta"
    BY <1>1 DEF EndsBlock
  <2>8. Settles(b, t, kind \in EndsBlock, ExitBy(kind))
    BY <2>1, <2>3, <2>5, <2>7 DEF Settles
  <2>9. Len(t.blocks) = Len(b.blocks) + 0 /\ (t.meta <=> b.meta)
    BY <1>f, <2>3, <2>5
  <2> QED BY <2>5, <2>6, <2>7, <2>8, <2>9 DEF Handles
<1>2. CASE kind \in {"PromptEnd", "CwdLocal", "CwdRemote", "Meta"}
  <2>1. /\ t \in Builders /\ t.running = b.running /\ t.carry = b.carry
        /\ t.alternate = b.alternate /\ t.blocks = b.blocks
        /\ t.meta = IF kind = "Meta" THEN TRUE ELSE b.meta
    <3>1. CASE kind = "PromptEnd"
      <4>1. t = [b EXCEPT !.phase = "AtPrompt"]
        BY <3>1 DEF HandleSignal
      <4>2. /\ Ready(t) /\ t.meta = b.meta /\ t.running = b.running /\ t.carry = b.carry
            /\ t.alternate = b.alternate /\ t.blocks = b.blocks
        BY <1>0, <4>1, PhaseOnly
      <4> QED BY <3>1, <4>2 DEF Ready
    <3>2. CASE kind = "CwdLocal"
      <4>1. t = [b EXCEPT !.phase = IF b.phase = "Unsynced" THEN "AtPrompt" ELSE b.phase]
        BY <3>2 DEF HandleSignal, Synced
      <4>2. (IF b.phase = "Unsynced" THEN "AtPrompt" ELSE b.phase) \in Phases
        BY <1>0, BuilderFields
      <4>3. /\ Ready(t) /\ t.meta = b.meta /\ t.running = b.running /\ t.carry = b.carry
            /\ t.alternate = b.alternate /\ t.blocks = b.blocks
        BY <4>1, <4>2, PhaseOnly
      <4> QED BY <3>2, <4>3 DEF Ready
    <3>3. CASE kind \in {"CwdRemote", "Meta"}
      <4>1. PICK c \in Builders : c = IF kind = "Meta" THEN [b EXCEPT !.meta = TRUE] ELSE [b EXCEPT !.host = "remote"]
        <5>1. [b EXCEPT !.meta = TRUE] \in Builders
          BY <1>0 DEF Builders
        <5>2. [b EXCEPT !.host = "remote"] \in Builders
          BY <1>0 DEF Builders, Hosts
        <5> QED BY <5>1, <5>2
      <4>2. /\ c.running = b.running /\ c.carry = b.carry /\ c.alternate = b.alternate /\ c.blocks = b.blocks
            /\ c.meta = IF kind = "Meta" THEN TRUE ELSE b.meta
        BY <1>0, <4>1, BuilderFields
      <4>3. Ready(c)
        BY <4>2 DEF Ready
      <4>4. t = Synced(c)
        BY <3>3, <4>1 DEF HandleSignal
      <4>5. t = [c EXCEPT !.phase = IF c.phase = "Unsynced" THEN "AtPrompt" ELSE c.phase]
        BY <4>4 DEF Synced
      <4>6. (IF c.phase = "Unsynced" THEN "AtPrompt" ELSE c.phase) \in Phases
        BY <1>0, BuilderFields
      <4>7. /\ Ready(t) /\ t.meta = c.meta /\ t.running = c.running /\ t.carry = c.carry
            /\ t.alternate = c.alternate /\ t.blocks = c.blocks
        BY <4>3, <4>5, <4>6, PhaseOnly
      <4> QED BY <4>2, <4>7 DEF Ready
    <3> QED BY <1>2, <3>1, <3>2, <3>3
  <2>2. kind \notin EndsBlock /\ kind # "CommandExecuted"
    BY <1>2 DEF EndsBlock
  <2>3. Settles(b, t, kind \in EndsBlock, ExitBy(kind))
    BY <2>1, <2>2 DEF Settles
  <2>4. Len(t.blocks) = Len(b.blocks) + 0 /\ (t.meta <=> kind = "Meta" \/ b.meta) /\ (t.running <=> b.running)
    BY <1>f, <2>1
  <2>5. Ready(t)
    BY <2>1 DEF Ready
  <2> QED BY <2>2, <2>3, <2>4, <2>5 DEF Handles
<1>3. CASE kind = "CommandExecuted"
  <2>1. PICK f : f = FinishCommand(b, "unknown")
    OBVIOUS
  <2>2. /\ Ready(f) /\ ~f.running /\ f.meta = b.meta /\ Len(f.blocks) = Len(b.blocks)
        /\ Settles(b, f, TRUE, "unknown")
    BY <1>0, <2>1, FinishIs
  <2>3. PICK new \in Blocks :
          new = [named |-> b.meta, host |-> b.host, exit |-> "running", output |-> <<>>, redraws |-> 0]
    <3>1. <<>> \in Seq(Int) /\ b.host \in Hosts
      BY <1>0, BuilderFields
    <3> QED BY <1>f, <3>1 DEF Blocks, Exits
  <2>4. t = [f EXCEPT !.blocks = Append(f.blocks, new), !.meta = FALSE, !.running = TRUE, !.phase = "Executing"]
    BY <1>3, <2>1, <2>3 DEF HandleSignal, StartCommand
  <2>5. f \in Builders /\ f.blocks \in Seq(Blocks)
    BY <2>2, BuilderFields DEF Ready
  <2>6. PICK s \in Seq(Blocks) :
          /\ s = Append(f.blocks, new) /\ Len(s) = Len(b.blocks) + 1 /\ s[Len(b.blocks) + 1] = new
          /\ \A k \in 1..Len(b.blocks) : s[k] = f.blocks[k]
    <3>1. PICK g \in Seq(Blocks) : g = f.blocks
      BY <2>5
    <3>2. /\ Append(g, new) \in Seq(Blocks) /\ Len(Append(g, new)) = Len(g) + 1
          /\ Append(g, new)[Len(g) + 1] = new /\ \A k \in 1..Len(g) : Append(g, new)[k] = g[k]
      OBVIOUS
    <3> QED BY <2>2, <3>1, <3>2, Zenon
  <2>7. s # <<>>
    BY <1>f, <2>6
  <2>8. t = [f EXCEPT !.blocks = s, !.meta = FALSE, !.running = TRUE, !.phase = "Executing"]
    BY <2>4, <2>6
  <2>9. t \in Builders
    BY <2>5, <2>8 DEF Builders, Phases
  <2>10. t.blocks = s /\ t.meta = FALSE /\ t.running = TRUE /\ t.carry = f.carry /\ t.alternate = f.alternate
    BY <2>5, <2>8, BuilderFields
  <2>11. Settles(b, t, TRUE, "unknown")
    BY <2>2, <2>6, <2>10 DEF Settles
  <2>12. new.named = b.meta /\ new.exit = "running" /\ new.output = <<>>
    BY <2>3
  <2> QED BY <1>3, <1>f, <2>6, <2>7, <2>9, <2>10, <2>11, <2>12 DEF Handles, ExitBy, EndsBlock, Ready
<1> QED BY <1>1, <1>2, <1>3 DEF Kinds

-----------------------------------------------------------------------------
(* The markers that start a command, among the first c.                      *)
Ord(m, c) == Chosen([i \in 1..c |-> i], Executes(m))

LEMMA OrdGrows ==
  ASSUME NEW m, NEW c \in Nat
  PROVE  /\ Ord(m, 0) = <<>>
         /\ Ord(m, c) \in Seq(1..c)
         /\ Ord(m, c + 1) = IF c + 1 \in Executes(m) THEN Append(Ord(m, c), c + 1) ELSE Ord(m, c)
<1>1. [i \in 1..0 |-> i] = <<>>
  OBVIOUS
<1>2. Ord(m, 0) = <<>>
  BY <1>1, ChosenEmpty DEF Ord
<1>3. PICK s \in Seq(1..c) : s = [i \in 1..c |-> i]
  <2>1. [i \in 1..c |-> i] \in Seq(1..c)
    OBVIOUS
  <2> QED BY <2>1, Zenon
<1>4. Chosen(s, Executes(m)) \in Seq(1..c)
  BY ChosenTyped
<1>5. PICK z \in Seq(1..(c + 1)) : z = s
  <2>1. [i \in 1..c |-> i] \in Seq(1..(c + 1))
    OBVIOUS
  <2> QED BY <1>3, <2>1, Zenon
<1>6. [i \in 1..(c + 1) |-> i] = Append(z, c + 1) /\ Len(z) = c
  BY <1>3, <1>5
<1>7. Chosen(Append(z, c + 1), Executes(m)) =
        IF Len(z) + 1 \in Executes(m) THEN Append(Chosen(z, Executes(m)), c + 1) ELSE Chosen(z, Executes(m))
  <2>1. c + 1 \in 1..(c + 1)
    OBVIOUS
  <2>2. PICK A : A = Executes(m) /\ \A i \in 1..Len(z) : i \in A <=> i \in A
    OBVIOUS
  <2>3. Chosen(Append(z, c + 1), A) = IF Len(z) + 1 \in A THEN Append(Chosen(z, A), c + 1) ELSE Chosen(z, A)
    <3>1. PICK S : S = 1..(c + 1)
      OBVIOUS
    <3>2. PICK x \in S : x = c + 1
      BY <2>1, <3>1
    <3>3. z \in Seq(S)
      BY <3>1
    <3>4. Chosen(Append(z, x), A) = IF Len(z) + 1 \in A THEN Append(Chosen(z, A), x) ELSE Chosen(z, A)
      BY <2>2, <3>3, ChosenGrows
    <3> QED BY <3>2, <3>4
  <2> QED BY <2>2, <2>3
<1> QED BY <1>2, <1>3, <1>4, <1>5, <1>6, <1>7 DEF Ord

(* The first of them stay the first.                                         *)
LEMMA OrdExtends ==
  ASSUME NEW m, NEW c \in Nat
  PROVE  \A k \in Nat : /\ Len(Ord(m, c)) <= Len(Ord(m, c + k))
                        /\ \A i \in 1..Len(Ord(m, c)) : Ord(m, c + k)[i] = Ord(m, c)[i]
                        /\ \A i \in (Len(Ord(m, c)) + 1)..Len(Ord(m, c + k)) : Ord(m, c + k)[i] > c
<1>1. PICK s \in Seq(1..c) : s = Ord(m, c)
  BY OrdGrows
<1> DEFINE Good(t) == /\ Len(s) <= Len(t) /\ \A i \in 1..Len(s) : t[i] = s[i]
                      /\ \A i \in (Len(s) + 1)..Len(t) : t[i] > c
           P == {k \in Nat : Good(Ord(m, c + k))}
<1>2. 0 \in P
  <2>1. c + 0 = c
    OBVIOUS
  <2>2. Good(s)
    OBVIOUS
  <2> QED BY <1>1, <2>1, <2>2
<1>3. ASSUME NEW k \in P PROVE k + 1 \in P
  <2>1. k \in Nat /\ c + k \in Nat /\ c + (k + 1) = (c + k) + 1
    OBVIOUS
  <2>2. PICK t \in Seq(1..(c + k)) : t = Ord(m, c + k)
    BY <2>1, OrdGrows
  <2>3. PICK u : u = Ord(m, c + (k + 1))
    OBVIOUS
  <2>4. u = t \/ u = Append(t, c + k + 1)
    BY <2>1, <2>2, <2>3, OrdGrows
  <2>5. Good(t)
    BY <2>2
  <2>6. ASSUME u = Append(t, c + k + 1) PROVE Good(u)
    <3>1. Len(u) = Len(t) + 1 /\ Len(t) \in Nat /\ \A i \in 1..Len(t) : u[i] = t[i]
      BY <2>6
    <3>2. \A i \in 1..Len(s) : i \in 1..Len(t)
      BY <2>5, <3>1
    <3>3. u[Len(t) + 1] > c
      <4>1. u[Len(t) + 1] = c + k + 1
        BY <2>6
      <4> QED BY <2>1, <4>1
    <3>4. \A i \in (Len(s) + 1)..Len(u) : i = Len(t) + 1 \/ (i \in 1..Len(t) /\ i \in (Len(s) + 1)..Len(t))
      BY <3>1
    <3>5. \A i \in (Len(s) + 1)..Len(u) : u[i] > c
      BY <2>5, <3>1, <3>3, <3>4
    <3> QED BY <2>5, <3>1, <3>2, <3>5
  <2>7. Good(u)
    BY <2>4, <2>5, <2>6
  <2> QED BY <2>1, <2>3, <2>7
<1>4. P \in SUBSET Nat
  OBVIOUS
<1> HIDE DEF P
<1>5. P = Nat
  BY <1>2, <1>3, <1>4, Induction
<1> QED BY <1>1, <1>5 DEF P

-----------------------------------------------------------------------------
(* The Blocks, when c of the markers m are handled.                          *)
Open(b, k) == b.running /\ k = Len(b.blocks)

(* One Block for each command they start, named or not, and each of them but  *)
(* an open last one ended by the first marker that ends it.                  *)
Control(b, m, c) ==
  /\ Len(b.blocks) = Len(Ord(m, c))
  /\ b.meta <=> Named(m, c + 1)
  /\ \A k \in 1..Len(b.blocks) :
       /\ b.blocks[k].named <=> Named(m, Ord(m, c)[k])
       /\ Open(b, k) => \A e \in Enders(m, Ord(m, c)[k]) : e > c
       /\ ~Open(b, k) => /\ b.blocks[k].exit = ExitOf(m, Ord(m, c)[k])
                         /\ \E e \in Enders(m, Ord(m, c)[k]) : e <= c

(* t is b, in all that Control speaks of, with y captured if b captures.     *)
Takes(b, t, y) ==
  /\ t.meta = b.meta /\ t.running = b.running /\ t.alternate = b.alternate
  /\ Len(t.blocks) = Len(b.blocks)
  /\ \A k \in 1..Len(b.blocks) :
       /\ t.blocks[k].named = b.blocks[k].named /\ t.blocks[k].exit = b.blocks[k].exit
       /\ t.blocks[k].output = IF Open(b, k) /\ ~b.alternate
                                 THEN b.blocks[k].output \o y ELSE b.blocks[k].output

LEMMA ControlTakes ==
  ASSUME NEW m, NEW c, NEW b, NEW t, NEW y, Control(b, m, c), Takes(b, t, y)
  PROVE  Control(t, m, c)
BY DEF Control, Takes, Open

LEMMA NamedNext ==
  ASSUME NEW m \in Seq(Hits), NEW c \in Nat, c < Len(m)
  PROVE  Named(m, (c + 1) + 1) <=> \/ Kind(m, c + 1) = "Meta"
                                   \/ Named(m, c + 1) /\ Kind(m, c + 1) # "CommandExecuted"
<1>1. /\ c + 1 \in 1..Len(m) /\ DOMAIN m = 1..Len(m) /\ (c + 1) - 1 = c /\ ((c + 1) + 1) - 1 = c + 1
      /\ Len(m) \in Nat
  OBVIOUS
<1>2. \A e \in Executes(m) : e \in Nat /\ Kind(m, e) = "CommandExecuted"
  BY <1>1 DEF Executes
<1>3. c + 1 \in Executes(m) <=> Kind(m, c + 1) = "CommandExecuted"
  BY <1>1 DEF Executes
<1>4. ASSUME Kind(m, c + 1) = "Meta" PROVE Named(m, (c + 1) + 1)
  <2>1. \A e \in Executes(m) : e < c + 1 \/ e >= (c + 1) + 1
    BY <1>2, <1>3, <1>4
  <2>2. c + 1 \in 1..(((c + 1) + 1) - 1)
    OBVIOUS
  <2> QED BY <1>4, <2>1, <2>2, Zenon DEF Named
<1>5. ASSUME Named(m, c + 1), Kind(m, c + 1) # "CommandExecuted" PROVE Named(m, (c + 1) + 1)
  <2>1. PICK j \in 1..c : Kind(m, j) = "Meta" /\ \A e \in Executes(m) : e < j \/ e >= c + 1
    BY <1>1, <1>5 DEF Named
  <2>2. \A e \in Executes(m) : e < j \/ e >= (c + 1) + 1
    BY <1>2, <1>3, <1>5, <2>1
  <2>3. j \in 1..(((c + 1) + 1) - 1)
    OBVIOUS
  <2> QED BY <2>1, <2>2, <2>3, Zenon DEF Named
<1>6. ASSUME Named(m, (c + 1) + 1), Kind(m, c + 1) # "Meta"
      PROVE  Named(m, c + 1) /\ Kind(m, c + 1) # "CommandExecuted"
  <2>1. PICK j \in 1..(c + 1) : Kind(m, j) = "Meta" /\ \A e \in Executes(m) : e < j \/ e >= (c + 1) + 1
    BY <1>1, <1>6 DEF Named
  <2>2. j \in 1..((c + 1) - 1)
    BY <1>6, <2>1
  <2>3. c + 1 \notin Executes(m)
    BY <2>1, <2>2
  <2>4. \A e \in Executes(m) : e < j \/ e >= c + 1
    BY <1>2, <2>1
  <2>5. Named(m, c + 1)
    BY <2>1, <2>2, <2>4, Zenon DEF Named
  <2> QED BY <1>3, <2>3, <2>5
<1> QED BY <1>4, <1>5, <1>6

(* The first marker that ends a command's Block.                             *)
LEMMA FirstEnder ==
  ASSUME NEW m \in Seq(Hits), NEW i \in Nat, NEW c \in Nat, i <= c, c < Len(m),
         Kind(m, c + 1) \in EndsBlock, \A e \in Enders(m, i) : e > c
  PROVE  c + 1 \in Enders(m, i) /\ Min(Enders(m, i)) = c + 1
<1>1. c + 1 \in Enders(m, i)
  BY DEF Enders
<1>2. Enders(m, i) \in SUBSET Nat
  BY DEF Enders
<1>3. Min(Enders(m, i)) \in Enders(m, i) /\ \A e \in Enders(m, i) : Min(Enders(m, i)) <= e
  BY <1>1, <1>2, MinIs
<1>4. Min(Enders(m, i)) \in Nat /\ Min(Enders(m, i)) > c /\ Min(Enders(m, i)) <= c + 1
  BY <1>1, <1>2, <1>3
<1> QED BY <1>1, <1>4

LEMMA ControlHandles ==
  ASSUME NEW m \in Seq(Hits), NEW c \in Nat, c < Len(m), NEW b, NEW t, Ready(b), Ready(t),
         Control(b, m, c), Kind(m, c + 1) \in Kinds, Handles(b, t, Kind(m, c + 1))
  PROVE  /\ Control(t, m, c + 1)
         /\ \A k \in 1..Len(b.blocks) :
              /\ Ord(m, c + 1)[k] = Ord(m, c)[k] /\ Ord(m, c)[k] \in 1..c
              /\ ~Open(t, k)
                 => \/ ~Open(b, k)
                    \/ Min(Enders(m, Ord(m, c)[k])) = c + 1
              /\ Open(t, k) => Open(b, k)
<1> DEFINE kind == Kind(m, c + 1)
<1>0. /\ b \in Builders /\ t \in Builders /\ Len(b.blocks) \in Nat /\ Len(t.blocks) \in Nat
      /\ (b.running \in BOOLEAN) /\ (t.running \in BOOLEAN) /\ (b.meta \in BOOLEAN)
  BY BuilderFields DEF Ready
<1>1. PICK o \in Seq(1..c) : o = Ord(m, c) /\ Len(o) = Len(b.blocks)
  BY OrdGrows DEF Control
<1>2. c + 1 \in Executes(m) <=> kind = "CommandExecuted"
  BY DEF Executes
<1>3. PICK o2 : o2 = Ord(m, c + 1)
  OBVIOUS
<1>4. /\ Len(o2) = Len(t.blocks) /\ \A k \in 1..Len(o) : o2[k] = o[k]
      /\ kind = "CommandExecuted" => o2[Len(o) + 1] = c + 1
  <2>1. o2 = IF kind = "CommandExecuted" THEN Append(o, c + 1) ELSE o
    BY <1>1, <1>2, <1>3, OrdGrows
  <2>2. Len(t.blocks) = Len(o) + IF kind = "CommandExecuted" THEN 1 ELSE 0
    BY <1>1 DEF Handles
  <2> QED BY <2>1, <2>2
<1>5. t.meta <=> Named(m, (c + 1) + 1)
  <2>1. b.meta <=> Named(m, c + 1)
    BY DEF Control
  <2>2. t.meta <=> (kind = "Meta" \/ (b.meta /\ kind # "CommandExecuted"))
    BY DEF Handles
  <2> QED BY <2>1, <2>2, NamedNext
<1>6. t.running <=> (kind = "CommandExecuted" \/ (b.running /\ kind \notin EndsBlock))
  BY DEF Handles
<1>7. Len(t.blocks) = Len(b.blocks) + IF kind = "CommandExecuted" THEN 1 ELSE 0
  BY DEF Handles
<1>8. "CommandExecuted" \in EndsBlock
  BY DEF EndsBlock
<1>9. ASSUME NEW k \in 1..Len(b.blocks)
      PROVE  /\ t.blocks[k].named = b.blocks[k].named
             /\ t.blocks[k].exit = IF kind \in EndsBlock /\ b.running /\ k = Len(b.blocks)
                                     THEN ExitBy(kind) ELSE b.blocks[k].exit
             /\ b.blocks[k].named <=> Named(m, o[k])
             /\ Open(b, k) => \A e \in Enders(m, o[k]) : e > c
             /\ ~Open(b, k) => b.blocks[k].exit = ExitOf(m, o[k]) /\ \E e \in Enders(m, o[k]) : e <= c
             /\ o[k] \in 1..c /\ o2[k] = o[k]
  <2>1. k \in 1..Len(o) /\ o[k] \in 1..c /\ o2[k] = o[k]
    BY <1>1, <1>4
  <2>2. /\ t.blocks[k].named = b.blocks[k].named
        /\ t.blocks[k].exit = IF kind \in EndsBlock /\ b.running /\ k = Len(b.blocks)
                                THEN ExitBy(kind) ELSE b.blocks[k].exit
    BY DEF Handles, Settles
  <2>3. /\ b.blocks[k].named <=> Named(m, o[k])
        /\ Open(b, k) => \A e \in Enders(m, o[k]) : e > c
        /\ ~Open(b, k) => b.blocks[k].exit = ExitOf(m, o[k]) /\ \E e \in Enders(m, o[k]) : e <= c
    BY <1>1 DEF Control
  <2> QED BY <2>1, <2>2, <2>3
<1>10. ASSUME NEW k \in 1..Len(b.blocks) PROVE Open(t, k) <=> (Open(b, k) /\ kind \notin EndsBlock)
  <2>1. CASE kind = "CommandExecuted"
    <3>1. Len(t.blocks) = Len(b.blocks) + 1
      BY <1>7, <2>1
    <3> QED BY <1>0, <1>8, <2>1, <3>1 DEF Open
  <2>2. CASE kind # "CommandExecuted"
    <3>1. Len(t.blocks) = Len(b.blocks) /\ (t.running <=> b.running /\ kind \notin EndsBlock)
      BY <1>0, <1>6, <1>7, <2>2
    <3> QED BY <3>1 DEF Open
  <2> QED BY <2>1, <2>2
<1>11. ASSUME NEW i \in Nat PROVE \A e \in Enders(m, i) : e \in Nat /\ Kind(m, e) \in EndsBlock
  BY DEF Enders
<1>12. ASSUME NEW k \in 1..Len(b.blocks)
       PROVE  /\ t.blocks[k].named <=> Named(m, o2[k])
              /\ Open(t, k) => \A e \in Enders(m, o2[k]) : e > c + 1
              /\ ~Open(t, k) => /\ t.blocks[k].exit = ExitOf(m, o2[k])
                                /\ \E e \in Enders(m, o2[k]) : e <= c + 1
              /\ ~Open(t, k) => ~Open(b, k) \/ Min(Enders(m, o[k])) = c + 1
              /\ Open(t, k) => Open(b, k)
  <2>1. t.blocks[k].named <=> Named(m, o2[k])
    BY <1>9, Zenon
  <2>2. CASE ~Open(b, k)
    <3>1. ~Open(t, k)
      BY <1>10, <2>2
    <3>2. t.blocks[k].exit = b.blocks[k].exit
      BY <1>9, <2>2 DEF Open
    <3>3. \E e \in Enders(m, o[k]) : e <= c + 1
      <4>1. PICK e \in Enders(m, o[k]) : e <= c
        BY <1>9, <2>2
      <4>2. e <= c + 1
        BY <1>9, <1>11, <4>1
      <4> QED BY <4>2
    <3> QED BY <1>9, <2>1, <2>2, <3>1, <3>2, <3>3, Zenon
  <2>3. CASE Open(b, k) /\ kind \notin EndsBlock
    <3>1. Open(t, k)
      BY <1>10, <2>3
    <3>2. \A e \in Enders(m, o[k]) : e > c + 1
      <4>1. o[k] \in Nat /\ \A e \in Enders(m, o[k]) : e > c
        BY <1>9, <2>3
      <4>2. \A e \in Enders(m, o[k]) : e \in Nat /\ e # c + 1
        BY <1>11, <2>3, <4>1
      <4> QED BY <4>1, <4>2
    <3> QED BY <1>9, <2>1, <2>3, <3>1, <3>2, Zenon
  <2>4. CASE Open(b, k) /\ kind \in EndsBlock
    <3>1. ~Open(t, k)
      BY <1>10, <2>4
    <3>2. c + 1 \in Enders(m, o[k]) /\ Min(Enders(m, o[k])) = c + 1
      <4>1. o[k] \in Nat /\ o[k] <= c /\ \A e \in Enders(m, o[k]) : e > c
        BY <1>9, <2>4
      <4> QED BY <2>4, <4>1, FirstEnder
    <3>3. t.blocks[k].exit = ExitOf(m, o[k])
      <4>1. t.blocks[k].exit = ExitBy(kind)
        BY <1>9, <2>4 DEF Open
      <4> QED BY <3>2, <4>1 DEF ExitOf, ExitBy
    <3>4. \E e \in Enders(m, o[k]) : e <= c + 1
      BY <3>2
    <3> QED BY <1>9, <2>1, <2>4, <3>1, <3>2, <3>3, <3>4, Zenon
  <2> QED BY <2>2, <2>3, <2>4
<1>13. ASSUME kind = "CommandExecuted"
       PROVE  LET k == Len(b.blocks) + 1
              IN  /\ t.blocks[k].named <=> Named(m, o2[k])
                  /\ Open(t, k) /\ \A e \in Enders(m, o2[k]) : e > c + 1
  <2>1. o2[Len(b.blocks) + 1] = c + 1
    BY <1>1, <1>4, <1>13
  <2>2. t.blocks[Len(b.blocks) + 1].named = b.meta
    BY <1>13 DEF Handles
  <2>3. b.meta <=> Named(m, c + 1)
    BY DEF Control
  <2>4. Open(t, Len(b.blocks) + 1)
    BY <1>6, <1>7, <1>13 DEF Open
  <2>5. \A e \in Enders(m, c + 1) : e > c + 1
    BY DEF Enders
  <2> QED BY <2>1, <2>2, <2>3, <2>4, <2>5
<1>14. \A k \in 1..Len(t.blocks) :
         k \in 1..Len(b.blocks) \/ (kind = "CommandExecuted" /\ k = Len(b.blocks) + 1)
  <2>1. CASE kind = "CommandExecuted"
    <3>1. Len(t.blocks) = Len(b.blocks) + 1
      BY <1>7, <2>1
    <3> QED BY <1>0, <2>1, <3>1
  <2>2. CASE kind # "CommandExecuted"
    <3>1. Len(t.blocks) = Len(b.blocks)
      BY <1>0, <1>7, <2>2
    <3> QED BY <3>1
  <2> QED BY <2>1, <2>2
<1>15. Control(t, m, c + 1)
  BY <1>3, <1>4, <1>5, <1>12, <1>13, <1>14, Zenon DEF Control
<1> QED BY <1>1, <1>3, <1>9, <1>12, <1>15

-----------------------------------------------------------------------------
(* What the Blocks hold, as sets of positions and in order.                  *)
Rising(s) == \A i, j \in 1..Len(s) : i < j => s[i] < s[j]

Cap(b, k) == ToSet(b.blocks[k].output)
Car(b) == ToSet(b.carry)

LEMMA ToSetIs ==
  ASSUME NEW s \in Seq(Int)
  PROVE  /\ ToSet(s) \subseteq Int
         /\ \A i \in 1..Len(s) : s[i] \in ToSet(s)
         /\ \A p \in ToSet(s) : \E i \in 1..Len(s) : s[i] = p
  BY DEF ToSet

LEMMA NothingInEmpty == ToSet(<<>>) = {} /\ Rising(<<>>)
  BY DEF ToSet, Rising

LEMMA RisingConcat ==
  ASSUME NEW s \in Seq(Int), NEW t \in Seq(Int)
  PROVE  /\ ToSet(s \o t) = ToSet(s) \cup ToSet(t)
         /\ Rising(s) /\ Rising(t) /\ (\A p \in ToSet(s) : \A q \in ToSet(t) : p < q)
            => Rising(s \o t)
<1>1. PICK u \in Seq(Int) : u = s \o t
  BY ConcatProperties
<1>2. /\ Len(u) = Len(s) + Len(t) /\ Len(s) \in Nat /\ Len(t) \in Nat
      /\ \A i \in 1..Len(u) : u[i] = IF i <= Len(s) THEN s[i] ELSE t[i - Len(s)]
  BY <1>1, ConcatProperties
<1>3. \A i \in 1..Len(u) : IF i <= Len(s) THEN i \in 1..Len(s) ELSE i - Len(s) \in 1..Len(t)
  BY <1>2
<1>4. ToSet(u) \subseteq ToSet(s) \cup ToSet(t)
  <2> SUFFICES ASSUME NEW p \in ToSet(u) PROVE p \in ToSet(s) \/ p \in ToSet(t)
    OBVIOUS
  <2>1. PICK i \in 1..Len(u) : u[i] = p
    BY ToSetIs
  <2>2. CASE i <= Len(s)
    <3>1. i \in 1..Len(s) /\ s[i] = p
      BY <1>2, <1>3, <2>1, <2>2
    <3> QED BY <3>1, ToSetIs
  <2>3. CASE ~(i <= Len(s))
    <3>1. i - Len(s) \in 1..Len(t) /\ t[i - Len(s)] = p
      BY <1>2, <1>3, <2>1, <2>3
    <3> QED BY <3>1, ToSetIs
  <2> QED BY <2>2, <2>3
<1>5. ToSet(s) \subseteq ToSet(u)
  <2> SUFFICES ASSUME NEW p \in ToSet(s) PROVE p \in ToSet(u)
    OBVIOUS
  <2>1. PICK i \in 1..Len(s) : s[i] = p
    BY ToSetIs
  <2>2. i \in 1..Len(u) /\ u[i] = p
    BY <1>2, <2>1
  <2> QED BY <2>2, ToSetIs
<1>6. ToSet(t) \subseteq ToSet(u)
  <2> SUFFICES ASSUME NEW p \in ToSet(t) PROVE p \in ToSet(u)
    OBVIOUS
  <2>1. PICK i \in 1..Len(t) : t[i] = p
    BY ToSetIs
  <2>a. Len(s) \in Nat /\ Len(t) \in Nat /\ Len(u) = Len(s) + Len(t)
    BY <1>2
  <2>b. Len(s) + i \in 1..Len(u)
    BY <2>a
  <2>2. PICK j \in 1..Len(u) : j = Len(s) + i
    BY <2>b
  <2>3. ~(j <= Len(s)) /\ j - Len(s) = i
    BY <1>2, <2>2
  <2>4. u[j] = t[j - Len(s)]
    BY <1>2, <2>3
  <2>5. u[j] = p
    BY <2>1, <2>3, <2>4
  <2> QED BY <2>5, ToSetIs
<1>7. ASSUME Rising(s), Rising(t), \A p \in ToSet(s) : \A q \in ToSet(t) : p < q PROVE Rising(u)
  <2> SUFFICES ASSUME NEW i \in 1..Len(u), NEW j \in 1..Len(u), i < j PROVE u[i] < u[j]
    BY DEF Rising
  <2>1. CASE j <= Len(s)
    <3>1. i <= Len(s)
      BY <1>2, <2>1
    <3>2. i \in 1..Len(s) /\ j \in 1..Len(s) /\ u[i] = s[i] /\ u[j] = s[j]
      BY <1>2, <1>3, <2>1, <3>1
    <3> QED BY <1>7, <3>2 DEF Rising
  <2>2. CASE i <= Len(s) /\ ~(j <= Len(s))
    <3>1. u[i] \in ToSet(s) /\ u[j] \in ToSet(t)
      BY <1>2, <1>3, <2>2, ToSetIs
    <3> QED BY <1>7, <3>1
  <2>3. CASE ~(i <= Len(s))
    <3>1. i - Len(s) \in 1..Len(t) /\ j - Len(s) \in 1..Len(t) /\ i - Len(s) < j - Len(s)
      BY <1>2, <1>3, <2>3
    <3>2. u[i] = t[i - Len(s)] /\ u[j] = t[j - Len(s)]
      BY <1>2, <2>3
    <3> QED BY <1>7, <3>1, <3>2 DEF Rising
  <2> QED BY <2>1, <2>2, <2>3
<1> QED BY <1>1, <1>4, <1>5, <1>6, <1>7

LEMMA SliceIs ==
  ASSUME flushed \in Nat, NEW from \in Nat, NEW to \in Int
  PROVE  /\ Slice(from, to) \in Seq(Int) /\ Rising(Slice(from, to))
         /\ \A p : p \in ToSet(Slice(from, to)) <=> p \in (flushed + from + 1)..(flushed + to)
<1>0. (IF to > from THEN to - from ELSE 0) \in Nat
  OBVIOUS
<1>1. PICK n \in Nat : n = IF to > from THEN to - from ELSE 0
  BY <1>0
<1>2. 1..(to - from) = 1..n
  BY <1>1
<1>3. PICK s : s = Slice(from, to) /\ s = [i \in 1..n |-> flushed + from + i]
  BY <1>2 DEF Slice
<1>4. s \in Seq(Int) /\ Len(s) = n /\ \A i \in 1..n : s[i] = flushed + from + i
  BY <1>3
<1>5. Rising(s)
  BY <1>4 DEF Rising
<1>6. ASSUME NEW p \in ToSet(s) PROVE p \in (flushed + from + 1)..(flushed + to)
  <2>1. PICK i \in 1..Len(s) : s[i] = p
    BY <1>4, ToSetIs
  <2>2. i \in 1..n /\ p = flushed + from + i
    BY <1>4, <2>1
  <2>3. to > from /\ n = to - from
    BY <1>1, <2>2
  <2> QED BY <2>2, <2>3
<1>7. ASSUME NEW p \in (flushed + from + 1)..(flushed + to) PROVE p \in ToSet(s)
  <2>1. PICK i \in 1..n : i = p - (flushed + from)
    BY <1>1
  <2>2. s[i] = p
    BY <1>4, <2>1
  <2> QED BY <1>4, <2>2, ToSetIs
<1> QED BY <1>3, <1>4, <1>5, <1>6, <1>7

-----------------------------------------------------------------------------
(* Where the markers of a stream lie.                                        *)
WellPlaced(m) ==
  \A i \in 1..Len(m) : /\ m[i].start \in Nat /\ m[i].end \in Nat /\ m[i].start < m[i].end
                       /\ \A j \in 1..(i - 1) : m[j].end <= m[i].start

(* p lies before every later marker, and after each of the first h.           *)
Clear(m, h, p) == \A j \in (h + 1)..Len(m) : p <= m[j].start
Past(m, h, p) == \A i \in 1..h : m[i].end < p

(* What was captured and what is carried, when the first h of the markers m  *)
(* are handled and the positions up to edge are settled; a position in X may *)
(* belong to a later marker.                                                 *)
Kept(b, m, h, edge, X) ==
  /\ \A i \in 1..h : m[i].end <= edge
  /\ Rising(b.carry) /\ \A p \in Car(b) : p <= edge /\ Past(m, h, p)
  /\ \A k \in 1..Len(b.blocks) :
       /\ Rising(b.blocks[k].output)
       /\ \A p \in Cap(b, k) :
            /\ p <= edge /\ \A q \in Car(b) : p < q
            /\ \A k2 \in (k + 1)..Len(b.blocks) : \A q \in Cap(b, k2) : p < q
            /\ m[Ord(m, h)[k]].end < p
            /\ Open(b, k) => p \in X \/ Clear(m, h, p)
            /\ ~Open(b, k) => p \in X \/ p <= m[Min(Enders(m, Ord(m, h)[k]))].start

LEMMA OutputTyped ==
  ASSUME NEW b, Ready(b)
  PROVE  /\ Len(b.blocks) \in Nat /\ b.carry \in Seq(Int) /\ Car(b) \subseteq Int
         /\ \A k \in 1..Len(b.blocks) : b.blocks[k].output \in Seq(Int) /\ Cap(b, k) \subseteq Int
<1>1. b \in Builders
  BY DEF Ready
<1>2. b.carry \in Seq(Int) /\ Len(b.blocks) \in Nat
  BY <1>1, BuilderFields
<1>3. ASSUME NEW k \in 1..Len(b.blocks) PROVE b.blocks[k].output \in Seq(Int)
  <2>1. b.blocks[k] \in Blocks
    BY <1>1, BuilderFields
  <2> QED BY <2>1, BlockFields
<1> QED BY <1>2, <1>3, ToSetIs DEF Car, Cap

(* Capturing more.                                                           *)
LEMMA CapTakes ==
  ASSUME NEW b, Ready(b), NEW t, NEW y \in Seq(Int), Takes(b, t, y), NEW k \in 1..Len(b.blocks)
  PROVE  Cap(t, k) = IF Open(b, k) /\ ~b.alternate THEN Cap(b, k) \cup ToSet(y) ELSE Cap(b, k)
<1>1. b.blocks[k].output \in Seq(Int)
  BY OutputTyped
<1> QED BY <1>1, RisingConcat DEF Takes, Cap

LEMMA KeptTakes ==
  ASSUME NEW b, Ready(b), NEW t, Ready(t), NEW y \in Seq(Int), Takes(b, t, y), Rising(y),
         NEW m \in Seq(Hits), NEW h \in Nat, h <= Len(m), WellPlaced(m),
         NEW X, NEW edge \in Int, NEW edge2 \in Int, edge <= edge2,
         Kept(b, m, h, edge, X), Len(b.blocks) = Len(Ord(m, h)),
         \A p \in ToSet(y) : /\ p <= edge2 /\ Past(m, h, p) /\ (p \in X \/ Clear(m, h, p))
                             /\ \A k \in 1..Len(b.blocks) : \A q \in Cap(b, k) : q < p,
         Rising(t.carry),
         \A p \in Car(t) : /\ p <= edge2 /\ Past(m, h, p) /\ \A q \in ToSet(y) : q < p
                           /\ \A k \in 1..Len(b.blocks) : \A q \in Cap(b, k) : q < p
  PROVE  Kept(t, m, h, edge2, X)
<1>1. /\ Len(t.blocks) = Len(b.blocks) /\ Len(b.blocks) \in Nat
      /\ \A k : Open(t, k) <=> Open(b, k)
  BY OutputTyped DEF Takes, Open
<1>2. \A i \in 1..h : m[i].end <= edge2
  <2>1. \A i \in 1..h : m[i].end \in Nat /\ m[i].end <= edge
    BY DEF WellPlaced, Kept
  <2> QED BY <2>1
<1>3. \A k \in 1..Len(b.blocks) : \A p \in Cap(t, k) : p \in Cap(b, k) \/ (Open(b, k) /\ p \in ToSet(y))
  BY CapTakes
<1>4. ToSet(y) \subseteq Int /\ \A k \in 1..Len(b.blocks) : Cap(b, k) \subseteq Int
  BY OutputTyped, ToSetIs
<1>5. \A k \in 1..Len(b.blocks) : Ord(m, h)[k] \in 1..h
  <2>1. PICK o \in Seq(1..h) : o = Ord(m, h)
    BY OrdGrows
  <2> QED BY <2>1
<1>6. ASSUME NEW k \in 1..Len(b.blocks) PROVE Rising(t.blocks[k].output)
  <2>1. Rising(b.blocks[k].output) /\ b.blocks[k].output \in Seq(Int)
    BY OutputTyped DEF Kept
  <2>2. \A p \in ToSet(b.blocks[k].output) : \A q \in ToSet(y) : p < q
    BY DEF Cap
  <2>3. Rising(b.blocks[k].output \o y)
    BY <2>1, <2>2, RisingConcat
  <2> QED BY <2>1, <2>3 DEF Takes
<1>7. ASSUME NEW k \in 1..Len(b.blocks), NEW p \in Cap(t, k)
      PROVE  /\ p <= edge2 /\ \A q \in Car(t) : p < q
             /\ \A k2 \in (k + 1)..Len(t.blocks) : \A q \in Cap(t, k2) : p < q
             /\ m[Ord(m, h)[k]].end < p
             /\ Open(t, k) => p \in X \/ Clear(m, h, p)
             /\ ~Open(t, k) => p \in X \/ p <= m[Min(Enders(m, Ord(m, h)[k]))].start
  <2>1. CASE p \in Cap(b, k)
    <3>1. /\ p <= edge
          /\ \A k2 \in (k + 1)..Len(b.blocks) : \A q \in Cap(b, k2) : p < q
          /\ m[Ord(m, h)[k]].end < p
          /\ Open(b, k) => p \in X \/ Clear(m, h, p)
          /\ ~Open(b, k) => p \in X \/ p <= m[Min(Enders(m, Ord(m, h)[k]))].start
      BY <2>1 DEF Kept
    <3>2. p \in Int
      BY <1>4, <2>1
    <3>3. p <= edge2
      BY <3>1, <3>2
    <3>4. \A q \in Car(t) : p < q
      BY <2>1
    <3>5. ASSUME NEW k2 \in (k + 1)..Len(t.blocks), NEW q \in Cap(t, k2) PROVE p < q
      <4>1. k2 \in 1..Len(b.blocks) /\ k2 \in (k + 1)..Len(b.blocks)
        BY <1>1
      <4>2. CASE q \in Cap(b, k2)
        BY <3>1, <4>1, <4>2
      <4>3. CASE q \in ToSet(y)
        BY <2>1, <4>3
      <4> QED BY <1>3, <4>1, <4>2, <4>3
    <3> QED BY <1>1, <3>1, <3>3, <3>4, <3>5
  <2>2. CASE Open(b, k) /\ p \in ToSet(y)
    <3>1. k = Len(b.blocks)
      BY <2>2 DEF Open
    <3>2. (k + 1)..Len(t.blocks) = {}
      BY <1>1, <3>1
    <3>3. m[Ord(m, h)[k]].end < p
      BY <1>5, <2>2 DEF Past
    <3> QED BY <1>1, <2>2, <3>2, <3>3
  <2> QED BY <1>3, <2>1, <2>2
<1>8. Rising(t.carry) /\ \A p \in Car(t) : p <= edge2 /\ Past(m, h, p)
  OBVIOUS
<1> QED BY <1>1, <1>2, <1>6, <1>7, <1>8, Zenon DEF Kept

(* Handling the next marker.                                                 *)
LEMMA KeptHandles ==
  ASSUME NEW b, Ready(b), NEW t, Ready(t), NEW m \in Seq(Hits), NEW h \in Nat, h < Len(m), WellPlaced(m),
         Control(b, m, h), Kind(m, h + 1) \in Kinds, Handles(b, t, Kind(m, h + 1)), b.carry = <<>>,
         NEW X, NEW edge \in Int, edge <= m[h + 1].end, Kept(b, m, h, edge, X)
  PROVE  Kept(t, m, h + 1, m[h + 1].end, X)
<1>1. /\ Len(b.blocks) \in Nat /\ Len(t.blocks) \in Nat
      /\ Len(t.blocks) = Len(b.blocks) + IF Kind(m, h + 1) = "CommandExecuted" THEN 1 ELSE 0
      /\ \A k \in 1..Len(b.blocks) : Cap(b, k) \subseteq Int
  BY OutputTyped DEF Handles
<1>2. \A k \in 1..Len(b.blocks) :
        /\ Ord(m, h + 1)[k] = Ord(m, h)[k]
        /\ ~Open(t, k) => ~Open(b, k) \/ Min(Enders(m, Ord(m, h)[k])) = h + 1
        /\ Open(t, k) => Open(b, k)
  BY ControlHandles
<1>3. \A k \in 1..Len(b.blocks) : t.blocks[k].output = b.blocks[k].output /\ Cap(t, k) = Cap(b, k)
  BY DEF Handles, Settles, Cap
<1>4. \A k \in 1..Len(t.blocks) : k \in 1..Len(b.blocks) \/ (k = Len(b.blocks) + 1 /\ Kind(m, h + 1) = "CommandExecuted")
  <2>1. CASE Kind(m, h + 1) = "CommandExecuted"
    <3>1. Len(t.blocks) = Len(b.blocks) + 1
      BY <1>1, <2>1
    <3> QED BY <1>1, <2>1, <3>1
  <2>2. CASE Kind(m, h + 1) # "CommandExecuted"
    <3>1. Len(t.blocks) = Len(b.blocks)
      BY <1>1, <2>2
    <3> QED BY <3>1
  <2> QED BY <2>1, <2>2
<1>5. \A k \in 1..Len(t.blocks) : k \notin 1..Len(b.blocks) => t.blocks[k].output = <<>> /\ Cap(t, k) = {}
  BY <1>4, NothingInEmpty DEF Handles, Cap
<1>6. t.carry = <<>> /\ Car(t) = {} /\ Rising(t.carry)
  BY NothingInEmpty DEF Handles, Settles, Car
<1>7. /\ h + 1 \in 1..Len(m) /\ m[h + 1].end \in Nat /\ m[h + 1].start \in Nat /\ m[h + 1].start < m[h + 1].end
      /\ \A j \in 1..h : m[j].end <= m[h + 1].start
  BY DEF WellPlaced
<1>8. \A i \in 1..(h + 1) : m[i].end <= m[h + 1].end
  <2>1. \A i \in 1..h : m[i].end \in Nat /\ m[i].end <= m[h + 1].start
    BY <1>7 DEF WellPlaced
  <2> QED BY <1>7, <2>1
<1>9. ASSUME NEW k \in 1..Len(b.blocks), NEW p \in Cap(b, k)
      PROVE  /\ p <= m[h + 1].end
             /\ \A k2 \in (k + 1)..Len(t.blocks) : \A q \in Cap(t, k2) : p < q
             /\ m[Ord(m, h + 1)[k]].end < p
             /\ Open(t, k) => p \in X \/ Clear(m, h + 1, p)
             /\ ~Open(t, k) => p \in X \/ p <= m[Min(Enders(m, Ord(m, h + 1)[k]))].start
  <2>1. /\ p <= edge /\ p \in Int
        /\ \A k2 \in (k + 1)..Len(b.blocks) : \A q \in Cap(b, k2) : p < q
        /\ m[Ord(m, h)[k]].end < p
        /\ Open(b, k) => p \in X \/ Clear(m, h, p)
        /\ ~Open(b, k) => p \in X \/ p <= m[Min(Enders(m, Ord(m, h)[k]))].start
    BY <1>1 DEF Kept
  <2>2. p <= m[h + 1].end
    BY <1>7, <2>1
  <2>3. ASSUME NEW k2 \in (k + 1)..Len(t.blocks), NEW q \in Cap(t, k2) PROVE p < q
    <3>0. Len(t.blocks) \in Nat /\ Len(b.blocks) \in Nat
      BY <1>1
    <3>1. k2 \in 1..Len(t.blocks)
      BY <3>0
    <3>2. k2 \in 1..Len(b.blocks)
      BY <1>5, <3>1
    <3>3. k2 \in (k + 1)..Len(b.blocks)
      BY <3>0, <3>2
    <3> QED BY <1>3, <2>1, <3>2, <3>3
  <2>4. Clear(m, h, p) => Clear(m, h + 1, p) /\ p <= m[h + 1].start
    BY <1>7 DEF Clear
  <2> QED BY <1>2, <2>1, <2>2, <2>3, <2>4
<1>10. ASSUME NEW k \in 1..Len(t.blocks)
       PROVE  /\ Rising(t.blocks[k].output)
              /\ \A p \in Cap(t, k) :
                   /\ p <= m[h + 1].end /\ \A q \in Car(t) : p < q
                   /\ \A k2 \in (k + 1)..Len(t.blocks) : \A q \in Cap(t, k2) : p < q
                   /\ m[Ord(m, h + 1)[k]].end < p
                   /\ Open(t, k) => p \in X \/ Clear(m, h + 1, p)
                   /\ ~Open(t, k) => p \in X \/ p <= m[Min(Enders(m, Ord(m, h + 1)[k]))].start
  <2>1. CASE k \in 1..Len(b.blocks)
    <3>1. Rising(t.blocks[k].output)
      BY <1>3, <2>1 DEF Kept
    <3> QED BY <1>3, <1>6, <1>9, <2>1, <3>1, Zenon
  <2>2. CASE k \notin 1..Len(b.blocks)
    BY <1>5, <2>2, NothingInEmpty
  <2> QED BY <2>1, <2>2
<1> QED BY <1>6, <1>8, <1>10, Zenon DEF Kept

-----------------------------------------------------------------------------
(* What consume does with its carry and with the output between markers.     *)
LEMMA CarryOnly ==
  ASSUME NEW b, Ready(b), NEW x \in Seq(Int)
  PROVE  LET t == [b EXCEPT !.carry = x]
         IN  Ready(t) /\ t.carry = x /\ t.meta = b.meta /\ t.running = b.running
             /\ t.alternate = b.alternate /\ t.blocks = b.blocks
<1>1. [b EXCEPT !.carry = x] \in Builders
  BY DEF Ready, Builders
<1> QED BY <1>1, BuilderFields DEF Ready

LEMMA Appends ==
  ASSUME NEW b, Ready(b), NEW y \in Seq(Int)
  PROVE  LET t == AppendOutput(b, y) IN Ready(t) /\ Takes(b, t, y) /\ t.carry = b.carry
<1>1. Ready(AppendOutput(b, y)) /\ Captures(b, AppendOutput(b, y), y)
  BY OutputIs
<1> QED BY <1>1 DEF Captures, Takes, Open

LEMMA FlushesCarry ==
  ASSUME NEW b, Ready(b)
  PROVE  LET t == FlushCarry(b) IN Ready(t) /\ Takes(b, t, b.carry) /\ t.carry = <<>>
<1>1. b.carry \in Seq(Int)
  BY OutputTyped
<1>2. PICK a : a = AppendOutput(b, b.carry)
  OBVIOUS
<1>3. Ready(a) /\ Takes(b, a, b.carry)
  BY <1>1, <1>2, Appends
<1>4. FlushCarry(b) = [a EXCEPT !.carry = <<>>]
  BY <1>2 DEF FlushCarry
<1>5. PICK e \in Seq(Int) : e = <<>>
  <2>1. <<>> \in Seq(Int)
    OBVIOUS
  <2> QED BY <2>1
<1>6. PICK t : t = [a EXCEPT !.carry = e]
  OBVIOUS
<1>7. Ready(t) /\ t.carry = e /\ t.meta = a.meta /\ t.running = a.running
      /\ t.alternate = a.alternate /\ t.blocks = a.blocks
  <2>1. LET u == [a EXCEPT !.carry = e]
        IN  Ready(u) /\ u.carry = e /\ u.meta = a.meta /\ u.running = a.running
            /\ u.alternate = a.alternate /\ u.blocks = a.blocks
    BY <1>3, CarryOnly
  <2> QED BY <1>6, <2>1, Zenon
<1>8. Takes(b, t, b.carry)
  BY <1>3, <1>7, Zenon DEF Takes
<1> QED BY <1>4, <1>5, <1>6, <1>7, <1>8

-----------------------------------------------------------------------------
(* What they keep: nothing is captured out of order, nor out of its Block.   *)
Handled(m, h) == m \in Seq(Hits) /\ h \in Nat /\ h <= Len(m) /\ WellPlaced(m)

Keeps(b, m, h, edge, X) == Ready(b) /\ Control(b, m, h) /\ Kept(b, m, h, edge, X)

LEMMA CarryCaptured ==
  ASSUME NEW m, NEW h, Handled(m, h), NEW X, NEW edge \in Int,
         NEW b, Keeps(b, m, h, edge, X), \A p \in Car(b) : p \in X \/ Clear(m, h, p)
  PROVE  Keeps(FlushCarry(b), m, h, edge, X) /\ FlushCarry(b).carry = <<>>
<1>1. PICK t : t = FlushCarry(b)
  OBVIOUS
<1>2. Ready(b) /\ Control(b, m, h) /\ Kept(b, m, h, edge, X)
  BY DEF Keeps
<1>3. Ready(t) /\ Takes(b, t, b.carry) /\ t.carry = <<>>
  BY <1>1, <1>2, FlushesCarry
<1>4. PICK y \in Seq(Int) : y = b.carry
  BY <1>2, OutputTyped
<1>5. Rising(y) /\ \A p \in ToSet(y) : p <= edge /\ Past(m, h, p)
  BY <1>2, <1>4 DEF Kept, Car
<1>6. \A p \in ToSet(y) : p \in X \/ Clear(m, h, p)
  BY <1>4 DEF Car
<1>7. \A p \in ToSet(y) : \A k \in 1..Len(b.blocks) : \A q \in Cap(b, k) : q < p
  BY <1>2, <1>4 DEF Kept, Car
<1>8. Rising(t.carry) /\ Car(t) = {}
  BY <1>3, NothingInEmpty DEF Car
<1>9. Len(b.blocks) = Len(Ord(m, h)) /\ edge <= edge
  BY <1>2 DEF Control
<1>10. Takes(b, t, y)
  BY <1>3, <1>4
<1>11. Kept(t, m, h, edge, X)
  BY <1>2, <1>3, <1>5, <1>6, <1>7, <1>8, <1>9, <1>10, KeptTakes DEF Handled
<1>12. Control(t, m, h)
  BY <1>2, <1>10, ControlTakes
<1> QED BY <1>1, <1>3, <1>11, <1>12 DEF Keeps

LEMMA CarryDropped ==
  ASSUME NEW m, NEW h, NEW X, NEW edge,
         NEW b, Keeps(b, m, h, edge, X)
  PROVE  LET t == [b EXCEPT !.carry = <<>>] IN Keeps(t, m, h, edge, X) /\ t.carry = <<>>
<1>1. PICK e \in Seq(Int) : e = <<>>
  <2>1. <<>> \in Seq(Int)
    OBVIOUS
  <2> QED BY <2>1
<1>2. PICK t : t = [b EXCEPT !.carry = e]
  OBVIOUS
<1>3. Ready(b) /\ Control(b, m, h) /\ Kept(b, m, h, edge, X)
  BY DEF Keeps
<1>4. Ready(t) /\ t.carry = e /\ t.meta = b.meta /\ t.running = b.running
      /\ t.alternate = b.alternate /\ t.blocks = b.blocks
  BY <1>2, <1>3, CarryOnly
<1>5. Control(t, m, h)
  <2>1. \A k : Open(t, k) <=> Open(b, k)
    BY <1>4 DEF Open
  <2> QED BY <1>3, <1>4, <2>1, Zenon DEF Control
<1>6. Rising(t.carry) /\ Car(t) = {}
  BY <1>1, <1>4, NothingInEmpty DEF Car
<1>7. Kept(t, m, h, edge, X)
  <2>1. \A k : Cap(t, k) = Cap(b, k) /\ (Open(t, k) <=> Open(b, k))
    BY <1>4 DEF Cap, Open
  <2> QED BY <1>3, <1>4, <1>6, <2>1, Zenon DEF Kept
<1> QED BY <1>1, <1>2, <1>4, <1>5, <1>7 DEF Keeps

LEMMA SliceCaptured ==
  ASSUME flushed \in Nat, NEW m, NEW h, Handled(m, h), NEW X,
         NEW from \in Nat, NEW to \in Int, from <= to,
         NEW b, Keeps(b, m, h, flushed + from, X), b.carry = <<>>,
         \A p \in (flushed + from + 1)..(flushed + to) : p \in X \/ Clear(m, h, p)
  PROVE  LET t == AppendOutput(b, Slice(from, to))
         IN  Keeps(t, m, h, flushed + to, X) /\ t.carry = <<>>
<1>1. PICK t : t = AppendOutput(b, Slice(from, to))
  OBVIOUS
<1>2. Ready(b) /\ Control(b, m, h) /\ Kept(b, m, h, flushed + from, X)
  BY DEF Keeps
<1>3. PICK y \in Seq(Int) :
        /\ y = Slice(from, to) /\ Rising(y)
        /\ \A p : p \in ToSet(y) <=> p \in (flushed + from + 1)..(flushed + to)
  BY SliceIs
<1>4. Ready(t) /\ Takes(b, t, y) /\ t.carry = <<>>
  BY <1>1, <1>2, <1>3, Appends
<1>5. PICK edge \in Int : edge = flushed + from
  OBVIOUS
<1>6. PICK edge2 \in Int : edge2 = flushed + to /\ edge <= edge2
  BY <1>5
<1>7. \A p \in ToSet(y) : p \in Int /\ edge < p /\ p <= edge2
  BY <1>3, <1>5, <1>6
<1>8. \A p \in ToSet(y) : p \in X \/ Clear(m, h, p)
  BY <1>3
<1>9. \A p \in ToSet(y) : Past(m, h, p)
  <2>1. \A i \in 1..h : m[i].end \in Nat /\ m[i].end <= edge
    BY <1>2, <1>5 DEF Kept, Handled, WellPlaced
  <2> QED BY <1>7, <2>1 DEF Past
<1>10. \A p \in ToSet(y) : \A k \in 1..Len(b.blocks) : \A q \in Cap(b, k) : q < p
  <2>1. \A k \in 1..Len(b.blocks) : \A q \in Cap(b, k) : q \in Int /\ q <= edge
    BY <1>2, <1>5, OutputTyped DEF Kept
  <2> QED BY <1>7, <2>1
<1>11. Rising(t.carry) /\ Car(t) = {}
  BY <1>4, NothingInEmpty DEF Car
<1>12. Len(b.blocks) = Len(Ord(m, h)) /\ Kept(b, m, h, edge, X)
  BY <1>2, <1>5 DEF Control
<1>13. Kept(t, m, h, edge2, X)
  BY <1>2, <1>3, <1>4, <1>6, <1>7, <1>8, <1>9, <1>10, <1>11, <1>12, KeptTakes DEF Handled
<1>14. Control(t, m, h)
  BY <1>2, <1>4, ControlTakes
<1> QED BY <1>1, <1>4, <1>6, <1>13, <1>14 DEF Keeps

(* What is kept for the next batch comes after everything captured.          *)
LEMMA CarryHeld ==
  ASSUME flushed \in Nat, NEW m, NEW h, Handled(m, h), NEW X,
         NEW from \in Nat, NEW to \in Int, from <= to,
         NEW b, Keeps(b, m, h, flushed + from, X)
  PROVE  Keeps([b EXCEPT !.carry = b.carry \o Slice(from, to)], m, h, flushed + to, X)
<1>2. Ready(b) /\ Control(b, m, h) /\ Kept(b, m, h, flushed + from, X)
  BY DEF Keeps
<1>3. PICK y \in Seq(Int) :
        /\ y = Slice(from, to) /\ Rising(y)
        /\ \A p : p \in ToSet(y) <=> p \in (flushed + from + 1)..(flushed + to)
  BY SliceIs
<1>4. PICK c \in Seq(Int) : c = b.carry
  BY <1>2, OutputTyped
<1>5. PICK edge \in Int : edge = flushed + from
  OBVIOUS
<1>6. PICK edge2 \in Int : edge2 = flushed + to /\ edge <= edge2
  BY <1>5
<1>7. \A p \in ToSet(y) : p \in Int /\ edge < p /\ p <= edge2
  BY <1>3, <1>5, <1>6
<1>8. Rising(c) /\ ToSet(c) \subseteq Int /\ \A p \in ToSet(c) : p <= edge /\ Past(m, h, p)
  BY <1>2, <1>4, <1>5, ToSetIs DEF Kept, Car
<1>9. PICK z \in Seq(Int) : z = c \o y /\ Rising(z) /\ ToSet(z) = ToSet(c) \cup ToSet(y)
  <2>1. c \o y \in Seq(Int)
    BY ConcatProperties
  <2>2. \A p \in ToSet(c) : \A q \in ToSet(y) : p < q
    BY <1>7, <1>8
  <2>3. Rising(c \o y) /\ ToSet(c \o y) = ToSet(c) \cup ToSet(y)
    BY <1>3, <1>8, <2>2, RisingConcat
  <2> QED BY <2>1, <2>3, Zenon
<1>10. \A i \in 1..h : m[i].end \in Nat /\ m[i].end <= edge
  BY <1>2, <1>5 DEF Kept, Handled, WellPlaced
<1>11. \A p \in ToSet(z) : p <= edge2 /\ Past(m, h, p)
  <2>1. \A p \in ToSet(y) : Past(m, h, p)
    BY <1>7, <1>10 DEF Past
  <2>2. \A p \in ToSet(c) : p <= edge2
    BY <1>6, <1>8
  <2> QED BY <1>7, <1>8, <1>9, <2>1, <2>2
<1>12. PICK t : t = [b EXCEPT !.carry = z]
  OBVIOUS
<1>13. Ready(t) /\ t.carry = z /\ t.meta = b.meta /\ t.running = b.running
       /\ t.alternate = b.alternate /\ t.blocks = b.blocks
  BY <1>2, <1>12, CarryOnly
<1>14. Control(t, m, h)
  BY <1>2, <1>13, Zenon DEF Control, Open
<1>15. \A k : Cap(t, k) = Cap(b, k) /\ (Open(t, k) <=> Open(b, k))
  BY <1>13 DEF Cap, Open
<1>16. \A k \in 1..Len(b.blocks) : \A q \in Cap(b, k) : q \in Int /\ q <= edge /\ \A p \in ToSet(c) : q < p
  BY <1>2, <1>4, <1>5, OutputTyped DEF Kept, Car
<1>17. \A k \in 1..Len(b.blocks) : \A q \in Cap(b, k) : q <= edge2 /\ \A p \in ToSet(z) : q < p
  <2> SUFFICES ASSUME NEW k \in 1..Len(b.blocks), NEW q \in Cap(b, k)
               PROVE  q <= edge2 /\ \A p \in ToSet(z) : q < p
    OBVIOUS
  <2>1. q \in Int /\ q <= edge /\ \A p \in ToSet(c) : q < p
    BY <1>16
  <2>2. q <= edge2 /\ \A p \in ToSet(y) : q < p
    BY <1>6, <1>7, <2>1
  <2> QED BY <1>9, <2>1, <2>2
<1>18. \A i \in 1..h : m[i].end <= edge2
  BY <1>6, <1>10
<1>19. Kept(t, m, h, edge2, X)
  <2>1. Kept(b, m, h, edge, X)
    BY <1>2, <1>5
  <2>2. Rising(t.carry) /\ \A p \in Car(t) : p <= edge2 /\ Past(m, h, p)
    BY <1>9, <1>11, <1>13 DEF Car
  <2>3. \A k \in 1..Len(t.blocks) :
          /\ Rising(t.blocks[k].output)
          /\ \A p \in Cap(t, k) :
               /\ \A k2 \in (k + 1)..Len(t.blocks) : \A q \in Cap(t, k2) : p < q
               /\ m[Ord(m, h)[k]].end < p
               /\ Open(t, k) => p \in X \/ Clear(m, h, p)
               /\ ~Open(t, k) => p \in X \/ p <= m[Min(Enders(m, Ord(m, h)[k]))].start
    BY <1>13, <1>15, <2>1, Zenon DEF Kept
  <2>4. \A k \in 1..Len(t.blocks) : \A p \in Cap(t, k) : p <= edge2 /\ \A q \in Car(t) : p < q
    BY <1>13, <1>15, <1>17, Zenon DEF Car
  <2> QED BY <1>18, <2>2, <2>3, <2>4, Zenon DEF Kept
<1>20. [b EXCEPT !.carry = b.carry \o Slice(from, to)] = t
  BY <1>3, <1>4, <1>9, <1>12
<1> QED BY <1>6, <1>13, <1>14, <1>19, <1>20 DEF Keeps

(* A marker is handled.                                                      *)
LEMMA MarkerHandled ==
  ASSUME NEW m, NEW h, Handled(m, h), h < Len(m), Kind(m, h + 1) \in Kinds,
         NEW X, NEW edge \in Int, edge <= m[h + 1].end,
         NEW b, Keeps(b, m, h, edge, X), b.carry = <<>>
  PROVE  LET t == HandleSignal(b, Kind(m, h + 1))
         IN  Keeps(t, m, h + 1, m[h + 1].end, X) /\ t.carry = <<>>
<1>1. PICK t : t = HandleSignal(b, Kind(m, h + 1))
  OBVIOUS
<1>2. Ready(b) /\ Control(b, m, h) /\ Kept(b, m, h, edge, X)
  BY DEF Keeps
<1>3. Ready(t) /\ Handles(b, t, Kind(m, h + 1))
  BY <1>1, <1>2, HandleIs
<1>4. m \in Seq(Hits) /\ h \in Nat /\ WellPlaced(m)
  BY DEF Handled
<1>5. Control(t, m, h + 1)
  BY <1>2, <1>3, <1>4, ControlHandles
<1>6. Kept(t, m, h + 1, m[h + 1].end, X)
  BY <1>2, <1>3, <1>4, KeptHandles
<1>7. t.carry = <<>>
  BY <1>3 DEF Handles, Settles
<1> QED BY <1>1, <1>3, <1>5, <1>6, <1>7 DEF Keeps

-----------------------------------------------------------------------------
(* The markers of the whole stream, and how many of them a prefix shows.     *)
All == Told(stream, Len(stream))
Done(n) == Len(Told(stream, n))

(* Where the markers of a batch are, and those after it.                     *)
Batched ==
  /\ All \in Seq(Hits) /\ WellPlaced(All) /\ Done(flushed) \in Nat /\ Len(signals) \in Nat
  /\ Done(fed) = Done(flushed) + Len(signals) /\ Done(fed) <= Len(All)
  /\ \A i \in 1..Len(All) : Kind(All, i) \in Kinds
  /\ \A i \in 1..Len(signals) :
       /\ signals[i].signal = Kind(All, Done(flushed) + i)
       /\ signals[i].end \in Nat /\ All[Done(flushed) + i].end = flushed + signals[i].end
       /\ All[Done(flushed) + i].end > flushed /\ All[Done(flushed) + i].end <= Frontier(stream, fed)
       /\ \/ signals[i].start = None /\ (seam \/ All[Done(flushed) + i].start < flushed)
          \/ signals[i].start \in Nat /\ All[Done(flushed) + i].start = flushed + signals[i].start
  /\ \A i \in 1..Len(All) : i > Done(fed) => All[i].start >= Frontier(stream, fed)

LEMMA AllIs ==
  ASSUME Reading
  PROVE  /\ All \in Seq(Hits) /\ WellPlaced(All) /\ \A i \in 1..Len(All) : Kind(All, i) \in Kinds
         /\ stream \in Seq(Tokens) /\ Len(stream) \in Nat
<1>1. stream \in Seq(Tokens) /\ Len(stream) \in Nat /\ Len(stream) \in 0..Len(stream)
  BY StreamsAssumption DEF Reading
<1>2. All \in Seq(Hits)
  BY <1>1, ToldTyped DEF All
<1>3. WellPlaced(All)
  BY <1>1, ToldPlaced DEF All, WellPlaced
<1>4. ASSUME NEW i \in 1..Len(All) PROVE Kind(All, i) \in Kinds
  <2>1. At(stream, Len(stream)).hits \in Seq(Hits)
    BY <1>1, WholeIs, ScannerFields
  <2>2. Recognised(All[i].payload)
    BY <2>1, MarkersRecognised DEF All, Told
  <2> QED BY <2>2, SignalIs DEF Kind, Recognised
<1> QED BY <1>1, <1>2, <1>3, <1>4

LEMMA BatchedIs == Pumping => Batched
<1> SUFFICES ASSUME Pumping PROVE Batched
  OBVIOUS
<1>1. /\ All \in Seq(Hits) /\ WellPlaced(All) /\ \A i \in 1..Len(All) : Kind(All, i) \in Kinds
      /\ stream \in Seq(Tokens) /\ Len(stream) \in Nat
  BY AllIs DEF Pumping
<1>2. /\ fed \in 0..Len(stream) /\ flushed \in 0..fed /\ flushed \in 0..Len(stream) /\ fed \in flushed..Len(stream)
      /\ Len(stream) \in fed..Len(stream) /\ flushed \in Nat /\ fed \in Nat
  BY <1>1 DEF Pumping, Reading
<1>3. PICK o \in Seq(Hits) : o = Told(stream, fed)
  BY <1>1, <1>2, ToldTyped
<1>4. PICK c \in Nat : c = Done(flushed)
  <2>1. Told(stream, flushed) \in Seq(Hits)
    BY <1>1, <1>2, ToldTyped
  <2> QED BY <2>1 DEF Done
<1>5. PICK m \in Seq(Hits) : m = All
  BY <1>1
<1>6. /\ Len(o) <= Len(m) /\ \A i \in 1..Len(o) : m[i] = o[i]
      /\ \A i \in (Len(o) + 1)..Len(m) : m[i].start >= Frontier(stream, fed)
  BY <1>1, <1>2, <1>3, <1>5, ToldInAll DEF All
<1>7. \A i \in (c + 1)..Len(o) : o[i].end > flushed
  BY <1>1, <1>2, <1>3, <1>4, ToldInAll DEF Done
<1>8. \A i \in 1..Len(o) : o[i].end <= Frontier(stream, fed)
  BY <1>1, <1>2, <1>3, ToldPlaced
<1>9. PICK n \in Nat : n = Len(signals) /\ Len(o) = c + n /\ signals \in Seq(SignalRecs)
                       /\ \A i \in 1..n : Matches(signals[i], o[c + i])
  BY <1>3, <1>4 DEF Pumping, Tapped, Done
<1>10. ASSUME NEW i \in 1..n
       PROVE  /\ signals[i].signal = Kind(m, c + i)
              /\ signals[i].end \in Nat /\ m[c + i].end = flushed + signals[i].end
              /\ m[c + i].end > flushed /\ m[c + i].end <= Frontier(stream, fed)
              /\ \/ signals[i].start = None /\ (seam \/ m[c + i].start < flushed)
                 \/ signals[i].start \in Nat /\ m[c + i].start = flushed + signals[i].start
  <2>1. c + i \in 1..Len(o) /\ c + i \in (c + 1)..Len(o)
    BY <1>9
  <2>2. m[c + i] = o[c + i]
    BY <1>6, <2>1
  <2>3. Matches(signals[i], m[c + i])
    BY <1>9, <2>2
  <2>4. signals[i] \in SignalRecs
    BY <1>9
  <2> QED BY <1>7, <1>8, <2>1, <2>2, <2>3, <2>4 DEF Matches, SignalRecs, Kind
<1>11. \A i \in 1..Len(m) : i > Len(o) => m[i].start >= Frontier(stream, fed)
  BY <1>3, <1>6
<1>12. Done(fed) = Len(o)
  BY <1>3 DEF Done
<1> QED BY <1>1, <1>4, <1>5, <1>6, <1>9, <1>10, <1>11, <1>12 DEF Batched

LEMMA ClearBefore ==
  ASSUME NEW m, NEW h, Handled(m, h), h < Len(m), NEW p \in Int, p <= m[h + 1].start
  PROVE  Clear(m, h, p)
<1>1. h \in Nat /\ Len(m) \in Nat /\ h + 1 \in 1..Len(m)
  BY DEF Handled
<1>2. \A j \in 1..Len(m) : /\ m[j].start \in Nat /\ m[j].end \in Nat /\ m[j].start < m[j].end
                           /\ \A j2 \in 1..(j - 1) : m[j2].end <= m[j].start
  BY DEF Handled, WellPlaced
<1>3. ASSUME NEW j \in (h + 1)..Len(m) PROVE p <= m[j].start
  <2>1. CASE j = h + 1
    BY <2>1
  <2>2. CASE j # h + 1
    <3>1. j \in 1..Len(m) /\ h + 1 \in 1..(j - 1)
      BY <1>1, <2>2
    <3>2. m[h + 1].end <= m[j].start /\ m[h + 1].start < m[h + 1].end
          /\ m[h + 1].end \in Nat /\ m[h + 1].start \in Nat /\ m[j].start \in Nat
      BY <1>1, <1>2, <3>1
    <3> QED BY <3>2
  <2> QED BY <2>1, <2>2
<1> QED BY <1>3 DEF Clear

-----------------------------------------------------------------------------
(* Between two markers of the batch.                                         *)
Mid(at, i, X) ==
  /\ at.cursor \in Nat
  /\ Keeps(at.builder, All, Done(flushed) + i, flushed + at.cursor, X)
  /\ i = 0 => at.cursor = 0
  /\ i > 0 => /\ at.builder.carry = <<>>
              /\ All[Done(flushed) + i].end = flushed + at.cursor

LEMMA MidCarry ==
  ASSUME Batched, flushed \in Nat, NEW i \in Nat, NEW X, NEW at, Mid(at, i, X)
  PROVE  \A p \in Car(at.builder) : p \in Int /\ p <= flushed
<1>1. CASE i = 0
  <2>1. Ready(at.builder) /\ Kept(at.builder, All, Done(flushed) + i, flushed + at.cursor, X) /\ at.cursor = 0
    BY <1>1 DEF Mid, Keeps
  <2>2. flushed + at.cursor = flushed
    BY <2>1
  <2> QED BY <2>1, <2>2, OutputTyped DEF Kept
<1>2. CASE i > 0
  <2>1. at.builder.carry = <<>>
    BY <1>2 DEF Mid
  <2> QED BY <2>1, NothingInEmpty DEF Car
<1> QED BY <1>1, <1>2

LEMMA MidSignal ==
  ASSUME Batched, flushed \in Nat, NEW i \in Nat, i < Len(signals), NEW X, NEW at, Mid(at, i, X)
  PROVE  Mid(ConsumeSignal(at, signals[i + 1]), i + 1, X)
<1>1. PICK h \in Nat : h = Done(flushed) + i
  BY DEF Batched
<1>2. PICK m \in Seq(Hits) : m = All
  BY DEF Batched
<1>3. PICK n \in Nat : n = Len(signals) /\ Done(flushed) + n <= Len(m) /\ Done(flushed) \in Nat
  BY <1>2 DEF Batched
<1>4. h < Len(m) /\ Handled(m, h) /\ h + 1 \in 1..Len(m) /\ Done(flushed) + (i + 1) = h + 1
  BY <1>1, <1>2, <1>3 DEF Handled, Batched
<1>5. PICK sig : sig = signals[i + 1]
  OBVIOUS
<1>6. /\ sig.signal = Kind(m, h + 1) /\ Kind(m, h + 1) \in Kinds
      /\ sig.end \in Nat /\ m[h + 1].end = flushed + sig.end /\ m[h + 1].end > flushed
      /\ \/ sig.start = None
         \/ sig.start \in Nat /\ m[h + 1].start = flushed + sig.start
  <2>1. i + 1 \in 1..Len(signals)
    BY <1>3
  <2> QED BY <1>2, <1>4, <1>5, <2>1 DEF Batched
<1>7. /\ m[h + 1].start \in Nat /\ m[h + 1].end \in Nat /\ m[h + 1].start < m[h + 1].end
      /\ \A j \in 1..h : m[j].end <= m[h + 1].start
  BY <1>4 DEF Handled, WellPlaced
<1>8. PICK cursor \in Nat : cursor = at.cursor
  BY DEF Mid
<1>9. Keeps(at.builder, m, h, flushed + cursor, X)
  BY <1>1, <1>2, <1>8 DEF Mid
<1>10. CASE sig.start = None
  <2>1. PICK b : b = [at.builder EXCEPT !.carry = <<>>]
    OBVIOUS
  <2>2. Keeps(b, m, h, flushed + cursor, X) /\ b.carry = <<>>
    BY <1>9, <2>1, CarryDropped
  <2>3. flushed + cursor <= m[h + 1].end
    <3>1. CASE i = 0
      <4>1. cursor = 0
        BY <1>8, <3>1 DEF Mid
      <4> QED BY <1>6, <4>1
    <3>2. CASE i > 0
      <4>1. m[h].end = flushed + cursor /\ h \in 1..h
        BY <1>1, <1>2, <1>3, <1>8, <3>2 DEF Mid
      <4> QED BY <1>7, <4>1
    <3> QED BY <3>1, <3>2
  <2>4. PICK edge \in Int : edge = flushed + cursor
    OBVIOUS
  <2>5. PICK t : t = HandleSignal(b, sig.signal)
    OBVIOUS
  <2>6. Keeps(t, m, h + 1, m[h + 1].end, X) /\ t.carry = <<>>
    BY <1>4, <1>6, <2>2, <2>3, <2>4, <2>5, MarkerHandled
  <2>7. ConsumeSignal(at, sig) = [builder |-> t, cursor |-> sig.end]
    BY <1>10, <2>1, <2>5 DEF ConsumeSignal
  <2> QED BY <1>2, <1>4, <1>5, <1>6, <2>6, <2>7 DEF Mid
<1>11. CASE sig.start \in Nat /\ m[h + 1].start = flushed + sig.start
  <2>1. cursor <= sig.start
    <3>1. CASE i = 0
      <4>1. cursor = 0
        BY <1>8, <3>1 DEF Mid
      <4> QED BY <1>11, <4>1
    <3>2. CASE i > 0
      <4>1. m[h].end = flushed + cursor /\ h \in 1..h
        BY <1>1, <1>2, <1>3, <1>8, <3>2 DEF Mid
      <4> QED BY <1>7, <1>11, <4>1
    <3> QED BY <3>1, <3>2
  <2>2. PICK a : a = FlushCarry(at.builder)
    OBVIOUS
  <2>3. PICK edge \in Int : edge = flushed + cursor
    OBVIOUS
  <2>4. Keeps(a, m, h, edge, X) /\ a.carry = <<>>
    <3>1. \A p \in Car(at.builder) : p \in Int /\ p <= flushed
      BY MidCarry
    <3>2. \A p \in Car(at.builder) : p <= m[h + 1].start
      BY <1>11, <3>1
    <3>3. \A p \in Car(at.builder) : Clear(m, h, p)
      BY <1>4, <3>1, <3>2, ClearBefore
    <3> QED BY <1>4, <1>9, <2>2, <2>3, <3>3, CarryCaptured
  <2>5. PICK b : b = AppendOutput(a, Slice(cursor, sig.start))
    OBVIOUS
  <2>6. Keeps(b, m, h, flushed + sig.start, X) /\ b.carry = <<>>
    <3>1. \A p \in (flushed + cursor + 1)..(flushed + sig.start) : p \in Int /\ p <= m[h + 1].start
      BY <1>11
    <3>2. \A p \in (flushed + cursor + 1)..(flushed + sig.start) : Clear(m, h, p)
      BY <1>4, <3>1, ClearBefore
    <3>3. PICK to \in Nat : to = sig.start
      BY <1>11
    <3>4. Keeps(a, m, h, flushed + cursor, X) /\ cursor <= to
      BY <2>1, <2>3, <2>4, <3>3
    <3>5. \A p \in (flushed + cursor + 1)..(flushed + to) : Clear(m, h, p)
      BY <3>2, <3>3
    <3>6. \A p \in (flushed + cursor + 1)..(flushed + to) : p \in X \/ Clear(m, h, p)
      BY <3>5, Zenon
    <3>7. Handled(m, h) /\ a.carry = <<>> /\ to \in Int
      BY <1>4, <2>4
    <3>8. LET u == AppendOutput(a, Slice(cursor, to)) IN Keeps(u, m, h, flushed + to, X) /\ u.carry = <<>>
      BY <3>4, <3>6, <3>7, SliceCaptured, Zenon
    <3> QED BY <2>5, <3>3, <3>8
  <2>7. PICK edge2 \in Int : edge2 = flushed + sig.start /\ edge2 <= m[h + 1].end
    BY <1>7, <1>11
  <2>8. PICK t : t = HandleSignal(b, sig.signal)
    OBVIOUS
  <2>9. Keeps(t, m, h + 1, m[h + 1].end, X) /\ t.carry = <<>>
    BY <1>4, <1>6, <2>6, <2>7, <2>8, MarkerHandled
  <2>10. ConsumeSignal(at, sig) = [builder |-> t, cursor |-> sig.end]
    <3>1. sig.start # None /\ ~(sig.start < at.cursor)
      BY <1>8, <1>11, <2>1 DEF None
    <3> QED BY <1>8, <2>2, <2>5, <2>8, <3>1 DEF ConsumeSignal
  <2> QED BY <1>2, <1>4, <1>5, <1>6, <2>9, <2>10 DEF Mid
<1> QED BY <1>6, <1>10, <1>11

-----------------------------------------------------------------------------
(* The states of one consume, marker by marker.                              *)
Consumes(f, n, start) == f = [i \in 0..n |-> IF i = 0 THEN start ELSE ConsumeSignal(f[i - 1], signals[i])]

LEMMA ConsumesExist == ASSUME NEW start PROVE \A n \in Nat : \E f : Consumes(f, n, start)
<1> DEFINE P == {n \in Nat : \E f : Consumes(f, n, start)}
<1>1. 0 \in P
  <2> DEFINE f == [i \in 0..0 |-> start]
  <2>1. Consumes(f, 0, start)
    <3>1. \A i \in 0..0 : i = 0
      OBVIOUS
    <3>2. f = [i \in 0..0 |-> IF i = 0 THEN start ELSE ConsumeSignal(f[i - 1], signals[i])]
      BY <3>1
    <3> QED BY <3>2 DEF Consumes
  <2> HIDE DEF f
  <2> QED BY <2>1
<1>2. ASSUME NEW n \in P PROVE n + 1 \in P
  <2>1. PICK f : Consumes(f, n, start)
    OBVIOUS
  <2> DEFINE g == [i \in 0..(n + 1) |-> IF i = 0 THEN start ELSE ConsumeSignal(f[i - 1], signals[i])]
  <2>a. n \in Nat
    BY DEF P
  <2>2. \A i \in 0..n : g[i] = f[i]
    <3> SUFFICES ASSUME NEW i \in 0..n PROVE g[i] = f[i]
      OBVIOUS
    <3>1. f[i] = IF i = 0 THEN start ELSE ConsumeSignal(f[i - 1], signals[i])
      BY <2>1, Zenon DEF Consumes
    <3>2. i \in 0..(n + 1)
      BY <2>a
    <3> QED BY <3>1, <3>2, Zenon
  <2>3. g = [i \in 0..(n + 1) |-> IF i = 0 THEN start ELSE ConsumeSignal(g[i - 1], signals[i])]
    <3>1. \A i \in 0..(n + 1) : i # 0 => i - 1 \in 0..n
      BY <2>a
    <3>2. \A i \in 0..(n + 1) : i # 0 => g[i - 1] = f[i - 1]
      BY <2>2, <3>1
    <3> QED BY <3>2, Zenon
  <2>4. Consumes(g, n + 1, start)
    BY <2>3, Zenon DEF Consumes
  <2> HIDE DEF g
  <2> QED BY <2>4
<1> HIDE DEF P
<1>3. P = Nat
  <2>1. P \in SUBSET Nat
    BY DEF P
  <2> QED BY <1>1, <1>2, <2>1, Induction
<1> QED BY <1>3 DEF P

LEMMA ConsumeStates ==
  ASSUME Batched, NEW b, NEW len
  PROVE  \E f : /\ f[0] = [builder |-> [b EXCEPT !.alternate = alternate], cursor |-> 0]
                /\ \A i \in Nat : i < Len(signals) => f[i + 1] = ConsumeSignal(f[i], signals[i + 1])
                /\ Consume(b, len) = ConsumeTail(f[Len(signals)].builder, f[Len(signals)].cursor, len)
<1> DEFINE start == [builder |-> [b EXCEPT !.alternate = alternate], cursor |-> 0]
           n == Len(signals)
           f == CHOOSE g : Consumes(g, n, start)
<1>a. n \in Nat
  BY DEF Batched
<1>1. f = [i \in 0..n |-> IF i = 0 THEN start ELSE ConsumeSignal(f[i - 1], signals[i])]
  <2>1. \E g : Consumes(g, n, start)
    BY <1>a, ConsumesExist
  <2> QED BY <2>1, Zenon DEF Consumes
<1>2. Consume(b, len) = ConsumeTail(f[n].builder, f[n].cursor, len)
  BY Zenon DEF Consume, Consumes
<1> HIDE DEF f
<1>3. f[0] = start
  <2>1. 0 \in 0..n
    BY <1>a
  <2> QED BY <1>1, <2>1, Zenon
<1>4. ASSUME NEW i \in Nat, i < n PROVE f[i + 1] = ConsumeSignal(f[i], signals[i + 1])
  <2>1. i + 1 \in 0..n /\ i + 1 # 0 /\ (i + 1) - 1 = i
    BY <1>a, <1>4
  <2> QED BY <1>1, <2>1, Zenon
<1> QED BY <1>2, <1>3, <1>4

LEMMA ConsumeIs ==
  ASSUME Batched, flushed \in Nat, NEW b, NEW len, NEW X,
         Mid([builder |-> [b EXCEPT !.alternate = alternate], cursor |-> 0], 0, X)
  PROVE  \E at : Mid(at, Len(signals), X) /\ Consume(b, len) = ConsumeTail(at.builder, at.cursor, len)
<1>1. PICK n \in Nat : n = Len(signals)
  BY DEF Batched
<1>2. PICK f : /\ f[0] = [builder |-> [b EXCEPT !.alternate = alternate], cursor |-> 0]
               /\ \A i \in Nat : i < n => f[i + 1] = ConsumeSignal(f[i], signals[i + 1])
               /\ Consume(b, len) = ConsumeTail(f[n].builder, f[n].cursor, len)
  BY <1>1, ConsumeStates
<1> DEFINE P == {i \in Nat : i <= n => Mid(f[i], i, X)}
<1>3. 0 \in P
  BY <1>2
<1>4. ASSUME NEW i \in P PROVE i + 1 \in P
  <2>1. i \in Nat /\ i + 1 \in Nat
    OBVIOUS
  <2>2. ASSUME i + 1 <= n PROVE Mid(f[i + 1], i + 1, X)
    <3>1. i < n /\ i <= n
      BY <2>1, <2>2
    <3>2. f[i + 1] = ConsumeSignal(f[i], signals[i + 1])
      BY <1>2, <2>1, <3>1
    <3>3. Mid(f[i], i, X)
      BY <3>1
    <3> QED BY <1>1, <2>1, <3>1, <3>2, <3>3, MidSignal
  <2> QED BY <2>1, <2>2
<1>5. P = Nat
  <2>1. P \in SUBSET Nat
    OBVIOUS
  <2> HIDE DEF P
  <2> QED BY <1>3, <1>4, <2>1, Induction
<1>6. n \in P /\ n <= n
  BY <1>5
<1> QED BY <1>1, <1>2, <1>6

-----------------------------------------------------------------------------
(* A whole batch, from what was kept before it to what is kept after.        *)
LEMMA KeepsMore ==
  ASSUME NEW b, NEW m, NEW h, NEW edge, NEW X, NEW Y, X \subseteq Y, Keeps(b, m, h, edge, X)
  PROVE  Keeps(b, m, h, edge, Y)
<1>1. Kept(b, m, h, edge, X)
  BY DEF Keeps
<1>2. \A p : p \in X => p \in Y
  OBVIOUS
<1>3. Kept(b, m, h, edge, Y)
  BY <1>1, <1>2, Zenon DEF Kept
<1> QED BY <1>3 DEF Keeps

LEMMA ScreenOnly ==
  ASSUME NEW b, NEW m, NEW h, NEW edge, NEW X, Keeps(b, m, h, edge, X), alternate \in BOOLEAN
  PROVE  Keeps([b EXCEPT !.alternate = alternate], m, h, edge, X)
<1>1. PICK t : t = [b EXCEPT !.alternate = alternate]
  OBVIOUS
<1>2. Ready(b) /\ Control(b, m, h) /\ Kept(b, m, h, edge, X)
  BY DEF Keeps
<1>3. t \in Builders
  BY <1>1, <1>2 DEF Ready, Builders
<1>4. t.carry = b.carry /\ t.meta = b.meta /\ t.running = b.running /\ t.blocks = b.blocks
  BY <1>1, <1>2, BuilderFields DEF Ready
<1>5. Ready(t)
  BY <1>2, <1>3, <1>4 DEF Ready
<1>6. \A k : Open(t, k) <=> Open(b, k)
  BY <1>4 DEF Open
<1>7. Control(t, m, h)
  BY <1>2, <1>4, <1>6, Zenon DEF Control
<1>8. \A k : Cap(t, k) = Cap(b, k)
  BY <1>4 DEF Cap
<1>9. Kept(t, m, h, edge, X)
  BY <1>2, <1>4, <1>6, <1>8, Zenon DEF Kept, Car
<1> QED BY <1>1, <1>5, <1>7, <1>9 DEF Keeps

LEMMA TailKept ==
  ASSUME Pumping, Batched, fed > flushed, NEW X, scanner.state = "Escape" => fed \in X,
         NEW at, Mid(at, Len(signals), X)
  PROVE  Keeps(ConsumeTail(at.builder, at.cursor, fed - flushed), All, Done(fed), fed, X)
<1>1. fed \in 0..Len(stream) /\ flushed \in 0..fed /\ fed \in Nat /\ flushed \in Nat /\ stream \in Seq(Tokens)
  <2>1. /\ fed \in 0..Len(stream) /\ flushed \in 0..fed /\ stream \in Seq(Tokens) /\ Len(stream) \in Nat
    BY AllIs DEF Pumping, Reading
  <2> QED BY <2>1
<1>2. PICK m \in Seq(Hits) : m = All
  BY DEF Batched
<1>3. PICK n \in Nat : n = Len(signals)
  BY DEF Batched
<1>4. PICK h \in Nat : h = Done(fed) /\ h = Done(flushed) + n /\ h <= Len(m)
  BY <1>2, <1>3 DEF Batched
<1>5. Handled(m, h)
  BY <1>2, <1>4 DEF Handled, Batched
<1>6. PICK front \in 0..fed : front = Frontier(stream, fed)
  BY <1>1, FrontierStep
<1>7. \A i \in (h + 1)..Len(m) : m[i].start \in Nat /\ m[i].start >= front
  <2>1. \A i \in (h + 1)..Len(m) : i \in 1..Len(m) /\ i > h
    BY <1>4
  <2>2. \A i \in 1..Len(m) : m[i].start \in Nat
    BY <1>5 DEF Handled, WellPlaced
  <2> QED BY <1>2, <1>4, <1>6, <2>1, <2>2 DEF Batched
<1>8. \A p \in Int : p <= front => Clear(m, h, p)
  BY <1>6, <1>7 DEF Clear
<1>9. PICK cursor \in Nat : cursor = at.cursor
  BY DEF Mid
<1>10. PICK b : b = at.builder
  OBVIOUS
<1>11. Keeps(b, m, h, flushed + cursor, X)
  BY <1>2, <1>3, <1>4, <1>9, <1>10 DEF Mid
<1>12. n = 0 => cursor = 0
  BY <1>3, <1>9 DEF Mid
<1>13. n > 0 => b.carry = <<>> /\ flushed + cursor <= front
  <2> SUFFICES ASSUME n > 0 PROVE b.carry = <<>> /\ flushed + cursor <= front
    OBVIOUS
  <2>1. b.carry = <<>> /\ m[h].end = flushed + cursor
    BY <1>2, <1>3, <1>4, <1>9, <1>10 DEF Mid
  <2>2. n \in 1..Len(signals)
    BY <1>3
  <2>3. m[h].end <= front
    BY <1>2, <1>4, <1>6, <2>2 DEF Batched
  <2> QED BY <2>1, <2>3
<1>14. PICK len \in Nat : len = fed - flushed /\ flushed + len = fed
  BY <1>1
<1>a. flushed \in Nat
  BY <1>1
<1>b. len \in Int
  OBVIOUS
<1>15. cursor <= len
  BY <1>1, <1>6, <1>12, <1>13, <1>14
<1>16. \A p \in Car(b) : p \in Int /\ p <= flushed
  BY <1>1, <1>3, <1>10, MidCarry
<1>17. pending.kind \in {"None", "Earlier", "StartedAt"} /\ Opened
  BY DEF Pumping, Opened, Pendings
<1>18. CASE pending.kind = "StartedAt"
  <2>1. PICK start \in Nat : start = pending.at /\ front = flushed + start
    BY <1>6, <1>17, <1>18 DEF Opened, Frontier
  <2>2. cursor <= start /\ start <= len
    <3>1. flushed + start <= flushed + len
      BY <1>6, <1>14, <2>1
    <3>2. n > 0 => flushed + cursor <= flushed + start
      BY <1>13, <2>1
    <3> QED BY <1>a, <1>12, <3>1, <3>2
  <2>3. PICK a : a = FlushCarry(b)
    OBVIOUS
  <2>4. PICK edge \in Int : edge = flushed + cursor
    BY <1>1
  <2>5. Keeps(a, m, h, edge, X) /\ a.carry = <<>>
    <3>1. \A p \in Car(b) : Clear(m, h, p)
      <4>1. \A p \in Car(b) : p <= front
        BY <1>1, <1>16, <2>1
      <4> QED BY <1>8, <1>16, <4>1
    <3> QED BY <1>5, <1>11, <2>3, <2>4, <3>1, CarryCaptured
  <2>6. PICK t : t = AppendOutput(a, Slice(cursor, start))
    OBVIOUS
  <2>7. Keeps(t, m, h, flushed + start, X) /\ t.carry = <<>>
    <3>1. \A p \in (flushed + cursor + 1)..(flushed + start) : Clear(m, h, p)
      <4>1. \A p \in (flushed + cursor + 1)..(flushed + start) : p \in Int /\ p <= front
        BY <1>1, <2>1
      <4> QED BY <1>8, <4>1
    <3>2. Keeps(a, m, h, flushed + cursor, X)
      BY <2>4, <2>5
    <3>3. \A p \in (flushed + cursor + 1)..(flushed + start) : p \in X \/ Clear(m, h, p)
      BY <3>1, Zenon
    <3>4. Handled(m, h) /\ a.carry = <<>> /\ start \in Int /\ cursor \in Nat /\ cursor <= start
      BY <1>1, <1>5, <2>2, <2>5
    <3>5. LET u == AppendOutput(a, Slice(cursor, start)) IN Keeps(u, m, h, flushed + start, X) /\ u.carry = <<>>
      BY <1>a, <3>2, <3>3, <3>4, SliceCaptured, Zenon
    <3> QED BY <2>6, <3>5
  <2>8. Keeps([t EXCEPT !.carry = t.carry \o Slice(start, len)], m, h, flushed + len, X)
    BY <1>a, <1>b, <1>5, <2>2, <2>7, CarryHeld
  <2>9. t.carry \o Slice(start, len) = Slice(start, len)
    <3>1. PICK y \in Seq(Int) : y = Slice(start, len)
      BY <1>1, SliceIs
    <3>2. <<>> \o y = y
      OBVIOUS
    <3> QED BY <2>7, <3>1, <3>2
  <2>10. ConsumeTail(b, cursor, len) = [t EXCEPT !.carry = Slice(start, len)]
    BY <1>18, <2>1, <2>2, <2>3, <2>6 DEF ConsumeTail
  <2> QED BY <1>2, <1>4, <1>9, <1>10, <1>14, <2>8, <2>9, <2>10
<1>19. CASE pending.kind = "Earlier"
  <2>1. Keeps([b EXCEPT !.carry = b.carry \o Slice(cursor, len)], m, h, flushed + len, X)
    BY <1>a, <1>b, <1>5, <1>11, <1>15, CarryHeld
  <2>2. ConsumeTail(b, cursor, len) = [b EXCEPT !.carry = b.carry \o Slice(cursor, len)]
    BY <1>19 DEF ConsumeTail
  <2> QED BY <1>2, <1>4, <1>9, <1>10, <1>14, <2>1, <2>2
<1>20. CASE pending.kind = "None"
  <2>1. ~InsideOsc(At(stream, fed)) /\ (scanner.state = "Escape" <=> At(stream, fed).state = "Escape")
    BY <1>1, <1>17, <1>20 DEF Opened, Pumping, InStep, Alike
  <2>2. \A p \in Int : p <= fed => p \in X \/ p <= front
    <3>1. front = IF scanner.state = "Escape" THEN fed - 1 ELSE fed
      BY <1>6, <2>1 DEF Frontier
    <3> QED BY <1>1, <3>1
  <2>3. PICK a : a = FlushCarry(b)
    OBVIOUS
  <2>4. PICK edge \in Int : edge = flushed + cursor
    BY <1>1
  <2>5. Keeps(a, m, h, edge, X) /\ a.carry = <<>>
    <3>1. \A p \in Car(b) : p \in X \/ Clear(m, h, p)
      <4>1. \A p \in Car(b) : p <= fed
        BY <1>1, <1>16
      <4> QED BY <1>8, <1>16, <2>2, <4>1
    <3> QED BY <1>5, <1>11, <2>3, <2>4, <3>1, CarryCaptured
  <2>6. PICK t : t = AppendOutput(a, Slice(cursor, len))
    OBVIOUS
  <2>7. Keeps(t, m, h, flushed + len, X)
    <3>1. \A p \in (flushed + cursor + 1)..(flushed + len) : p \in X \/ Clear(m, h, p)
      <4>1. \A p \in (flushed + cursor + 1)..(flushed + len) : p \in Int /\ p <= fed
        BY <1>1, <1>14
      <4> QED BY <1>8, <2>2, <4>1
    <3>2. Keeps(a, m, h, flushed + cursor, X)
      BY <2>4, <2>5
    <3>3. Handled(m, h) /\ a.carry = <<>> /\ len \in Int /\ cursor \in Nat /\ cursor <= len
      BY <1>a, <1>b, <1>5, <1>15, <2>5
    <3>4. LET u == AppendOutput(a, Slice(cursor, len)) IN Keeps(u, m, h, flushed + len, X) /\ u.carry = <<>>
      BY <1>a, <3>1, <3>2, <3>3, SliceCaptured, Zenon
    <3> QED BY <2>6, <3>4
  <2>8. ConsumeTail(b, cursor, len) = t
    BY <1>20, <2>3, <2>6 DEF ConsumeTail
  <2> QED BY <1>2, <1>4, <1>9, <1>10, <1>14, <2>7, <2>8
<1> QED BY <1>17, <1>18, <1>19, <1>20

LEMMA BatchKept ==
  ASSUME Pumping, Flush, Keeps(builder, All, Done(flushed), flushed, excused.splits)
  PROVE  Keeps(builder', All, Done(fed), fed, excused'.splits)
<1>1. fed > flushed /\ builder' = Consume(builder, fed - flushed) /\ Batched
  BY BatchedIs DEF Flush
<1>2. flushed \in Nat /\ fed \in Nat /\ alternate \in BOOLEAN
  <2>1. fed \in 0..Len(stream) /\ flushed \in 0..fed /\ Len(stream) \in Nat /\ alternate \in BOOLEAN
    BY AllIs DEF Pumping, Reading
  <2> QED BY <2>1
<1>3. PICK X : X = excused'.splits
  OBVIOUS
<1>4. X = excused.splits \cup IF scanner.state = "Escape" THEN {fed} ELSE {}
  BY <1>3 DEF Flush
<1>5. PICK b : b = [builder EXCEPT !.alternate = alternate]
  OBVIOUS
<1>6. Keeps(b, All, Done(flushed), flushed, X)
  <2>1. excused.splits \subseteq X
    BY <1>4
  <2>2. Keeps(builder, All, Done(flushed), flushed, X)
    BY <2>1, KeepsMore
  <2> QED BY <1>2, <1>5, <2>2, ScreenOnly
<1>7. Mid([builder |-> b, cursor |-> 0], 0, X)
  <2>1. flushed + 0 = flushed /\ Done(flushed) + 0 = Done(flushed)
    BY <1>1, <1>2 DEF Batched
  <2> QED BY <1>6, <2>1 DEF Mid
<1>8. PICK at : /\ Mid(at, Len(signals), X)
                /\ Consume(builder, fed - flushed) = ConsumeTail(at.builder, at.cursor, fed - flushed)
  BY <1>1, <1>2, <1>5, <1>7, ConsumeIs
<1>9. scanner.state = "Escape" => fed \in X
  BY <1>4
<1> QED BY <1>1, <1>3, <1>8, <1>9, TailKept

-----------------------------------------------------------------------------
(* Sequences that follow each other flatten to a rising one.                 *)
Ascending(s) ==
  /\ \A k \in 1..Len(s) : Rising(s[k])
  /\ \A k \in 1..Len(s) : \A k2 \in (k + 1)..Len(s) :
       \A p \in ToSet(s[k]) : \A q \in ToSet(s[k2]) : p < q

LEMMA FlattenRising ==
  \A s \in Seq(Seq(Int)) :
    /\ FlattenSeq(s) \in Seq(Int)
    /\ \A p \in ToSet(FlattenSeq(s)) : \E k \in 1..Len(s) : p \in ToSet(s[k])
    /\ Ascending(s) => Rising(FlattenSeq(s))
<1> DEFINE Good(s) == /\ FlattenSeq(s) \in Seq(Int)
                      /\ \A p \in ToSet(FlattenSeq(s)) : \E k \in 1..Len(s) : p \in ToSet(s[k])
                      /\ Ascending(s) => Rising(FlattenSeq(s))
           P == {s \in Seq(Seq(Int)) : Good(s)}
<1>1. <<>> \in P
  <2>1. <<>> \in Seq(Seq(Int)) /\ <<>> \in Seq(Int)
    OBVIOUS
  <2> QED BY <2>1, FlattenEmpty, NothingInEmpty
<1>2. ASSUME NEW s \in P, NEW x \in Seq(Int) PROVE Append(s, x) \in P
  <2>1. PICK t \in Seq(Seq(Int)) : t = Append(s, x)
    <3>1. Append(s, x) \in Seq(Seq(Int))
      OBVIOUS
    <3> QED BY <3>1, Zenon
  <2>2. /\ s \in Seq(Seq(Int)) /\ Len(s) \in Nat /\ Len(t) = Len(s) + 1 /\ t[Len(s) + 1] = x
        /\ \A k \in 1..Len(s) : t[k] = s[k]
    BY <2>1
  <2>3. PICK u \in Seq(Int) : u = FlattenSeq(s)
    OBVIOUS
  <2>4. FlattenSeq(t) = u \o x
    BY <2>1, <2>2, <2>3, FlattenAppend
  <2>5. PICK v \in Seq(Int) : v = u \o x
    BY ConcatProperties
  <2>6. ToSet(v) = ToSet(u) \cup ToSet(x)
    BY <2>5, RisingConcat
  <2>7. \A k \in 1..Len(s) : k \in 1..Len(t) /\ Len(s) + 1 \in (k + 1)..Len(t)
    BY <2>2
  <2>8. \A p \in ToSet(u) : \E k \in 1..Len(s) : p \in ToSet(s[k])
    BY <2>3
  <2>9. \A p \in ToSet(v) : \E k \in 1..Len(t) : p \in ToSet(t[k])
    <3> SUFFICES ASSUME NEW p \in ToSet(v) PROVE \E k \in 1..Len(t) : p \in ToSet(t[k])
      OBVIOUS
    <3>1. CASE p \in ToSet(u)
      <4>1. PICK k \in 1..Len(s) : p \in ToSet(s[k])
        BY <2>8, <3>1
      <4>2. k \in 1..Len(t) /\ p \in ToSet(t[k])
        BY <2>2, <2>7, <4>1
      <4> QED BY <4>2
    <3>2. CASE p \in ToSet(x)
      <4>1. Len(s) + 1 \in 1..Len(t)
        BY <2>2
      <4> QED BY <2>2, <3>2, <4>1
    <3> QED BY <2>6, <3>1, <3>2
  <2>10. ASSUME Ascending(t) PROVE Rising(v)
    <3>1. \A k \in 1..Len(s) : Rising(s[k])
      BY <2>2, <2>7, <2>10 DEF Ascending
    <3>2. ASSUME NEW k \in 1..Len(s), NEW k2 \in (k + 1)..Len(s)
          PROVE  \A p \in ToSet(s[k]) : \A q \in ToSet(s[k2]) : p < q
      <4>a. Len(s) \in Nat /\ Len(t) = Len(s) + 1
        BY <2>2
      <4>b. PICK n \in Nat : n = Len(s)
        BY <4>a
      <4>c. k2 \in (k + 1)..n /\ k \in 1..n
        BY <4>b
      <4>1. k2 \in 1..Len(s) /\ k \in 1..Len(t) /\ k2 \in (k + 1)..Len(t)
        <5>1. k2 \in 1..n /\ k \in 1..(n + 1) /\ k2 \in (k + 1)..(n + 1)
          BY <4>c
        <5> QED BY <4>a, <4>b, <5>1
      <4>2. t[k] = s[k] /\ t[k2] = s[k2]
        BY <2>2, <4>1
      <4> QED BY <2>10, <4>1, <4>2 DEF Ascending
    <3>3. Rising(u)
      BY <2>3, <3>1, <3>2 DEF Ascending
    <3>4. Rising(x)
      <4>1. Len(s) + 1 \in 1..Len(t)
        BY <2>2
      <4> QED BY <2>2, <2>10, <4>1 DEF Ascending
    <3>5. \A p \in ToSet(u) : \A q \in ToSet(x) : p < q
      <4> SUFFICES ASSUME NEW p \in ToSet(u), NEW q \in ToSet(x) PROVE p < q
        OBVIOUS
      <4>1. PICK k \in 1..Len(s) : p \in ToSet(s[k])
        BY <2>8
      <4>2. k \in 1..Len(t) /\ Len(s) + 1 \in (k + 1)..Len(t) /\ t[k] = s[k] /\ t[Len(s) + 1] = x
        BY <2>2, <2>7
      <4> QED BY <2>10, <4>1, <4>2 DEF Ascending
    <3> QED BY <2>5, <3>3, <3>4, <3>5, RisingConcat
  <2> QED BY <2>1, <2>4, <2>5, <2>9, <2>10
<1>3. P = Seq(Seq(Int))
  <2>1. P \in SUBSET Seq(Seq(Int))
    OBVIOUS
  <2> HIDE DEF P
  <2> QED BY <1>1, <1>2, <2>1, InductionOnSeq
<1> QED BY <1>3

-----------------------------------------------------------------------------
(* The Blocks a stream marks are those of its markers.                       *)
AllExecutes == Ord(All, Len(All))

(* Whether a byte is outside every marker, the one the stream ends in too,   *)
(* and which screen it was written to.                                       *)
InText(p) == /\ \A i \in 1..Len(All) : p <= All[i].start \/ p > All[i].end
             /\ InsideOsc(At(stream, Len(stream))) => p <= Frontier(stream, Len(stream))
On(p) == OnAlternate(At(stream, Len(stream)), p)

LEMMA MarkedIs ==
  ASSUME Reading
  PROVE  /\ marked \in [1..Len(AllExecutes) -> {marked[k] : k \in 1..Len(AllExecutes)}]
         /\ AllExecutes \in Seq(1..Len(All))
         /\ \A k \in 1..Len(AllExecutes) :
              /\ marked[k].named = Named(All, AllExecutes[k]) /\ marked[k].exit = ExitOf(All, AllExecutes[k])
              /\ \A p : p \in marked[k].region <=>
                   /\ p \in 1..Len(stream) /\ p > All[AllExecutes[k]].end
                   /\ Enders(All, AllExecutes[k]) # {} => p <= All[Min(Enders(All, AllExecutes[k]))].start
              /\ \A p : p \in marked[k].output <=> p \in marked[k].region /\ InText(p) /\ ~On(p)
<1>1. stream \in Seq(Tokens) /\ Len(stream) \in Nat /\ All \in Seq(Hits) /\ marked = MarkedBlocks(stream)
  BY AllIs DEF Reading
<1>2. PICK scan : scan = FeedIndexed(NewScanner, stream) /\ scan = At(stream, Len(stream))
  BY <1>1, WholeIs
<1>3. PICK m \in Seq(Hits) : m = All /\ m = Markers(scan.hits)
  BY <1>1, <1>2 DEF All, Told
<1>4. DOMAIN m = 1..Len(m) /\ Len(m) \in Nat /\ DOMAIN stream = 1..Len(stream)
  BY <1>1
<1>5. PICK o \in Seq(1..Len(m)) : o = AllExecutes
  BY <1>3, <1>4, OrdGrows DEF AllExecutes
<1>6. o = Chosen([i \in DOMAIN m |-> i], Executes(m)) /\ DOMAIN o = 1..Len(o)
  <2>1. o = Chosen([i \in 1..Len(m) |-> i], Executes(m))
    BY <1>3, <1>5, Zenon DEF AllExecutes, Ord
  <2>2. DOMAIN o = 1..Len(o)
    OBVIOUS
  <2> QED BY <1>4, <2>1, <2>2, Zenon
<1> DEFINE cut == PendingMarker(scan)
           text == {p \in DOMAIN stream : /\ \A i \in DOMAIN m : p <= m[i].start \/ p > m[i].end
                                          /\ cut.kind = "StartedAt" => p <= cut.at}
           screen == {p \in text : OnAlternate(scan, p)}
           region(i) == {p \in DOMAIN stream : /\ p > m[i].end
                                               /\ Enders(m, i) # {} => p <= m[Min(Enders(m, i))].start}
           out(i) == region(i) \cap (text \ screen)
           red(i) == region(i) \cap screen
<1>7. marked = [k \in DOMAIN o |->
        [named |-> Named(m, o[k]), exit |-> ExitOf(m, o[k]), host |-> HostOf(m, o[k]),
         region |-> region(o[k]), output |-> out(o[k]), redrawn |-> red(o[k])]]
  BY <1>1, <1>2, <1>3, <1>6, ZenonT(40) DEF MarkedBlocks
<1>10. InsideOsc(scan) => scan.start \in Nat /\ scan.start = Frontier(stream, Len(stream))
  <2>1. Len(stream) \in 0..Len(stream) /\ Frontier(stream, Len(stream)) \in 0..Len(stream)
    <3>1. Len(stream) \in 0..Len(stream)
      BY <1>1
    <3> QED BY <1>1, <3>1, FrontierStep
  <2> QED BY <1>2, <2>1 DEF Frontier
<1>11. \A p : (cut.kind = "StartedAt" => p <= cut.at) <=> (InsideOsc(scan) => p <= Frontier(stream, Len(stream)))
  BY <1>10 DEF PendingMarker, None
<1>12. \A p \in DOMAIN stream : p \in text <=> InText(p)
  <2> HIDE DEF cut
  <2>1. \A p : InText(p) <=> /\ \A i \in DOMAIN m : p <= m[i].start \/ p > m[i].end
                             /\ cut.kind = "StartedAt" => p <= cut.at
    BY <1>2, <1>3, <1>4, <1>11, Zenon DEF InText
  <2> QED BY <2>1
<1>13. \A p \in DOMAIN stream : p \in text \ screen <=> InText(p) /\ ~On(p)
  <2>1. \A p : On(p) <=> OnAlternate(scan, p)
    BY <1>2, Zenon DEF On, OnAlternate
  <2> HIDE DEF text
  <2> QED BY <1>12, <2>1
<1> HIDE DEF text, screen, out, red
<1>14. ASSUME NEW i PROVE \A p : p \in out(i) <=> p \in region(i) /\ InText(p) /\ ~On(p)
  BY <1>13 DEF out
<1>8. ASSUME NEW k \in 1..Len(o)
      PROVE  marked[k].named = Named(m, o[k]) /\ marked[k].exit = ExitOf(m, o[k])
             /\ marked[k].region = region(o[k]) /\ marked[k].output = out(o[k])
  <2>1. marked[k] = [named |-> Named(m, o[k]), exit |-> ExitOf(m, o[k]), host |-> HostOf(m, o[k]),
         region |-> region(o[k]), output |-> out(o[k]), redrawn |-> red(o[k])]
    BY <1>6, <1>7, Zenon
  <2> HIDE DEF region
  <2> QED BY <2>1
<1>9. marked \in [1..Len(o) -> {marked[k] : k \in 1..Len(o)}]
  <2>1. DOMAIN marked = 1..Len(o)
    BY <1>6, <1>7, Zenon
  <2>2. PICK f : f = marked
    OBVIOUS
  <2>3. f = [k \in 1..Len(o) |-> f[k]]
    BY <1>6, <1>7, <2>2, Zenon
  <2> QED BY <2>2, <2>3
<1>15. \A k \in 1..Len(o) : \A p : p \in marked[k].output <=> p \in marked[k].region /\ InText(p) /\ ~On(p)
  <2> HIDE DEF region
  <2> QED BY <1>8, <1>14
<1> QED BY <1>3, <1>4, <1>5, <1>8, <1>9, <1>15

-----------------------------------------------------------------------------
(* What is kept is in its own Block, before the session ends ...             *)
LEMMA KeptInItsOwnBlock ==
  ASSUME Pumping, Keeps(builder, All, Done(flushed), flushed, excused.splits)
  PROVE  InItsOwnBlock
<1>1. /\ All \in Seq(Hits) /\ WellPlaced(All) /\ Len(stream) \in Nat /\ Reading
      /\ flushed \in Nat /\ flushed <= Len(stream)
  <2>1. Len(stream) \in Nat /\ fed \in 0..Len(stream) /\ flushed \in 0..fed
    BY AllIs DEF Pumping, Reading
  <2> QED BY <2>1, AllIs DEF Pumping
<1>2. PICK m \in Seq(Hits) : m = All
  BY <1>1
<1>3. PICK c \in Nat : c = Done(flushed) /\ c <= Len(m)
  <2>1. Batched
    BY BatchedIs
  <2> QED BY <1>2, <2>1 DEF Batched
<1>4. PICK X : X = excused.splits
  OBVIOUS
<1>5. Ready(builder) /\ Control(builder, m, c) /\ Kept(builder, m, c, flushed, X)
  BY <1>2, <1>3, <1>4 DEF Keeps
<1>6. PICK o \in Seq(1..c) : o = Ord(m, c) /\ Len(o) = Len(builder.blocks)
  BY <1>3, <1>5, OrdGrows DEF Control
<1>7. Len(o) <= Len(AllExecutes) /\ \A k \in 1..Len(o) : AllExecutes[k] = o[k]
  <2>1. Len(m) - c \in Nat /\ c + (Len(m) - c) = Len(m)
    BY <1>3
  <2>2. /\ Len(Ord(m, c)) <= Len(Ord(m, c + (Len(m) - c)))
        /\ \A k \in 1..Len(Ord(m, c)) : Ord(m, c + (Len(m) - c))[k] = Ord(m, c)[k]
    BY <2>1, OrdExtends
  <2> QED BY <1>2, <1>6, <2>1, <2>2 DEF AllExecutes
<1>8. DOMAIN builder.blocks = 1..Len(o) /\ Len(o) \in Nat /\ builder.blocks \in Seq(Blocks)
  BY <1>5, <1>6, BuilderFields DEF Ready
<1>9. ASSUME NEW k \in 1..Len(o) PROVE Captured(k) \subseteq marked[k].region \cup excused.splits
  <2> SUFFICES ASSUME NEW p \in Cap(builder, k), p \notin X PROVE p \in marked[k].region
    BY <1>4 DEF Captured, Cap
  <2>1. p \in Int
    BY <1>5, <1>6, OutputTyped
  <2>2. /\ p <= flushed /\ m[o[k]].end < p
        /\ Open(builder, k) => Clear(m, c, p)
        /\ ~Open(builder, k) => p <= m[Min(Enders(m, o[k]))].start
    BY <1>5, <1>6 DEF Kept
  <2>3. o[k] \in 1..Len(m) /\ m[o[k]].end \in Nat
    <3>1. o[k] \in 1..c
      OBVIOUS
    <3>2. o[k] \in 1..Len(m)
      BY <1>3, <3>1
    <3> QED BY <1>1, <1>2, <3>2 DEF WellPlaced
  <2>4. p \in 1..Len(stream)
    <3>1. p <= Len(stream) /\ Len(stream) \in Nat
      BY <1>1, <2>1, <2>2
    <3> QED BY <2>1, <2>2, <2>3, <3>1
  <2>5. ASSUME Enders(m, o[k]) # {} PROVE p <= m[Min(Enders(m, o[k]))].start
    <3>1. CASE Open(builder, k)
      <4>1. \A e \in Enders(m, o[k]) : e > c
        BY <1>5, <1>6, <3>1 DEF Control
      <4>2. Enders(m, o[k]) \in SUBSET Nat /\ \A e \in Enders(m, o[k]) : e \in 1..Len(m)
        BY DEF Enders
      <4>3. Min(Enders(m, o[k])) \in Enders(m, o[k])
        BY <2>5, <4>2, MinIs
      <4>4. PICK e \in 1..Len(m) : e = Min(Enders(m, o[k])) /\ e > c
        BY <4>1, <4>2, <4>3
      <4>5. e \in (c + 1)..Len(m)
        BY <4>4
      <4> QED BY <2>2, <3>1, <4>4, <4>5 DEF Clear
    <3>2. CASE ~Open(builder, k)
      BY <2>2, <3>2
    <3> QED BY <3>1, <3>2
  <2>6. k \in 1..Len(AllExecutes) /\ AllExecutes[k] = o[k]
    <3>1. Len(AllExecutes) \in Nat
      BY <1>1, MarkedIs
    <3> QED BY <1>7, <1>8, <3>1
  <2>7. p > All[AllExecutes[k]].end
    BY <1>2, <2>1, <2>2, <2>3, <2>6
  <2>8. p \in marked[k].region <=>
                   /\ p \in 1..Len(stream) /\ p > All[AllExecutes[k]].end
                   /\ Enders(All, AllExecutes[k]) # {} => p <= All[Min(Enders(All, AllExecutes[k]))].start
    BY <1>1, <2>6, MarkedIs
  <2> QED BY <1>2, <2>4, <2>5, <2>6, <2>7, <2>8
<1>10. PICK s \in Seq(Seq(Int)) : s = [k \in DOMAIN builder.blocks |-> builder.blocks[k].output]
                                  /\ Len(s) = Len(o) /\ \A k \in 1..Len(o) : s[k] = builder.blocks[k].output
  <2>1. \A k \in 1..Len(o) : builder.blocks[k].output \in Seq(Int)
    BY <1>5, <1>6, OutputTyped
  <2>2. PICK f : f = [k \in 1..Len(o) |-> builder.blocks[k].output]
    OBVIOUS
  <2>3. f \in Seq(Seq(Int)) /\ Len(f) = Len(o) /\ \A k \in 1..Len(o) : f[k] = builder.blocks[k].output
    BY <1>8, <2>1, <2>2
  <2> QED BY <1>8, <2>2, <2>3
<1>11. Ascending(s)
  <2>1. \A k \in 1..Len(o) : Rising(s[k])
    BY <1>5, <1>6, <1>10 DEF Kept
  <2>2. ASSUME NEW k \in 1..Len(o), NEW k2 \in (k + 1)..Len(o)
        PROVE  \A p \in ToSet(s[k]) : \A q \in ToSet(s[k2]) : p < q
    <3>1. k2 \in 1..Len(o)
      BY <1>8
    <3>2. ToSet(s[k]) = Cap(builder, k) /\ ToSet(s[k2]) = Cap(builder, k2)
      BY <1>10, <3>1 DEF Cap
    <3> QED BY <1>5, <1>6, <3>2 DEF Kept
  <2> QED BY <1>10, <2>1, <2>2 DEF Ascending
<1>12. PICK all \in Seq(Int) : all = FlattenSeq(s) /\ Rising(all)
  BY <1>11, FlattenRising
<1>13. \A i \in 1..(Len(all) - 1) : all[i] < all[i + 1]
  <2>1. Len(all) \in Nat
    OBVIOUS
  <2>2. \A i \in 1..(Len(all) - 1) : i \in 1..Len(all) /\ i + 1 \in 1..Len(all) /\ i < i + 1
    BY <2>1
  <2> QED BY <1>12, <2>2 DEF Rising
<1>14. LET whole == FlattenSeq([k \in DOMAIN builder.blocks |-> builder.blocks[k].output])
       IN \A i \in 1..(Len(whole) - 1) : whole[i] < whole[i + 1]
  BY <1>10, <1>12, <1>13
<1> QED BY <1>8, <1>9, <1>14 DEF InItsOwnBlock

(* ... and stays there when it does, with every Block the stream marks ended *)
(* as the stream says.                                                       *)
LEMMA EndedAsMarked ==
  ASSUME Pumping, SessionEnds, Keeps(builder, All, Done(flushed), flushed, excused.splits)
  PROVE  BlocksAsMarked' /\ InItsOwnBlock'
<1>1. All \in Seq(Hits) /\ flushed = Len(stream) /\ Reading
  BY AllIs DEF Pumping, SessionEnds
<1>2. PICK m \in Seq(Hits) : m = All
  BY <1>1
<1>3. PICK c \in Nat : c = Len(m) /\ c = Done(flushed)
  <2>1. Len(m) \in Nat
    OBVIOUS
  <2> QED BY <1>1, <1>2, <2>1 DEF Done, All
<1>4. Ready(builder) /\ Control(builder, m, c)
  BY <1>2, <1>3 DEF Keeps
<1>5. PICK f : f = FinishCommand(builder, "code")
  OBVIOUS
<1>6. Ready(f) /\ Len(f.blocks) = Len(builder.blocks) /\ Settles(builder, f, TRUE, "code")
  <2>1. "code" \in Exits
    BY DEF Exits
  <2> QED BY <1>4, <1>5, <2>1, FinishIs
<1>7. builder'.blocks = f.blocks
  <2>1. builder' = [f EXCEPT !.phase = "Unsynced"] /\ "Unsynced" \in Phases
    BY <1>5 DEF SessionEnds, Phases
  <2>2. LET t == [f EXCEPT !.phase = "Unsynced"]
        IN  /\ Ready(t) /\ t.meta = f.meta /\ t.running = f.running /\ t.carry = f.carry
            /\ t.alternate = f.alternate /\ t.blocks = f.blocks
    BY <1>6, <2>1, PhaseOnly
  <2> QED BY <2>1, <2>2
<1>8. marked' = marked /\ excused' = excused
  BY DEF SessionEnds
<1>9. PICK n \in Nat : n = Len(builder.blocks)
  BY <1>4, BuilderFields DEF Ready
<1>10. DOMAIN builder.blocks = 1..n /\ DOMAIN builder'.blocks = 1..n /\ Len(builder'.blocks) = n
  <2>1. builder.blocks \in Seq(Blocks) /\ f.blocks \in Seq(Blocks)
    BY <1>4, <1>6, BuilderFields DEF Ready
  <2> QED BY <1>6, <1>7, <1>9, <2>1
<1>11. \A k \in 1..n :
         /\ builder'.blocks[k].named = builder.blocks[k].named
         /\ builder'.blocks[k].output = builder.blocks[k].output
         /\ builder'.blocks[k].exit = IF Open(builder, k) THEN "code" ELSE builder.blocks[k].exit
  BY <1>6, <1>7, <1>9 DEF Settles, Open
<1>12. PICK o \in Seq(1..c) : o = AllExecutes /\ Len(o) = n
  BY <1>2, <1>3, <1>4, <1>9, OrdGrows DEF AllExecutes, Control
<1>13. ASSUME NEW k \in 1..n
       PROVE builder'.blocks[k].named = marked[k].named /\ builder'.blocks[k].exit = marked[k].exit
  <2>1. marked[k].named = Named(m, o[k]) /\ marked[k].exit = ExitOf(m, o[k])
    BY <1>1, <1>2, <1>12, MarkedIs
  <2>2. builder.blocks[k].named <=> Named(m, o[k])
    BY <1>2, <1>3, <1>4, <1>9, <1>12 DEF Control, AllExecutes
  <2>3. builder.blocks[k].named \in BOOLEAN
    <3>1. builder.blocks[k] \in Blocks
      BY <1>4, <1>9, BuilderFields DEF Ready
    <3> QED BY <3>1, BlockFields
  <2>4. Named(m, o[k]) \in BOOLEAN
    BY DEF Named
  <2>5. builder'.blocks[k].named = marked[k].named
    BY <1>11, <2>1, <2>2, <2>3, <2>4
  <2>6. CASE Open(builder, k)
    <3>1. \A e \in Enders(m, o[k]) : e > c
      BY <1>2, <1>3, <1>4, <1>9, <1>12, <2>6 DEF Control, AllExecutes
    <3>2. Enders(m, o[k]) = {}
      <4>1. \A e \in Enders(m, o[k]) : e \in 1..Len(m)
        BY DEF Enders
      <4> QED BY <1>3, <3>1, <4>1
    <3> QED BY <1>11, <2>1, <2>5, <2>6, <3>2 DEF ExitOf
  <2>7. CASE ~Open(builder, k)
    <3>1. builder.blocks[k].exit = ExitOf(m, o[k])
      BY <1>2, <1>3, <1>4, <1>9, <1>12, <2>7 DEF Control, AllExecutes
    <3> QED BY <1>11, <2>1, <2>5, <2>7, <3>1
  <2> QED BY <2>6, <2>7
<1>14. Len(marked) = n
  <2>1. marked \in [1..n -> {marked[k] : k \in 1..n}]
    BY <1>1, <1>12, MarkedIs
  <2> QED BY <2>1
<1>15. BlocksAsMarked'
  <2>1. Len(builder'.blocks) = Len(marked')
    BY <1>8, <1>10, <1>14
  <2>2. \A k \in DOMAIN builder'.blocks : /\ builder'.blocks[k].named = marked'[k].named
                                         /\ builder'.blocks[k].exit = marked'[k].exit
    BY <1>8, <1>10, <1>13
  <2> QED BY <2>1, <2>2 DEF BlocksAsMarked
<1>16. InItsOwnBlock'
  <2>1. InItsOwnBlock
    BY KeptInItsOwnBlock
  <2>2. \A k \in DOMAIN builder'.blocks : ToSet(builder'.blocks[k].output) \subseteq marked'[k].region \cup excused'.splits
    BY <1>8, <1>10, <1>11, <2>1 DEF InItsOwnBlock, Captured
  <2>3. [k \in DOMAIN builder'.blocks |-> builder'.blocks[k].output] = [k \in DOMAIN builder.blocks |-> builder.blocks[k].output]
    BY <1>10, <1>11
  <2>4. LET all == FlattenSeq([k \in DOMAIN builder'.blocks |-> builder'.blocks[k].output])
        IN \A i \in 1..(Len(all) - 1) : all[i] < all[i + 1]
    BY <2>1, <2>3 DEF InItsOwnBlock
  <2> QED BY <2>2, <2>4 DEF InItsOwnBlock, Captured
<1> QED BY <1>15, <1>16

-----------------------------------------------------------------------------
(* The invariant: the pump's, and what the builder has kept of the stream.   *)
Building ==
  /\ ~ended => Keeps(builder, All, Done(flushed), flushed, excused.splits)
  /\ ended => flushed = Len(stream) /\ BlocksAsMarked /\ InItsOwnBlock

LEMMA BuildingFirst == Init => Building
<1> SUFFICES ASSUME Init PROVE Building
  OBVIOUS
<1>1. Pumping /\ All \in Seq(Hits) /\ stream \in Seq(Tokens)
  BY PumpingFirst, AllIs DEF Pumping
<1>2. PICK m \in Seq(Hits) : m = All
  BY <1>1
<1>3. flushed = 0 /\ ended = FALSE /\ builder = NewBuilder /\ excused.splits = {}
  BY DEF Init
<1>4. Done(flushed) = 0
  <2>1. At(stream, 0) = NewScanner /\ NewScanner.hits = <<>>
    BY <1>1, WholeIs, NewIs
  <2>2. Told(stream, 0) = <<>>
    BY <2>1, ChosenEmpty DEF Told, Markers
  <2> QED BY <1>3, <2>2 DEF Done
<1>5. builder = [phase |-> "Unsynced", meta |-> FALSE, host |-> "local", blocks |-> <<>>, running |-> FALSE,
                 alternate |-> FALSE, redraws |-> 0, carry |-> <<>>]
  BY <1>3 DEF NewBuilder
<1>6. Ready(builder)
  <2>1. <<>> \in Seq(Blocks) /\ <<>> \in Seq(Int) /\ 0 \in Nat /\ "Unsynced" \in Phases /\ "local" \in Hosts
    BY DEF Phases, Hosts
  <2> QED BY <1>5, <2>1 DEF Ready, Builders
<1>7. builder.blocks = <<>> /\ builder.carry = <<>> /\ builder.meta = FALSE /\ Len(builder.blocks) = 0
  BY <1>5
<1>8. Control(builder, m, 0)
  <2>1. Ord(m, 0) = <<>>
    BY OrdGrows
  <2>2. ~Named(m, 0 + 1)
    BY DEF Named
  <2> QED BY <1>7, <2>1, <2>2 DEF Control
<1>9. Kept(builder, m, 0, 0, {})
  <2>1. Car(builder) = {} /\ Rising(builder.carry)
    BY <1>7, NothingInEmpty DEF Car
  <2>2. 1..0 = {}
    OBVIOUS
  <2> QED BY <1>7, <2>1, <2>2 DEF Kept
<1> QED BY <1>2, <1>3, <1>4, <1>6, <1>8, <1>9 DEF Building, Keeps

(* Every step of the pump keeps both.                                        *)
LEMMA BuildingStep == ASSUME Pumping, Building, [Next]_vars PROVE Building'
<1>1. CASE \E n \in 1..Len(stream) : Read(n)
  <2>1. UNCHANGED <<stream, marked, flushed, builder, ended, excused>>
    BY <1>1 DEF Read
  <2> QED BY <2>1 DEF Building, All, Done, Keeps, BlocksAsMarked, InItsOwnBlock, Captured
<1>2. CASE Flush
  <2>1. stream' = stream /\ flushed' = fed /\ ended' = ended /\ fed > flushed
    BY <1>2 DEF Flush
  <2>2. ~ended
    <3>1. fed \in 0..Len(stream) /\ flushed \in 0..fed /\ Len(stream) \in Nat
      BY AllIs DEF Pumping, Reading
    <3> QED BY <2>1, <3>1 DEF Building
  <2>3. Keeps(builder', All, Done(fed), fed, excused'.splits)
    BY <1>2, <2>2, BatchKept DEF Building
  <2>4. All' = All /\ Done(flushed)' = Done(fed)
    BY <2>1 DEF All, Done
  <2>5. Keeps(builder, All, Done(flushed), flushed, excused.splits)'
    <3>1. Keeps(builder, All, Done(flushed), flushed, excused.splits)' <=>
            Keeps(builder', All', Done(flushed)', flushed', excused'.splits)
      BY DEF Keeps
    <3> QED BY <2>1, <2>3, <2>4, <3>1
  <2> QED BY <2>1, <2>2, <2>5 DEF Building
<1>3. CASE SessionEnds
  <2>1. ~ended /\ ended' = TRUE /\ flushed' = flushed /\ stream' = stream /\ flushed = Len(stream)
    BY <1>3 DEF SessionEnds
  <2>2. BlocksAsMarked' /\ InItsOwnBlock'
    BY <1>3, <2>1, EndedAsMarked DEF Building
  <2> QED BY <2>1, <2>2 DEF Building
<1>4. CASE UNCHANGED vars
  BY <1>4 DEF vars, Building, All, Done, Keeps, BlocksAsMarked, InItsOwnBlock, Captured
<1> QED BY <1>1, <1>2, <1>3, <1>4 DEF Next

LEMMA PumpingStep == ASSUME Pumping, [Next]_vars PROVE Pumping'
<1>1. CASE \E n \in 1..Len(stream) : Read(n)
  <2>1. PICK n \in 1..Len(stream) : Read(n)
    BY <1>1
  <2>2. n \in Nat
    OBVIOUS
  <2> QED BY <2>1, <2>2, PumpingRead
<1> QED BY <1>1, PumpingFlush, PumpingEnds DEF Next

(* The invariant of the pump and the builder: the pump scans the stream as   *)
(* one scan of the whole would, and the builder has handled the markers that *)
(* scan shows by the last flush and kept the bytes between them in order.    *)
THEOREM BuildingAlways == Spec => [](Pumping /\ Building)
<1>1. Init => Pumping /\ Building
  BY PumpingFirst, BuildingFirst
<1>2. Pumping /\ Building /\ [Next]_vars => (Pumping /\ Building)'
  BY PumpingStep, BuildingStep
<1> QED BY <1>1, <1>2, PTL DEF Spec

(* Every command the stream marks has one Block, with the name and the end    *)
(* the stream says, however reads and batches cut markers: BlockBuilder's    *)
(* consume, the tap and the scanner lose, double and misplace none.          *)
THEOREM EveryBlockAsMarked == Spec => []BlocksAsMarked
<1>1. Building => BlocksAsMarked
  BY DEF Building, BlocksAsMarked
<1> QED BY <1>1, BuildingAlways, PTL

(* No byte reaches a Block of another command or a Block twice, and none out  *)
(* of order, but for what a marker split over two batches may have let in.   *)
THEOREM NothingMoved == Spec => []InItsOwnBlock
<1>1. Pumping /\ Building => InItsOwnBlock
  BY KeptInItsOwnBlock DEF Building
<1> QED BY <1>1, BuildingAlways, PTL

-----------------------------------------------------------------------------
(* The pump's alternate_screen is what the changes of screen read so far     *)
(* make it, and a batch that is not switched has none of them.               *)
Screened ==
  /\ alternate <=> /\ Screens(stream, fed) # <<>>
                   /\ Screens(stream, fed)[Len(Screens(stream, fed))].enabled
  /\ ~switched => Len(Screens(stream, fed)) = Len(Screens(stream, flushed))

(* A longer prefix shows what a shorter one does, and more only after it.    *)
LEMMA ScreensInAll ==
  ASSUME NEW s \in Seq(Tokens), NEW n \in 0..Len(s), NEW n2 \in n..Len(s)
  PROVE  /\ Len(Screens(s, n)) <= Len(Screens(s, n2))
         /\ \A i \in 1..Len(Screens(s, n)) : Screens(s, n2)[i] = Screens(s, n)[i]
         /\ \A i \in (Len(Screens(s, n)) + 1)..Len(Screens(s, n2)) : Screens(s, n2)[i].end > n
         /\ Frontier(s, n2) = Frontier(s, n) \/ Frontier(s, n2) >= n
         /\ \A i \in (Len(Told(s, n)) + 1)..Len(Told(s, n2)) :
              Told(s, n2)[i].start = Frontier(s, n) \/ Told(s, n2)[i].start >= n
<1>1. PICK k \in 0..(Len(s) - n) : n2 = n + k
  <2>1. n2 - n \in 0..(Len(s) - n) /\ n2 = n + (n2 - n)
    OBVIOUS
  <2> QED BY <2>1
<1> QED BY <1>1, ScreensGrow, FrontierJumps

(* Nothing is read yet, and the screen is the normal one.                    *)
LEMMA ScreenedFirst == Init => Screened
<1> SUFFICES ASSUME Init PROVE Screened
  OBVIOUS
<1>1. stream \in Seq(Tokens) /\ fed = 0 /\ flushed = 0 /\ alternate = FALSE
  BY StreamsAssumption DEF Init
<1>2. Screens(stream, 0) = <<>>
  BY <1>1, WholeIs, NewIs DEF Screens
<1> QED BY <1>1, <1>2 DEF Screened

(* A read adds its changes of screen, and is noted if it has any.            *)
LEMMA ScreenedRead ==
  ASSUME Pumping, Screened, NEW n \in 1..Len(stream), Read(n)
  PROVE  Screened'
<1>1. stream \in Seq(Tokens) /\ stream' = stream /\ flushed' = flushed
  BY AllIs DEF Pumping, Read
<1>2. n \in 1..(Len(stream) - fed) /\ fed' = fed + n /\ Len(stream) \in Nat
  BY <1>1 DEF Read
<1>3. fed \in 0..Len(stream) /\ flushed \in 0..fed
  BY DEF Pumping, Reading
<1>4. /\ fed + n \in fed..Len(stream) /\ fed + n \in 0..Len(stream) /\ fed + n <= Len(stream)
      /\ fed \in Nat /\ n \in Nat
  BY <1>2, <1>3
<1>5. PICK t \in Scanners :
        /\ t = FeedIndexed(scanner, SubSeq(stream, fed + 1, fed + n))
        /\ Shows(stream, fed, t.modes, n)
  BY <1>1, <1>4, ReadMatches DEF Pumping, InStep
<1>6. /\ alternate' = IF t.modes = <<>> THEN alternate ELSE Last(t.modes).enabled
      /\ switched' = (switched \/ t.modes # <<>>)
  BY <1>5 DEF Read
<1>7. PICK m \in Seq(Modes) : m = t.modes
  BY ScannerFields
<1>8. PICK w \in Seq(Modes) : w = Screens(stream, fed)
  BY <1>1, <1>3, ScreensTyped
<1>9. PICK u \in Seq(Modes) : u = Screens(stream, fed + n)
  BY <1>1, <1>4, ScreensTyped
<1>10. /\ Len(u) = Len(w) + Len(m) /\ Len(w) \in Nat /\ Len(m) \in Nat
       /\ \A i \in 1..Len(m) : u[Len(w) + i].enabled <=> m[i].enabled
       /\ \A i \in 1..Len(w) : u[i] = w[i]
  BY <1>1, <1>3, <1>4, <1>5, <1>7, <1>8, <1>9, ScreensInAll DEF Shows
<1>11. alternate' <=> u # <<>> /\ u[Len(u)].enabled
  <2>1. CASE m = <<>>
    <3>1. Len(u) = Len(w) /\ (u # <<>> <=> w # <<>>)
      BY <1>10, <2>1
    <3>2. w # <<>> => u[Len(u)] = w[Len(w)]
      BY <1>10, <3>1
    <3>3. alternate <=> w # <<>> /\ w[Len(w)].enabled
      BY <1>8, Zenon DEF Screened
    <3> QED BY <1>6, <1>7, <2>1, <3>1, <3>2, <3>3
  <2>2. CASE m # <<>>
    <3>1. Len(m) \in 1..Len(m) /\ u # <<>> /\ Len(u) = Len(w) + Len(m)
      BY <1>10, <2>2
    <3>2. u[Len(u)].enabled <=> m[Len(m)].enabled
      BY <1>10, <3>1
    <3>3. alternate' = m[Len(m)].enabled
      BY <1>6, <1>7, <2>2 DEF Last
    <3> QED BY <3>1, <3>2, <3>3, Zenon
  <2> QED BY <2>1, <2>2
<1>12. ~switched' => Len(u) = Len(Screens(stream, flushed))
  <2>1. ASSUME ~switched' PROVE ~switched /\ m = <<>>
    BY <1>6, <1>7, <2>1
  <2>2. ~switched => Len(w) = Len(Screens(stream, flushed))
    BY <1>8 DEF Screened
  <2>3. m = <<>> => Len(u) = Len(w)
    BY <1>10
  <2> QED BY <2>1, <2>2, <2>3
<1> QED BY <1>1, <1>2, <1>9, <1>11, <1>12 DEF Screened

(* Every step keeps the screen in step with the stream.                      *)
LEMMA ScreenedStep == ASSUME Pumping, Screened, [Next]_vars PROVE Screened'
<1>1. ASSUME NEW n \in 1..Len(stream), Read(n) PROVE Screened'
  BY <1>1, ScreenedRead
<1>2. CASE Flush
  BY <1>2 DEF Flush, Screened
<1>3. CASE SessionEnds \/ UNCHANGED vars
  BY <1>3 DEF SessionEnds, vars, batchVars, Screened
<1> QED BY <1>1, <1>2, <1>3 DEF Next

-----------------------------------------------------------------------------
(* Which screen a byte was written to, when its batch changes none.          *)
LEMMA OnIs ==
  ASSUME Pumping, Screened, ~switched, NEW p \in Int, Frontier(stream, flushed) < p, p <= fed
  PROVE  On(p) <=> alternate
<1>1. stream \in Seq(Tokens) /\ Len(stream) \in Nat
  BY AllIs DEF Pumping
<1>2. fed \in 0..Len(stream) /\ flushed \in 0..fed
  BY DEF Pumping, Reading
<1>3. /\ flushed \in 0..Len(stream) /\ Len(stream) \in flushed..Len(stream) /\ Len(stream) \in fed..Len(stream)
      /\ fed \in flushed..Len(stream) /\ Len(stream) \in 0..Len(stream)
  BY <1>1, <1>2
<1>4. PICK w \in Seq(Modes) : w = Screens(stream, Len(stream))
  BY <1>1, <1>3, ScreensTyped
<1>5. PICK v \in Seq(Modes) : v = Screens(stream, fed)
  BY <1>1, <1>2, ScreensTyped
<1>6. PICK c \in Nat : c = Len(v)
  OBVIOUS
<1>7. c = Len(Screens(stream, flushed))
  BY <1>5, <1>6 DEF Screened
<1>8. /\ c <= Len(w) /\ Len(w) \in Nat /\ \A i \in 1..c : w[i] = v[i]
      /\ \A i \in (c + 1)..Len(w) : w[i].end > fed
  <2>1. /\ Len(Screens(stream, fed)) <= Len(Screens(stream, Len(stream)))
        /\ \A i \in 1..Len(Screens(stream, fed)) : Screens(stream, Len(stream))[i] = Screens(stream, fed)[i]
        /\ \A i \in (Len(Screens(stream, fed)) + 1)..Len(Screens(stream, Len(stream))) :
             Screens(stream, Len(stream))[i].end > fed
    BY <1>1, <1>2, <1>3, ScreensInAll
  <2>2. Len(w) \in Nat
    OBVIOUS
  <2> QED BY <1>4, <1>5, <1>6, <2>1, <2>2
<1>9. \A i \in 1..c : w[i].end <= Frontier(stream, flushed)
  <2>1. \A i \in 1..c : w[i] = Screens(stream, flushed)[i]
    BY <1>1, <1>3, <1>4, <1>7, ScreensInAll
  <2>2. \A i \in 1..c : Screens(stream, flushed)[i].end <= Frontier(stream, flushed)
    BY <1>1, <1>3, <1>7, ScreensPlaced
  <2> QED BY <2>1, <2>2
<1>10. \A i \in 1..Len(w) : w[i].end \in Int
  <2>1. \A x \in Modes : x.end \in Int
    BY DEF Modes
  <2>2. \A i \in 1..Len(w) : w[i] \in Modes
    OBVIOUS
  <2> QED BY <2>1, <2>2
<1>11. Frontier(stream, flushed) \in Int
  BY <1>1, <1>3, FrontierStep
<1>12. \A i \in 1..Len(w) : w[i].end < p <=> i <= c
  <2> SUFFICES ASSUME NEW i \in 1..Len(w) PROVE w[i].end < p <=> i <= c
    OBVIOUS
  <2>1. CASE i <= c
    <3>1. i \in 1..c
      BY <2>1
    <3>2. w[i].end <= Frontier(stream, flushed) /\ w[i].end \in Int
      BY <1>9, <1>10, <3>1
    <3> QED BY <1>11, <2>1, <3>2
  <2>2. CASE i > c
    <3>1. i \in (c + 1)..Len(w)
      BY <1>8, <2>2
    <3>2. w[i].end > fed /\ w[i].end \in Int /\ fed \in Int
      BY <1>2, <1>8, <1>10, <3>1
    <3> QED BY <2>2, <3>2
  <2> QED BY <2>1, <2>2
<1> DEFINE earlier == {i \in 1..Len(w) : w[i].end < p}
<1>13. On(p) <=> earlier # {} /\ w[Max(earlier)].enabled
  <2>1. DOMAIN w = 1..Len(w)
    OBVIOUS
  <2> QED BY <1>4, <2>1 DEF On, OnAlternate, Screens
<1>14. earlier = 1..c
  <2>1. \A i \in 1..c : i \in 1..Len(w) /\ i <= c
    BY <1>8
  <2>2. \A i \in 1..Len(w) : i <= c => i \in 1..c
    OBVIOUS
  <2> QED BY <1>12, <2>1, <2>2
<1> HIDE DEF earlier
<1>15. CASE c = 0
  <2>1. v = <<>> /\ 1..c = {}
    <3>1. Len(v) = 0
      BY <1>6, <1>15
    <3>2. v = <<>>
      BY <3>1, EmptySeq
    <3>3. 1..0 = {}
      OBVIOUS
    <3> QED BY <1>15, <3>2, <3>3
  <2>2. ~alternate
    BY <1>5, <2>1 DEF Screened
  <2> QED BY <1>13, <1>14, <2>1, <2>2
<1>16. CASE c > 0
  <2>1. c \in 1..c /\ \A y \in 1..c : c >= y /\ y \in Int
    BY <1>16
  <2>2. Max(1..c) = c
    <3>1. \A x \in 1..c : (\A y \in 1..c : x >= y) => x = c
      BY <2>1
    <3> QED BY <2>1, <3>1 DEF Max
  <2>3. w[c] = v[c] /\ v # <<>>
    BY <1>6, <1>8, <1>16, <2>1
  <2>4. alternate <=> v[c].enabled
    BY <1>5, <1>6, <2>3 DEF Screened
  <2> QED BY <1>13, <1>14, <2>1, <2>2, <2>3, <2>4
<1> QED BY <1>15, <1>16

-----------------------------------------------------------------------------
(* A byte that the builder has dealt with: it is captured by the Block whose *)
(* output it is, and by no other.                                            *)
Settled(b, p) == \A k \in 1..Len(AllExecutes) : p \in marked[k].output <=> k <= Len(b.blocks) /\ p \in Cap(b, k)

(* No Block of b has the byte p yet.                                         *)
Uncaptured(b, p) == \A k \in 1..Len(b.blocks) : p \notin Cap(b, k)

(* The Blocks the first h markers start are the first of the whole.          *)
LEMMA OrdFirst ==
  ASSUME Reading, NEW h, Handled(All, h)
  PROVE  /\ Ord(All, h) \in Seq(1..h) /\ Len(Ord(All, h)) <= Len(AllExecutes) /\ Len(AllExecutes) \in Nat
         /\ \A k \in 1..Len(Ord(All, h)) : AllExecutes[k] = Ord(All, h)[k]
         /\ \A k \in (Len(Ord(All, h)) + 1)..Len(AllExecutes) : AllExecutes[k] > h
<1>1. PICK m \in Seq(Hits) : m = All
  BY DEF Handled
<1>2. h \in Nat /\ h <= Len(m) /\ Len(m) \in Nat
  BY <1>1 DEF Handled
<1>3. Len(m) - h \in Nat /\ h + (Len(m) - h) = Len(m)
  BY <1>2
<1>4. AllExecutes \in Seq(1..Len(m))
  BY <1>1, <1>2, OrdGrows DEF AllExecutes
<1>5. /\ Len(Ord(m, h)) <= Len(Ord(m, h + (Len(m) - h)))
      /\ \A i \in 1..Len(Ord(m, h)) : Ord(m, h + (Len(m) - h))[i] = Ord(m, h)[i]
      /\ \A i \in (Len(Ord(m, h)) + 1)..Len(Ord(m, h + (Len(m) - h))) : Ord(m, h + (Len(m) - h))[i] > h
  BY <1>2, <1>3, OrdExtends
<1>6. Ord(m, h + (Len(m) - h)) = AllExecutes
  BY <1>1, <1>3 DEF AllExecutes
<1>7. Ord(m, h) \in Seq(1..h)
  BY <1>2, OrdGrows
<1>8. Len(AllExecutes) \in Nat
  BY <1>4
<1> QED BY <1>1, <1>5, <1>6, <1>7, <1>8

(* A byte after the markers handled and before the others belongs to the     *)
(* Block that is open, if one is.                                            *)
LEMMA InRegion ==
  ASSUME Reading, NEW h, Handled(All, h), NEW b, Ready(b), Control(b, All, h),
         NEW p \in 1..Len(stream), Past(All, h, p), Clear(All, h, p), NEW k \in 1..Len(AllExecutes)
  PROVE  p \in marked[k].region <=> k <= Len(b.blocks) /\ Open(b, k)
<1>1. PICK m \in Seq(Hits) : m = All
  BY DEF Handled
<1>2. h \in Nat /\ h <= Len(m) /\ Len(m) \in Nat
  BY <1>1 DEF Handled
<1>3. \A i \in 1..Len(m) : m[i].start \in Nat /\ m[i].end \in Nat /\ m[i].start < m[i].end
  BY <1>1 DEF Handled, WellPlaced
<1>4. PICK o \in Seq(1..h) : /\ o = Ord(m, h) /\ Len(o) = Len(b.blocks) /\ Len(o) <= Len(AllExecutes)
                             /\ \A i \in 1..Len(o) : AllExecutes[i] = o[i]
                             /\ \A i \in (Len(o) + 1)..Len(AllExecutes) : AllExecutes[i] > h
  BY <1>1, OrdFirst DEF Control
<1>5. AllExecutes[k] \in 1..Len(m) /\ p \in Int /\ k \in Nat /\ Len(AllExecutes) \in Nat /\ Len(o) \in Nat
  <2>1. AllExecutes \in Seq(1..Len(m))
    BY <1>1, <1>2, OrdGrows DEF AllExecutes
  <2>2. AllExecutes[k] \in 1..Len(m)
    BY <2>1
  <2> QED BY <2>1, <2>2
<1>6. PICK i \in 1..Len(m) : i = AllExecutes[k]
  BY <1>5
<1>7. p \in marked[k].region <=> p > m[i].end /\ (Enders(m, i) # {} => p <= m[Min(Enders(m, i))].start)
  BY <1>1, <1>6, MarkedIs
<1>8. Enders(m, i) # {} => Min(Enders(m, i)) \in Enders(m, i) /\ \A e \in Enders(m, i) : Min(Enders(m, i)) <= e
  <2>1. Enders(m, i) \in SUBSET Nat
    BY DEF Enders
  <2> QED BY <2>1, MinIs
<1>9. \A e \in Enders(m, i) : e \in 1..Len(m)
  BY DEF Enders
<1>10. CASE k <= Len(o)
  <2>1. k \in 1..Len(o) /\ k \in 1..Len(b.blocks) /\ i = o[k]
    BY <1>4, <1>5, <1>6, <1>10
  <2>2. i \in 1..h
    <3>1. k \in 1..Len(o)
      BY <2>1
    <3>2. o[k] \in 1..h
      BY <3>1, ElementOfSeq
    <3> QED BY <2>1, <3>2
  <2>3. p > m[i].end
    BY <1>1, <1>3, <1>5, <2>2 DEF Past
  <2>4. CASE Open(b, k)
    <3>1. \A e \in Enders(m, i) : e > h
      BY <1>1, <1>4, <2>1, <2>4 DEF Control
    <3>2. \A e \in Enders(m, i) : e \in (h + 1)..Len(m)
      BY <1>2, <1>9, <3>1
    <3>3. \A e \in Enders(m, i) : p <= m[e].start
      BY <1>1, <3>2 DEF Clear
    <3> QED BY <1>4, <1>7, <1>8, <1>10, <2>3, <2>4, <3>3
  <2>5. CASE ~Open(b, k)
    <3>1. PICK e \in Enders(m, i) : e <= h
      BY <1>1, <1>4, <2>1, <2>5 DEF Control
    <3>2. PICK l \in 1..h : l = Min(Enders(m, i))
      BY <1>2, <1>8, <1>9, <3>1
    <3>3. m[l].end < p /\ l \in 1..Len(m)
      BY <1>1, <1>2, <3>2 DEF Past
    <3>4. ~(p <= m[l].start)
      BY <1>3, <1>5, <3>3
    <3> QED BY <1>7, <2>5, <3>1, <3>2, <3>4
  <2> QED BY <2>4, <2>5
<1>11. CASE k > Len(o)
  <2>1. k \in (Len(o) + 1)..Len(AllExecutes)
    BY <1>5, <1>11
  <2>2. i \in (h + 1)..Len(m)
    BY <1>2, <1>4, <1>6, <2>1
  <2>3. p <= m[i].start
    BY <1>1, <2>2 DEF Clear
  <2>4. ~(p > m[i].end)
    BY <1>3, <1>5, <2>3
  <2>5. ~(k <= Len(b.blocks))
    BY <1>4, <1>5, <1>11
  <2> QED BY <1>7, <2>4, <2>5
<1> QED BY <1>5, <1>10, <1>11

-----------------------------------------------------------------------------
(* What settles a byte, and what keeps it so.                                *)
LEMMA SettledTakes ==
  ASSUME NEW b, Ready(b), NEW t, NEW y \in Seq(Int), Takes(b, t, y), NEW p, p \notin ToSet(y)
  PROVE  /\ Settled(b, p) => Settled(t, p)
         /\ Uncaptured(b, p) => Uncaptured(t, p)
<1>1. Len(t.blocks) = Len(b.blocks) /\ Len(b.blocks) \in Nat
  BY OutputTyped DEF Takes
<1>2. \A k \in 1..Len(b.blocks) : p \in Cap(t, k) <=> p \in Cap(b, k)
  BY CapTakes
<1>3. \A k \in 1..Len(AllExecutes) : k <= Len(b.blocks) => k \in 1..Len(b.blocks)
  BY <1>1
<1> QED BY <1>1, <1>2, <1>3 DEF Settled, Uncaptured

(* The open Block captures a byte of text on the normal screen.              *)
LEMMA SettledCaptured ==
  ASSUME Reading, NEW h, Handled(All, h), NEW b, Ready(b), Control(b, All, h),
         NEW t, NEW y \in Seq(Int), Takes(b, t, y), NEW p \in 1..Len(stream), p \in ToSet(y),
         Uncaptured(b, p), Past(All, h, p), Clear(All, h, p), InText(p), On(p) <=> b.alternate
  PROVE  Settled(t, p)
<1>1. Len(t.blocks) = Len(b.blocks) /\ Len(b.blocks) \in Nat
  BY OutputTyped DEF Takes
<1>2. ASSUME NEW k \in 1..Len(AllExecutes)
      PROVE  p \in marked[k].output <=> k <= Len(t.blocks) /\ p \in Cap(t, k)
  <2>1. p \in marked[k].region <=> k <= Len(b.blocks) /\ Open(b, k)
    BY InRegion
  <2>2. p \in marked[k].output <=> p \in marked[k].region /\ ~b.alternate
    <3>1. p \in marked[k].output <=> p \in marked[k].region /\ InText(p) /\ ~On(p)
      BY MarkedIs
    <3> QED BY <3>1
  <2>3. k <= Len(b.blocks) => (p \in Cap(t, k) <=> Open(b, k) /\ ~b.alternate)
    <3> SUFFICES ASSUME k <= Len(b.blocks) PROVE p \in Cap(t, k) <=> Open(b, k) /\ ~b.alternate
      OBVIOUS
    <3>1. k \in 1..Len(b.blocks)
      BY <1>1
    <3>2. Cap(t, k) = IF Open(b, k) /\ ~b.alternate THEN Cap(b, k) \cup ToSet(y) ELSE Cap(b, k)
      BY <3>1, CapTakes
    <3>3. p \notin Cap(b, k)
      BY <3>1 DEF Uncaptured
    <3> QED BY <3>2, <3>3
  <2> QED BY <1>1, <2>1, <2>2, <2>3
<1> QED BY <1>2 DEF Settled

(* A marker changes the Blocks there are, and the output of none.            *)
LEMMA SettledHandles ==
  ASSUME NEW b, Ready(b), NEW t, Ready(t), NEW kind, Handles(b, t, kind), NEW p
  PROVE  /\ Settled(b, p) => Settled(t, p)
         /\ Uncaptured(b, p) => Uncaptured(t, p)
<1>1. /\ Len(t.blocks) \in Nat /\ Len(b.blocks) \in Nat
      /\ Len(t.blocks) = Len(b.blocks) + IF kind = "CommandExecuted" THEN 1 ELSE 0
  BY OutputTyped DEF Handles
<1>2. \A k \in 1..Len(b.blocks) : Cap(t, k) = Cap(b, k)
  BY DEF Handles, Settles, Cap
<1>3. \A k \in 1..Len(t.blocks) : k \in 1..Len(b.blocks) \/ (k = Len(b.blocks) + 1 /\ kind = "CommandExecuted")
  <2>1. CASE kind = "CommandExecuted"
    BY <1>1, <2>1
  <2>2. CASE kind # "CommandExecuted"
    BY <1>1, <2>2
  <2> QED BY <2>1, <2>2
<1>4. \A k \in 1..Len(t.blocks) : k \notin 1..Len(b.blocks) => Cap(t, k) = {}
  BY <1>3, NothingInEmpty DEF Handles, Cap
<1>a. PICK n \in Nat : n = Len(b.blocks)
  BY <1>1
<1>b. PICK l \in Nat : l = Len(t.blocks) /\ n <= l
  <2>1. Len(t.blocks) = n \/ Len(t.blocks) = n + 1
    <3>1. CASE kind = "CommandExecuted"
      BY <1>1, <1>a, <3>1
    <3>2. CASE kind # "CommandExecuted"
      BY <1>1, <1>a, <3>2
    <3> QED BY <3>1, <3>2
  <2>2. n <= n + 1 /\ n + 1 \in Nat
    OBVIOUS
  <2> QED BY <2>1, <2>2
<1>5. \A k \in 1..Len(b.blocks) : k \in 1..Len(t.blocks)
  <2>1. \A k \in 1..n : k \in 1..l
    BY <1>b
  <2> QED BY <1>a, <1>b, <2>1, Zenon
<1>6. \A k \in Nat \ {0} : /\ k <= Len(b.blocks) <=> k \in 1..Len(b.blocks)
                           /\ k <= Len(t.blocks) <=> k \in 1..Len(t.blocks)
  <2>1. \A k \in Nat \ {0} : (k <= n <=> k \in 1..n) /\ (k <= l <=> k \in 1..l)
    OBVIOUS
  <2> QED BY <1>a, <1>b, <2>1, Zenon
<1>7. \A k \in Nat \ {0} : (k <= Len(t.blocks) /\ p \in Cap(t, k)) <=> (k <= Len(b.blocks) /\ p \in Cap(b, k))
  BY <1>2, <1>4, <1>5, <1>6
<1>8. Settled(b, p) => Settled(t, p)
  <2>1. \A k \in 1..Len(AllExecutes) : k \in Nat \ {0}
    OBVIOUS
  <2> QED BY <1>7, <2>1, Zenon DEF Settled
<1>9. Uncaptured(b, p) => Uncaptured(t, p)
  BY <1>2, <1>4 DEF Uncaptured
<1> QED BY <1>8, <1>9

(* A byte of a marker is no Block's output.                                  *)
LEMMA SettledSilent ==
  ASSUME Reading, NEW b, Ready(b), NEW p, ~InText(p), Uncaptured(b, p)
  PROVE  Settled(b, p)
<1>1. \A k \in 1..Len(AllExecutes) : p \notin marked[k].output
  BY MarkedIs
<1>2. Len(b.blocks) \in Nat
  BY OutputTyped
<1>3. \A k \in 1..Len(AllExecutes) : k <= Len(b.blocks) => p \notin Cap(b, k)
  BY <1>2 DEF Uncaptured
<1> QED BY <1>1, <1>3 DEF Settled

-----------------------------------------------------------------------------
(* What consume settles: each byte so far is settled, carried or in E.       *)
Decided(b, edge, E) == \A p \in 1..edge : p \in E \/ p \in Car(b) \/ Settled(b, p)

(* A byte that is text between the markers handled and the others, written   *)
(* to the screen that b takes the output of.                                 *)
Due(b, h, p) == Clear(All, h, p) /\ InText(p) /\ (On(p) <=> b.alternate)

(* What is carried, or after the edge, is in no Block.                       *)
LEMMA NotYetCaptured ==
  ASSUME NEW m, NEW h, NEW X, NEW edge \in Int, NEW b, Keeps(b, m, h, edge, X)
  PROVE  /\ \A p \in Car(b) : p \in Int /\ p <= edge /\ Past(m, h, p) /\ Uncaptured(b, p)
         /\ \A p \in Int : p > edge => Uncaptured(b, p)
<1>1. Ready(b) /\ Kept(b, m, h, edge, X)
  BY DEF Keeps
<1>2. /\ Car(b) \subseteq Int
      /\ \A k \in 1..Len(b.blocks) : \A q \in Cap(b, k) : q \in Int /\ q <= edge /\ \A p \in Car(b) : q < p
  BY <1>1, OutputTyped DEF Kept
<1>3. \A p \in Car(b) : Uncaptured(b, p)
  <2> SUFFICES ASSUME NEW p \in Car(b), NEW k \in 1..Len(b.blocks), p \in Cap(b, k) PROVE FALSE
    BY DEF Uncaptured
  <2>1. p \in Int /\ p < p
    BY <1>2
  <2> QED BY <2>1
<1>4. \A p \in Int : p > edge => Uncaptured(b, p)
  BY <1>2 DEF Uncaptured
<1> QED BY <1>1, <1>2, <1>3, <1>4 DEF Kept

(* Flushing a carry that turned out to be output settles it.                 *)
LEMMA CarrySettles ==
  ASSUME Reading, NEW h, Handled(All, h), NEW X, NEW edge \in Int, edge <= Len(stream), NEW E,
         NEW b, Keeps(b, All, h, edge, X), Decided(b, edge, E),
         \A p \in Car(b) : p \in E \/ Due(b, h, p)
  PROVE  Decided(FlushCarry(b), edge, E) /\ FlushCarry(b).alternate = b.alternate
<1>1. PICK t : t = FlushCarry(b)
  OBVIOUS
<1>2. Ready(b) /\ Control(b, All, h)
  BY DEF Keeps
<1>3. Ready(t) /\ Takes(b, t, b.carry) /\ t.carry = <<>>
  BY <1>1, <1>2, FlushesCarry
<1>4. PICK y \in Seq(Int) : y = b.carry
  BY <1>2, OutputTyped
<1>5. Takes(b, t, y) /\ ToSet(y) = Car(b)
  BY <1>3, <1>4 DEF Car
<1>6. ASSUME NEW p \in 1..edge PROVE p \in E \/ p \in Car(t) \/ Settled(t, p)
  <2>1. CASE p \in Car(b) /\ p \notin E
    <3>1. Past(All, h, p) /\ Uncaptured(b, p)
      BY <2>1, NotYetCaptured
    <3>2. Clear(All, h, p) /\ InText(p) /\ (On(p) <=> b.alternate)
      BY <2>1 DEF Due
    <3>3. p \in 1..Len(stream)
      <4>1. Len(stream) \in Nat
        BY AllIs
      <4> QED BY <4>1
    <3>4. p \in ToSet(y)
      BY <1>5, <2>1
    <3> QED BY <1>2, <1>5, <3>1, <3>2, <3>3, <3>4, SettledCaptured
  <2>2. CASE p \notin Car(b) /\ p \notin E
    <3>1. Settled(b, p)
      BY <2>2 DEF Decided
    <3>2. p \notin ToSet(y)
      BY <1>5, <2>2
    <3> QED BY <1>2, <1>5, <3>1, <3>2, SettledTakes
  <2> QED BY <2>1, <2>2
<1>7. t.alternate = b.alternate
  BY <1>5 DEF Takes
<1> QED BY <1>1, <1>6, <1>7 DEF Decided

(* Dropping a carry that turned out to be a marker settles it.               *)
LEMMA CarryForgotten ==
  ASSUME Reading, NEW h, NEW X, NEW edge \in Int, NEW E,
         NEW b, Keeps(b, All, h, edge, X), Decided(b, edge, E),
         \A p \in Car(b) : p \in E \/ ~InText(p)
  PROVE  LET t == [b EXCEPT !.carry = <<>>] IN Decided(t, edge, E) /\ t.alternate = b.alternate
<1>1. PICK e \in Seq(Int) : e = <<>>
  <2>1. <<>> \in Seq(Int)
    OBVIOUS
  <2> QED BY <2>1
<1>2. PICK t : t = [b EXCEPT !.carry = e]
  OBVIOUS
<1>3. Ready(b)
  BY DEF Keeps
<1>4. t.alternate = b.alternate /\ t.blocks = b.blocks
  BY <1>2, <1>3, CarryOnly
<1>5. \A p : Settled(t, p) <=> Settled(b, p)
  BY <1>4, Zenon DEF Settled, Cap
<1>6. ASSUME NEW p \in 1..edge PROVE p \in E \/ p \in Car(t) \/ Settled(t, p)
  <2>1. CASE p \in Car(b) /\ p \notin E
    <3>1. ~InText(p) /\ Uncaptured(b, p)
      BY <2>1, NotYetCaptured
    <3> QED BY <1>3, <1>5, <3>1, SettledSilent
  <2>2. CASE p \notin Car(b) /\ p \notin E
    BY <1>5, <2>2 DEF Decided
  <2> QED BY <2>1, <2>2
<1> QED BY <1>1, <1>2, <1>4, <1>6 DEF Decided

(* Writing the bytes before a marker settles them.                           *)
LEMMA SliceSettles ==
  ASSUME Reading, flushed \in Nat, NEW h, Handled(All, h), NEW X, NEW E,
         NEW from \in Nat, NEW to \in Int, from <= to, flushed + to <= Len(stream),
         NEW b, Keeps(b, All, h, flushed + from, X), b.carry = <<>>, Decided(b, flushed + from, E),
         \A p \in (flushed + from + 1)..(flushed + to) : p \in E \/ Due(b, h, p)
  PROVE  Decided(AppendOutput(b, Slice(from, to)), flushed + to, E)
<1>1. PICK t : t = AppendOutput(b, Slice(from, to))
  OBVIOUS
<1>2. Ready(b) /\ Control(b, All, h) /\ Kept(b, All, h, flushed + from, X)
  BY DEF Keeps
<1>3. PICK y \in Seq(Int) :
        /\ y = Slice(from, to)
        /\ \A p : p \in ToSet(y) <=> p \in (flushed + from + 1)..(flushed + to)
  BY SliceIs
<1>4. Ready(t) /\ Takes(b, t, y)
  BY <1>1, <1>2, <1>3, Appends
<1>5. PICK edge \in Int : edge = flushed + from
  OBVIOUS
<1>6. PICK edge2 \in Int : edge2 = flushed + to /\ edge <= edge2
  BY <1>5
<1>7. \A p : p \in ToSet(y) <=> p \in (edge + 1)..edge2
  BY <1>3, <1>5, <1>6
<1>8. ASSUME NEW p \in 1..edge2 PROVE p \in E \/ p \in Car(t) \/ Settled(t, p)
  <2>1. CASE p \in (edge + 1)..edge2 /\ p \notin E
    <3>1. Past(All, h, p)
      <4>1. \A i \in 1..h : All[i].end <= edge
        <5>1. Keeps(b, All, h, edge, X)
          BY <1>5
        <5> QED BY <5>1, Zenon DEF Keeps, Kept
      <4>2. \A i \in 1..h : All[i].end \in Nat
        BY DEF Handled, WellPlaced
      <4>3. p \in Int /\ p > edge
        BY <1>5, <2>1
      <4>4. \A i \in 1..h : All[i].end < p
        BY <1>5, <4>1, <4>2, <4>3
      <4> QED BY <4>4 DEF Past
    <3>2. Uncaptured(b, p)
      <4>1. p \in Int /\ p > edge /\ Keeps(b, All, h, edge, X)
        BY <1>5, <2>1
      <4> QED BY <4>1, NotYetCaptured
    <3>3. Clear(All, h, p) /\ InText(p) /\ (On(p) <=> b.alternate)
      <4>1. p \in (flushed + from + 1)..(flushed + to)
        BY <1>5, <1>6, <2>1
      <4> QED BY <2>1, <4>1 DEF Due
    <3>4. p \in 1..Len(stream)
      <4>1. Len(stream) \in Nat
        BY AllIs
      <4> QED BY <1>6, <4>1
    <3>5. p \in ToSet(y)
      BY <1>7, <2>1
    <3> QED BY <1>2, <1>4, <3>1, <3>2, <3>3, <3>4, <3>5, SettledCaptured
  <2>2. CASE p \notin (edge + 1)..edge2 /\ p \notin E
    <3>1. p \in 1..edge /\ p \notin Car(b)
      <4>1. p \in 1..edge
        BY <2>2
      <4>2. Car(b) = {}
        BY NothingInEmpty DEF Car
      <4> QED BY <4>1, <4>2
    <3>2. Settled(b, p)
      BY <1>5, <2>2, <3>1 DEF Decided
    <3>3. p \notin ToSet(y)
      BY <1>7, <2>2
    <3> QED BY <1>2, <1>4, <3>2, <3>3, SettledTakes
  <2> QED BY <2>1, <2>2
<1> QED BY <1>1, <1>6, <1>8 DEF Decided

(* Carrying bytes leaves the others as settled as they were.                 *)
LEMMA CarryDecides ==
  ASSUME flushed \in Nat, NEW E, NEW from \in Nat, NEW to \in Int,
         NEW b, Ready(b), Decided(b, flushed + from, E)
  PROVE  /\ Decided([b EXCEPT !.carry = b.carry \o Slice(from, to)], flushed + to, E)
         /\ \A p \in Car([b EXCEPT !.carry = b.carry \o Slice(from, to)]) :
              p \in Car(b) \/ p \in (flushed + from + 1)..(flushed + to)
<1>1. PICK y \in Seq(Int) :
        /\ y = Slice(from, to)
        /\ \A p : p \in ToSet(y) <=> p \in (flushed + from + 1)..(flushed + to)
  BY SliceIs
<1>2. PICK c \in Seq(Int) : c = b.carry
  BY OutputTyped
<1>3. PICK z \in Seq(Int) : z = c \o y /\ ToSet(z) = ToSet(c) \cup ToSet(y)
  <2>1. c \o y \in Seq(Int)
    BY ConcatProperties
  <2>2. ToSet(c \o y) = ToSet(c) \cup ToSet(y)
    BY RisingConcat
  <2> QED BY <2>1, <2>2, Zenon
<1>4. PICK t : t = [b EXCEPT !.carry = z]
  OBVIOUS
<1>5. t.carry = z /\ t.blocks = b.blocks
  BY <1>4, CarryOnly
<1>6. [b EXCEPT !.carry = b.carry \o Slice(from, to)] = t
  BY <1>1, <1>2, <1>3, <1>4
<1>7. \A p : p \in Car(t) <=> p \in Car(b) \/ p \in (flushed + from + 1)..(flushed + to)
  BY <1>1, <1>2, <1>3, <1>5 DEF Car
<1>8. \A p : Settled(t, p) <=> Settled(b, p)
  BY <1>5, Zenon DEF Settled, Cap
<1>9. ASSUME NEW p \in 1..(flushed + to) PROVE p \in E \/ p \in Car(t) \/ Settled(t, p)
  <2>1. CASE p \in 1..(flushed + from)
    BY <1>7, <1>8, <2>1 DEF Decided
  <2>2. CASE p \notin 1..(flushed + from)
    <3>1. p \in (flushed + from + 1)..(flushed + to)
      BY <2>2
    <3> QED BY <1>7, <3>1
  <2> QED BY <2>1, <2>2
<1> QED BY <1>6, <1>7, <1>9 DEF Decided

(* Handling a marker settles its bytes: no Block captures them.              *)
LEMMA MarkerSettles ==
  ASSUME Reading, NEW h, Handled(All, h), h < Len(All), Kind(All, h + 1) \in Kinds,
         NEW X, NEW E, NEW edge \in Int, edge <= All[h + 1].end,
         NEW b, Keeps(b, All, h, edge, X), b.carry = <<>>, Decided(b, edge, E),
         \A p \in (edge + 1)..All[h + 1].end : p \in E \/ p > All[h + 1].start
  PROVE  LET t == HandleSignal(b, Kind(All, h + 1))
         IN  Decided(t, All[h + 1].end, E) /\ t.alternate = b.alternate
<1>1. PICK t : t = HandleSignal(b, Kind(All, h + 1))
  OBVIOUS
<1>2. Ready(b)
  BY DEF Keeps
<1>3. Ready(t) /\ Handles(b, t, Kind(All, h + 1))
  BY <1>1, <1>2, HandleIs
<1>4. h + 1 \in 1..Len(All) /\ All[h + 1].end \in Nat /\ All[h + 1].start \in Nat
  BY DEF Handled, WellPlaced
<1>5. PICK end \in Nat : end = All[h + 1].end
  BY <1>4
<1>6. ASSUME NEW p \in 1..end PROVE p \in E \/ p \in Car(t) \/ Settled(t, p)
  <2>1. CASE p \in (edge + 1)..end /\ p \notin E
    <3>1. Uncaptured(b, p)
      <4>1. p \in Int /\ p > edge
        BY <2>1
      <4> QED BY <4>1, NotYetCaptured
    <3>2. ~InText(p)
      <4>1. p > All[h + 1].start /\ p <= All[h + 1].end
        BY <1>5, <2>1
      <4>2. ~(p <= All[h + 1].start) /\ ~(p > All[h + 1].end)
        BY <1>4, <4>1
      <4> QED BY <1>4, <4>2 DEF InText
    <3>3. Settled(b, p)
      BY <1>2, <3>1, <3>2, SettledSilent
    <3> QED BY <1>2, <1>3, <3>3, SettledHandles
  <2>2. CASE p \notin (edge + 1)..end /\ p \notin E
    <3>1. p \in 1..edge /\ p \notin Car(b)
      <4>1. p \in 1..edge
        BY <2>2
      <4>2. Car(b) = {}
        BY NothingInEmpty DEF Car
      <4> QED BY <4>1, <4>2
    <3>2. Settled(b, p)
      BY <2>2, <3>1 DEF Decided
    <3> QED BY <1>2, <1>3, <3>2, SettledHandles
  <2> QED BY <2>1, <2>2
<1>7. t.alternate = b.alternate
  BY <1>3 DEF Handles, Settles
<1> QED BY <1>1, <1>5, <1>6, <1>7 DEF Decided

-----------------------------------------------------------------------------
(* The counts of the pump and its frontiers, in order.                       *)
LEMMA PumpNumbers ==
  ASSUME Pumping
  PROVE  /\ stream \in Seq(Tokens) /\ Len(stream) \in Nat /\ Len(stream) \in 0..Len(stream)
         /\ fed \in Nat /\ fed \in 0..Len(stream) /\ fed <= Len(stream) /\ fed \in flushed..Len(stream)
         /\ flushed \in Nat /\ flushed \in 0..Len(stream) /\ flushed <= fed
         /\ Len(stream) \in fed..Len(stream) /\ Len(stream) \in flushed..Len(stream)
         /\ Frontier(stream, flushed) \in 0..flushed /\ Frontier(stream, fed) \in 0..fed
         /\ Frontier(stream, Len(stream)) \in 0..Len(stream)
         /\ Frontier(stream, fed) <= Frontier(stream, Len(stream))
         /\ Frontier(stream, fed) = Frontier(stream, flushed) \/ Frontier(stream, fed) >= flushed
         /\ Reading
<1>1. /\ fed \in 0..Len(stream) /\ flushed \in 0..fed /\ stream \in Seq(Tokens) /\ Len(stream) \in Nat /\ Reading
  BY AllIs DEF Pumping, Reading
<1>2. PICK l \in Nat : l = Len(stream)
  BY <1>1
<1>3. /\ fed \in 0..l /\ fed \in Nat /\ fed <= l /\ fed \in flushed..l /\ l \in 0..l
      /\ flushed \in Nat /\ flushed \in 0..l /\ flushed <= fed /\ l \in fed..l /\ l \in flushed..l
  BY <1>1, <1>2
<1>4. Frontier(stream, flushed) \in 0..flushed /\ Frontier(stream, fed) \in 0..fed /\ Frontier(stream, l) \in 0..l
  BY <1>1, <1>2, <1>3, FrontierStep
<1>5. Frontier(stream, fed) <= Frontier(stream, l)
  BY <1>1, <1>2, <1>3, ToldInAll
<1>6. Frontier(stream, fed) = Frontier(stream, flushed) \/ Frontier(stream, fed) >= flushed
  BY <1>1, <1>2, <1>3, ScreensInAll
<1> QED BY <1>1, <1>2, <1>3, <1>4, <1>5, <1>6

(* A byte after the markers handled, before the others and behind the end's  *)
(* frontier is text.                                                         *)
LEMMA TextBetween ==
  ASSUME Pumping, NEW h, Handled(All, h), NEW p \in Int, Past(All, h, p), Clear(All, h, p),
         p <= Frontier(stream, Len(stream))
  PROVE  InText(p)
<1>1. PICK m \in Seq(Hits) : m = All
  BY DEF Handled
<1>2. h \in Nat /\ h <= Len(m) /\ Len(m) \in Nat
  BY <1>1 DEF Handled
<1>3. ASSUME NEW i \in 1..Len(m) PROVE p <= m[i].start \/ p > m[i].end
  <2>1. m[i].end \in Nat
    BY <1>1 DEF Handled, WellPlaced
  <2>2. CASE i <= h
    <3>1. i \in 1..h
      BY <1>2, <2>2
    <3> QED BY <1>1, <2>1, <3>1 DEF Past
  <2>3. CASE i > h
    <3>1. i \in (h + 1)..Len(m)
      BY <1>2, <2>3
    <3> QED BY <1>1, <3>1 DEF Clear
  <2> QED BY <1>2, <2>2, <2>3
<1> QED BY <1>1, <1>3 DEF InText

(* So is a byte after the markers handled, up to the start of the next.      *)
LEMMA TextBefore ==
  ASSUME Pumping, NEW h, Handled(All, h), h < Len(All), NEW p \in Int, Past(All, h, p), p <= All[h + 1].start
  PROVE  Clear(All, h, p) /\ InText(p)
<1>1. PICK m \in Seq(Hits) : m = All
  BY DEF Handled
<1>2. h + 1 \in 1..Len(m) /\ m[h + 1].start \in Nat /\ m[h + 1].end \in Nat /\ m[h + 1].start < m[h + 1].end
  BY <1>1 DEF Handled, WellPlaced
<1>3. stream \in Seq(Tokens) /\ Len(stream) \in 0..Len(stream) /\ Frontier(stream, Len(stream)) \in 0..Len(stream)
  BY PumpNumbers
<1>4. m[h + 1].end <= Frontier(stream, Len(stream))
  BY <1>1, <1>2, <1>3, ToldPlaced DEF All
<1>5. p <= Frontier(stream, Len(stream))
  BY <1>1, <1>2, <1>3, <1>4
<1>6. Clear(All, h, p)
  BY ClearBefore
<1> QED BY <1>5, <1>6, TextBetween

(* So is one after the last marker of the batch, behind the frontier.        *)
LEMMA TextBehind ==
  ASSUME Pumping, Batched, NEW p \in Int, Past(All, Done(fed), p), p <= Frontier(stream, fed)
  PROVE  Clear(All, Done(fed), p) /\ InText(p)
<1>1. PICK m \in Seq(Hits) : m = All
  BY DEF Batched
<1>2. PICK h \in Nat : h = Done(fed) /\ h <= Len(m)
  <2>1. Done(fed) \in Nat /\ Done(fed) <= Len(m)
    BY <1>1 DEF Batched
  <2> QED BY <2>1
<1>3. Handled(m, h)
  BY <1>1, <1>2 DEF Handled, Batched
<1>4. PICK front \in Nat : front = Frontier(stream, fed) /\ front <= Frontier(stream, Len(stream))
                           /\ Frontier(stream, Len(stream)) \in Nat
  BY PumpNumbers
<1>5. ASSUME NEW i \in (h + 1)..Len(m) PROVE p <= m[i].start
  <2>1. i \in 1..Len(m) /\ i > h
    BY <1>2
  <2>2. m[i].start \in Nat /\ m[i].start >= front
    BY <1>1, <1>2, <1>3, <1>4, <2>1 DEF Batched, Handled, WellPlaced
  <2> QED BY <1>4, <2>2
<1>6. Clear(m, h, p)
  BY <1>5 DEF Clear
<1>7. p <= Frontier(stream, Len(stream))
  BY <1>4
<1> QED BY <1>1, <1>2, <1>3, <1>6, <1>7, TextBetween

(* A marker whose start the tap lost began where the frontier was.           *)
LEMMA BeganBefore ==
  ASSUME Pumping, Batched, ~seam, NEW i \in 1..Len(signals), signals[i].start = None
  PROVE  /\ All[Done(flushed) + i].start = Frontier(stream, flushed)
         /\ All[Done(flushed) + i].start < flushed
<1>1. PICK m \in Seq(Hits) : m = All
  BY DEF Batched
<1>2. PICK c \in Nat : c = Done(flushed)
  BY DEF Batched
<1>3. PICK n \in Nat : n = Len(signals) /\ c + n <= Len(m)
  <2>1. Len(signals) \in Nat /\ c + Len(signals) <= Len(m)
    BY <1>1, <1>2 DEF Batched
  <2> QED BY <2>1
<1>4. c + i \in (c + 1)..Len(m) /\ c + i \in 1..Len(m)
  BY <1>3
<1>5. m[c + i].start < flushed
  <2>1. None \notin Nat
    BY DEF None
  <2> QED BY <1>1, <1>2, <2>1 DEF Batched
<1>6. m[c + i].start = Frontier(stream, flushed) \/ m[c + i].start >= flushed
  <2>1. /\ stream \in Seq(Tokens) /\ flushed \in 0..Len(stream) /\ Len(stream) \in flushed..Len(stream)
    BY PumpNumbers
  <2> QED BY <1>1, <1>2, <1>4, <2>1, ScreensInAll DEF All, Done
<1>7. m[c + i].start \in Nat /\ flushed \in Nat
  BY <1>1, <1>4, PumpNumbers DEF Batched, WellPlaced
<1> QED BY <1>1, <1>2, <1>5, <1>6, <1>7

-----------------------------------------------------------------------------
(* What the builder carries from one batch to the next is the head of the    *)
(* marker the batch was cut in, or of a batch that is excused.               *)
Carried(b, n, E) == \A p \in Car(b) : p \in E \/ (InsideOsc(At(stream, n)) /\ p > Frontier(stream, n))

(* E holds what a batch with a seam or a change of screen may get wrong.     *)
Exempt(E) == /\ seam \/ switched => Batch \cup Car(builder) \subseteq E
             /\ scanner.state = "Escape" => fed \in E

(* Between two markers of the batch.                                         *)
Settling(at, i, E) ==
  /\ at.builder.alternate <=> alternate
  /\ Decided(at.builder, flushed + at.cursor, E)
  /\ i = 0 => Car(at.builder) = Car(builder)

(* A carry that is not excused is there before the first marker only.        *)
LEMMA SettlingCarry ==
  ASSUME Pumping, Batched, Screened, NEW E, Carried(builder, flushed, E), Exempt(E),
         NEW i \in Nat, NEW X, NEW at, Mid(at, i, X), Settling(at, i, E),
         NEW p \in Car(at.builder), p \notin E
  PROVE  /\ i = 0 /\ ~seam /\ ~switched /\ p \in Int /\ p <= flushed /\ p > Frontier(stream, flushed)
         /\ On(p) <=> alternate
         /\ Past(All, Done(flushed) + i, p)
<1>1. i = 0
  <2>1. CASE i > 0
    <3>1. Car(at.builder) = {}
      BY <2>1, NothingInEmpty DEF Mid, Car
    <3> QED BY <3>1
  <2> QED BY <2>1
<1>2. p \in Car(builder) /\ ~seam /\ ~switched /\ p > Frontier(stream, flushed)
  BY <1>1 DEF Settling, Exempt, Carried
<1>3. p \in Int /\ p <= flushed
  BY PumpNumbers, MidCarry
<1>4. On(p) <=> alternate
  <2>1. p <= fed
    BY <1>3, PumpNumbers
  <2> QED BY <1>2, <1>3, <2>1, OnIs
<1>5. Past(All, Done(flushed) + i, p)
  BY DEF Mid, Keeps, Kept
<1> QED BY <1>1, <1>2, <1>3, <1>4, <1>5

(* A byte of the batch was written to the screen the builder was told of.    *)
LEMMA SettlingBatch ==
  ASSUME Pumping, Screened, NEW E, Exempt(E), NEW p \in Batch, p \notin E
  PROVE  On(p) <=> alternate
<1>1. p \in Int /\ p > flushed /\ p <= fed /\ Frontier(stream, flushed) <= flushed
      /\ flushed \in Int /\ Frontier(stream, flushed) \in Int
  <2>1. fed \in Nat /\ flushed \in Nat /\ Frontier(stream, flushed) \in 0..flushed
    BY PumpNumbers
  <2> QED BY <2>1 DEF Batch
<1>2. Frontier(stream, flushed) < p
  BY <1>1
<1>3. ~switched
  BY DEF Exempt
<1> QED BY <1>1, <1>2, <1>3, OnIs

-----------------------------------------------------------------------------
(* A marker of the batch, and the output before it.                          *)
LEMMA SettlingSignal ==
  ASSUME Pumping, Batched, Screened, NEW E, Carried(builder, flushed, E), Exempt(E),
         NEW i \in Nat, i < Len(signals), NEW X, NEW at, Mid(at, i, X), Settling(at, i, E)
  PROVE  Settling(ConsumeSignal(at, signals[i + 1]), i + 1, E)
<1>1. PICK h \in Nat : h = Done(flushed) + i
  BY DEF Batched
<1>2. PICK m \in Seq(Hits) : m = All
  BY DEF Batched
<1>3. PICK n \in Nat : n = Len(signals) /\ Done(flushed) + n <= Len(m) /\ Done(flushed) \in Nat
  BY <1>2 DEF Batched
<1>4. h < Len(m) /\ Handled(m, h) /\ h + 1 \in 1..Len(m) /\ Done(flushed) + (i + 1) = h + 1
  BY <1>1, <1>2, <1>3 DEF Handled, Batched
<1>5. PICK sig : sig = signals[i + 1]
  OBVIOUS
<1>6. /\ sig.signal = Kind(m, h + 1) /\ Kind(m, h + 1) \in Kinds
      /\ sig.end \in Nat /\ m[h + 1].end = flushed + sig.end /\ m[h + 1].end > flushed
      /\ m[h + 1].end <= Frontier(stream, fed)
      /\ \/ sig.start = None
         \/ sig.start \in Nat /\ m[h + 1].start = flushed + sig.start
  <2>1. i + 1 \in 1..Len(signals)
    BY <1>3
  <2> QED BY <1>2, <1>4, <1>5, <2>1 DEF Batched
<1>7. /\ m[h + 1].start \in Nat /\ m[h + 1].end \in Nat /\ m[h + 1].start < m[h + 1].end
      /\ \A j \in 1..h : m[j].end <= m[h + 1].start /\ m[j].end \in Nat
  BY <1>4 DEF Handled, WellPlaced
<1>8. PICK cursor \in Nat : cursor = at.cursor
  BY DEF Mid
<1>9. Keeps(at.builder, m, h, flushed + cursor, X) /\ Decided(at.builder, flushed + cursor, E)
  BY <1>1, <1>2, <1>8 DEF Mid, Settling
<1>a. /\ flushed \in Nat /\ fed \in Nat /\ Len(stream) \in Nat /\ fed <= Len(stream) /\ Reading
      /\ flushed <= fed /\ m[h + 1].end <= fed /\ m[h + 1].end <= Len(stream)
  <2>1. /\ flushed \in Nat /\ fed \in Nat /\ Len(stream) \in Nat /\ fed <= Len(stream) /\ Reading
        /\ flushed <= fed /\ Frontier(stream, fed) \in 0..fed
    BY PumpNumbers
  <2>2. PICK front \in 0..fed : front = Frontier(stream, fed)
    BY <2>1
  <2>3. m[h + 1].end <= front
    BY <1>6, <2>2
  <2> QED BY <1>7, <2>1, <2>2, <2>3
<1>b. i = 0 => cursor = 0
  BY <1>8 DEF Mid
<1>c. i > 0 => m[h].end = flushed + cursor /\ h \in 1..h
  BY <1>1, <1>2, <1>3, <1>8 DEF Mid
<1>d. PICK edge \in Nat : edge = flushed + cursor /\ edge >= flushed
  BY <1>a
<1>e. edge <= m[h + 1].end /\ edge <= Len(stream)
  <2>1. edge <= m[h + 1].end
    <3>1. CASE i = 0
      BY <1>6, <1>7, <1>a, <1>b, <1>d, <3>1
    <3>2. CASE i > 0
      BY <1>7, <1>c, <1>d, <3>2
    <3> QED BY <3>1, <3>2
  <2> QED BY <1>7, <1>a, <1>d, <2>1
<1>f. \A p \in Int : p > edge /\ p <= m[h + 1].end => p \in Batch
  BY <1>7, <1>a, <1>d DEF Batch
<1>10. CASE sig.start = None
  <2>0. (seam \/ switched) \/ (i = 0 /\ m[h + 1].start = Frontier(stream, flushed) /\ m[h + 1].start < flushed)
    <3> SUFFICES ASSUME ~seam PROVE i = 0 /\ m[h + 1].start = Frontier(stream, flushed) /\ m[h + 1].start < flushed
      OBVIOUS
    <3>1. i + 1 \in 1..Len(signals)
      BY <1>3
    <3>2. m[h + 1].start = Frontier(stream, flushed) /\ m[h + 1].start < flushed
      BY <1>2, <1>4, <1>5, <1>10, <3>1, BeganBefore
    <3>3. i = 0
      <4>1. CASE i > 0
        <5>1. flushed + cursor <= m[h + 1].start
          BY <1>7, <1>c, <4>1
        <5> QED BY <1>7, <1>a, <3>2, <5>1
      <4> QED BY <4>1
    <3> QED BY <3>2, <3>3
  <2>1. PICK b : b = [at.builder EXCEPT !.carry = <<>>]
    OBVIOUS
  <2>2. Keeps(b, m, h, edge, X) /\ b.carry = <<>>
    BY <1>9, <1>d, <2>1, CarryDropped
  <2>3. Decided(b, edge, E) /\ b.alternate = at.builder.alternate
    <3>1. ASSUME NEW p \in Car(at.builder), p \notin E PROVE ~InText(p)
      <4>1. i = 0 /\ ~seam /\ ~switched /\ p \in Int /\ p <= flushed /\ p > Frontier(stream, flushed)
        BY <3>1, SettlingCarry
      <4>2. m[h + 1].start < p
        <5>1. m[h + 1].start = Frontier(stream, flushed)
          BY <2>0, <4>1
        <5> QED BY <4>1, <5>1
      <4>3. p < m[h + 1].end
        BY <1>6, <1>7, <1>a, <4>1
      <4>4. ~(p <= m[h + 1].start) /\ ~(p > m[h + 1].end)
        BY <1>7, <4>1, <4>2, <4>3
      <4> QED BY <1>2, <1>4, <4>4 DEF InText
    <3>2. Keeps(at.builder, All, h, edge, X) /\ Decided(at.builder, edge, E) /\ edge \in Int
      BY <1>2, <1>9, <1>d
    <3> QED BY <1>a, <2>1, <3>1, <3>2, CarryForgotten
  <2>5. PICK t : t = HandleSignal(b, sig.signal)
    OBVIOUS
  <2>6. Decided(t, m[h + 1].end, E) /\ t.alternate = b.alternate
    <3>1. ASSUME NEW p \in (edge + 1)..m[h + 1].end PROVE p \in E \/ p > m[h + 1].start
      <4>1. p \in Int /\ p > edge /\ p <= m[h + 1].end
        BY <1>7
      <4>2. p \in Batch
        BY <1>f, <4>1
      <4>3. CASE seam \/ switched
        BY <4>2, <4>3 DEF Exempt
      <4>4. CASE m[h + 1].start < flushed
        BY <1>7, <1>a, <1>d, <4>1, <4>4
      <4> QED BY <2>0, <4>3, <4>4
    <3>2. Handled(All, h) /\ h < Len(All) /\ Kind(All, h + 1) \in Kinds /\ edge \in Int /\ edge <= All[h + 1].end
      BY <1>2, <1>4, <1>6, <1>e
    <3>3. Keeps(b, All, h, edge, X)
      BY <1>2, <2>2
    <3>4. \A p \in (edge + 1)..All[h + 1].end : p \in E \/ p > All[h + 1].start
      BY <1>2, <3>1
    <3>5. LET u == HandleSignal(b, Kind(All, h + 1)) IN Decided(u, All[h + 1].end, E) /\ u.alternate = b.alternate
      <4>1. Reading /\ b.carry = <<>> /\ Decided(b, edge, E)
        BY <1>a, <2>2, <2>3
      <4> QED BY <3>2, <3>3, <3>4, <4>1, MarkerSettles, ZenonT(40)
    <3> QED BY <1>2, <1>6, <2>5, <3>5
  <2>7. ConsumeSignal(at, sig) = [builder |-> t, cursor |-> sig.end]
    BY <1>10, <2>1, <2>5 DEF ConsumeSignal
  <2>8. t.alternate <=> alternate
    BY <2>3, <2>6 DEF Settling
  <2>9. i + 1 # 0
    OBVIOUS
  <2> QED BY <1>5, <1>6, <2>6, <2>7, <2>8, <2>9 DEF Settling
<1>11. CASE sig.start \in Nat /\ m[h + 1].start = flushed + sig.start
  <2>1. cursor <= sig.start
    <3>1. CASE i = 0
      BY <1>11, <1>b, <3>1
    <3>2. CASE i > 0
      BY <1>7, <1>11, <1>c, <1>a, <3>2
    <3> QED BY <3>1, <3>2
  <2>0. PICK to \in Nat : to = sig.start /\ cursor <= to /\ m[h + 1].start = flushed + to
    BY <1>11, <2>1
  <2>2. PICK a : a = FlushCarry(at.builder)
    OBVIOUS
  <2>3. \A p \in Car(at.builder) : p \in E \/ Due(at.builder, h, p)
    <3> SUFFICES ASSUME NEW p \in Car(at.builder), p \notin E PROVE Due(at.builder, h, p)
      OBVIOUS
    <3>1. i = 0 /\ p \in Int /\ p <= flushed /\ (On(p) <=> alternate) /\ Past(All, h, p)
      BY <1>1, SettlingCarry
    <3>2. p <= All[h + 1].start
      BY <1>2, <1>a, <2>0, <3>1
    <3>3. Clear(All, h, p) /\ InText(p)
      BY <1>2, <1>4, <3>1, <3>2, TextBefore
    <3> QED BY <3>1, <3>3 DEF Settling, Due
  <2>4. Keeps(a, m, h, edge, X) /\ a.carry = <<>>
    <3>1. \A p \in Car(at.builder) : p \in Int /\ p <= flushed
      BY <1>a, MidCarry
    <3>2. \A p \in Car(at.builder) : p <= m[h + 1].start
      BY <1>11, <1>a, <3>1
    <3>3. \A p \in Car(at.builder) : Clear(m, h, p)
      BY <1>4, <3>1, <3>2, ClearBefore
    <3>4. Keeps(at.builder, m, h, edge, X) /\ edge \in Int
      BY <1>9, <1>d
    <3> QED BY <1>4, <2>2, <3>3, <3>4, CarryCaptured
  <2>5. Decided(a, edge, E) /\ a.alternate = at.builder.alternate
    <3>1. /\ Handled(All, h) /\ edge \in Int /\ edge <= Len(stream)
          /\ Keeps(at.builder, All, h, edge, X) /\ Decided(at.builder, edge, E)
      BY <1>2, <1>4, <1>9, <1>d, <1>e
    <3>2. PICK q : q = at.builder
      OBVIOUS
    <3>3. Keeps(q, All, h, edge, X) /\ Decided(q, edge, E) /\ \A p \in Car(q) : p \in E \/ Due(q, h, p)
      BY <2>3, <3>1, <3>2
    <3>4. Decided(FlushCarry(q), edge, E) /\ FlushCarry(q).alternate = q.alternate
      BY <1>a, <3>1, <3>3, CarrySettles
    <3> QED BY <2>2, <3>2, <3>4
  <2>6. PICK b : b = AppendOutput(a, Slice(cursor, to))
    OBVIOUS
  <2>7. ASSUME NEW p \in (flushed + cursor + 1)..(flushed + to), p \notin E
        PROVE  Due(a, h, p)
    <3>1. p \in Int /\ p <= m[h + 1].start /\ p > edge /\ p <= m[h + 1].end
      <4>1. p \in Int /\ p >= flushed + cursor + 1 /\ p <= flushed + to
        BY <1>a
      <4>2. p >= edge + 1 /\ p <= m[h + 1].start
        BY <1>d, <2>0, <4>1
      <4> QED BY <1>7, <4>1, <4>2
    <3>2. On(p) <=> alternate
      BY <1>f, <2>7, <3>1, SettlingBatch
    <3>3. Past(All, h, p)
      <4>1. PICK q : q = at.builder /\ Keeps(q, m, h, edge, X)
        BY <1>9, <1>d
      <4>2. \A j \in 1..h : m[j].end <= edge
        BY <4>1, Zenon DEF Keeps, Kept
      <4>3. ASSUME NEW j \in 1..h PROVE m[j].end < p
        <5>1. PICK e : e = m[j].end /\ e \in Nat /\ e <= edge
          BY <1>7, <4>2
        <5> QED BY <3>1, <5>1
      <4> QED BY <1>2, <4>3 DEF Past
    <3>4. Clear(All, h, p) /\ InText(p)
      BY <1>2, <1>4, <3>1, <3>3, TextBefore
    <3> QED BY <2>5, <3>2, <3>4 DEF Settling, Due
  <2>8. Keeps(b, m, h, flushed + to, X) /\ b.carry = <<>>
    <3>1. \A p \in (flushed + cursor + 1)..(flushed + to) : p \in Int /\ p <= m[h + 1].start
      BY <1>a, <2>0
    <3>2. \A p \in (flushed + cursor + 1)..(flushed + to) : Clear(m, h, p)
      BY <1>4, <3>1, ClearBefore
    <3>4. Keeps(a, m, h, flushed + cursor, X) /\ cursor <= to
      BY <1>d, <2>0, <2>4
    <3>6. \A p \in (flushed + cursor + 1)..(flushed + to) : p \in X \/ Clear(m, h, p)
      BY <3>2, Zenon
    <3>7. Handled(m, h) /\ a.carry = <<>> /\ to \in Int /\ flushed \in Nat
      BY <1>4, <1>a, <2>4
    <3>8. LET u == AppendOutput(a, Slice(cursor, to)) IN Keeps(u, m, h, flushed + to, X) /\ u.carry = <<>>
      BY <3>4, <3>6, <3>7, SliceCaptured, Zenon
    <3> QED BY <2>6, <3>8
  <2>9. Decided(b, flushed + to, E) /\ b.alternate = a.alternate
    <3>1. flushed \in Nat /\ Handled(All, h) /\ to \in Int /\ cursor <= to /\ flushed + to <= Len(stream) /\ Reading
      <4>1. m[h + 1].start <= Len(stream)
        BY <1>7, <1>a
      <4> QED BY <1>2, <1>4, <1>a, <2>0, <4>1
    <3>2. /\ Keeps(a, All, h, flushed + cursor, X) /\ a.carry = <<>> /\ Decided(a, flushed + cursor, E)
      BY <1>2, <1>d, <2>4, <2>5
    <3>3. \A p \in (flushed + cursor + 1)..(flushed + to) : p \in E \/ Due(a, h, p)
      BY <2>7
    <3>4. Decided(AppendOutput(a, Slice(cursor, to)), flushed + to, E)
      BY <3>1, <3>2, <3>3, SliceSettles, Zenon
    <3>5. AppendOutput(a, Slice(cursor, to)).alternate = a.alternate
      <4>1. PICK y \in Seq(Int) : y = Slice(cursor, to)
        BY <3>1, SliceIs
      <4>2. Takes(a, AppendOutput(a, y), y)
        BY <3>2, Appends DEF Keeps
      <4> QED BY <4>1, <4>2 DEF Takes
    <3> QED BY <2>6, <3>4, <3>5
  <2>10. PICK edge2 \in Int : edge2 = flushed + to /\ edge2 <= m[h + 1].end /\ edge2 = m[h + 1].start
    BY <1>7, <2>0
  <2>11. PICK t : t = HandleSignal(b, sig.signal)
    OBVIOUS
  <2>12. Decided(t, m[h + 1].end, E) /\ t.alternate = b.alternate
    <3>1. \A p \in (edge2 + 1)..All[h + 1].end : p \in E \/ p > All[h + 1].start
      BY <1>2, <1>7, <2>10
    <3>2. Handled(All, h) /\ h < Len(All) /\ Kind(All, h + 1) \in Kinds /\ edge2 \in Int /\ edge2 <= All[h + 1].end
      BY <1>2, <1>4, <1>6, <2>10
    <3>3. Keeps(b, All, h, edge2, X) /\ b.carry = <<>> /\ Decided(b, edge2, E)
      BY <1>2, <2>8, <2>9, <2>10
    <3>5. LET u == HandleSignal(b, Kind(All, h + 1)) IN Decided(u, All[h + 1].end, E) /\ u.alternate = b.alternate
      BY <1>a, <3>1, <3>2, <3>3, MarkerSettles, Zenon
    <3> QED BY <1>2, <1>6, <2>11, <3>5
  <2>13. ConsumeSignal(at, sig) = [builder |-> t, cursor |-> sig.end]
    <3>1. sig.start # None /\ ~(sig.start < at.cursor)
      BY <1>8, <1>11, <2>1 DEF None
    <3> QED BY <1>8, <2>0, <2>2, <2>6, <2>11, <3>1 DEF ConsumeSignal
  <2>14. t.alternate <=> alternate
    BY <2>5, <2>9, <2>12 DEF Settling
  <2>15. i + 1 # 0
    OBVIOUS
  <2> QED BY <1>5, <1>6, <2>12, <2>13, <2>14, <2>15 DEF Settling
<1> QED BY <1>6, <1>10, <1>11

-----------------------------------------------------------------------------
(* The rest of a batch, after its last marker.                               *)
LEMMA TailSettles ==
  ASSUME Pumping, Batched, Screened, fed > flushed, NEW E, Carried(builder, flushed, E), Exempt(E),
         NEW X, NEW at, Mid(at, Len(signals), X), Settling(at, Len(signals), E)
  PROVE  LET t == ConsumeTail(at.builder, at.cursor, fed - flushed)
         IN  Decided(t, fed, E) /\ Carried(t, fed, E)
<1>1. /\ fed \in Nat /\ flushed \in Nat /\ Len(stream) \in Nat /\ fed <= Len(stream) /\ Reading
      /\ Frontier(stream, flushed) \in 0..flushed
      /\ Frontier(stream, fed) = Frontier(stream, flushed) \/ Frontier(stream, fed) >= flushed
  BY PumpNumbers
<1>2. PICK m \in Seq(Hits) : m = All
  BY DEF Batched
<1>3. PICK n \in Nat : n = Len(signals)
  BY DEF Batched
<1>4. PICK h \in Nat : h = Done(fed) /\ h = Done(flushed) + n /\ h <= Len(m)
  BY <1>2, <1>3 DEF Batched
<1>5. Handled(m, h)
  BY <1>2, <1>4 DEF Handled, Batched
<1>6. PICK front \in 0..fed : front = Frontier(stream, fed)
  BY PumpNumbers
<1>7. PICK b : b = at.builder
  OBVIOUS
<1>8. PICK cursor \in Nat : cursor = at.cursor
  BY DEF Mid
<1>9. Keeps(b, m, h, flushed + cursor, X) /\ Decided(b, flushed + cursor, E) /\ (b.alternate <=> alternate)
  BY <1>2, <1>3, <1>4, <1>7, <1>8 DEF Mid, Settling
<1>10. n = 0 => cursor = 0
  BY <1>3, <1>8 DEF Mid
<1>11. n > 0 => Car(b) = {} /\ m[h].end = flushed + cursor /\ m[h].end > flushed /\ flushed + cursor <= front
  <2> SUFFICES ASSUME n > 0 PROVE Car(b) = {} /\ m[h].end = flushed + cursor /\ m[h].end > flushed
                                  /\ flushed + cursor <= front
    OBVIOUS
  <2>1. b.carry = <<>> /\ m[h].end = flushed + cursor
    BY <1>2, <1>3, <1>4, <1>7, <1>8 DEF Mid
  <2>2. n \in 1..Len(signals)
    BY <1>3
  <2>3. m[h].end <= front /\ m[h].end > flushed
    BY <1>2, <1>4, <1>6, <2>2 DEF Batched
  <2> QED BY <2>1, <2>3, NothingInEmpty DEF Car
<1>12. PICK len \in Nat : len = fed - flushed /\ flushed + len = fed
  BY <1>1
<1>13. PICK edge \in Nat : edge = flushed + cursor /\ flushed <= edge /\ edge <= fed /\ edge <= Len(stream)
  <2>1. CASE n = 0
    BY <1>1, <1>10, <2>1
  <2>2. CASE n > 0
    BY <1>1, <1>6, <1>11, <2>2
  <2> QED BY <2>1, <2>2
<1>14. cursor <= len
  BY <1>12, <1>13, <1>1
<1>15. ASSUME NEW p \in Car(b), p \notin E
       PROVE  /\ n = 0 /\ ~seam /\ ~switched /\ p \in Int /\ p <= flushed /\ p > Frontier(stream, flushed)
              /\ (On(p) <=> b.alternate) /\ Past(All, h, p)
  <2>1. /\ n = 0 /\ ~seam /\ ~switched /\ p \in Int /\ p <= flushed /\ p > Frontier(stream, flushed)
        /\ On(p) <=> alternate
        /\ Past(All, Done(flushed) + n, p)
    BY <1>3, <1>7, <1>15, SettlingCarry
  <2> QED BY <1>4, <1>9, <2>1
<1>16. ASSUME NEW p \in Int, p > edge, p <= fed, p \notin E
       PROVE  (On(p) <=> b.alternate) /\ Past(All, h, p) /\ p \in Batch
  <2>1. p \in Batch
    BY <1>1, <1>13, <1>16 DEF Batch
  <2>2. On(p) <=> alternate
    BY <1>16, <2>1, SettlingBatch
  <2>3. Past(All, h, p)
    <3>1. \A j \in 1..h : m[j].end <= edge /\ m[j].end \in Nat
      BY <1>5, <1>9, <1>13 DEF Keeps, Kept, Handled, WellPlaced
    <3>2. \A j \in 1..h : m[j].end < p
      BY <1>16, <3>1
    <3> QED BY <1>2, <3>2 DEF Past
  <2> QED BY <1>9, <2>1, <2>2, <2>3
(* What is due by the frontier, and what is done with it.                    *)
<1>17. ASSUME NEW p \in Int, Past(All, h, p), On(p) <=> b.alternate, p <= front PROVE Due(b, h, p)
  <2>1. Past(All, Done(fed), p)
    BY <1>4, <1>17
  <2>2. Clear(All, h, p) /\ InText(p)
    BY <1>4, <1>6, <1>17, <2>1, TextBehind
  <2> QED BY <1>17, <2>2 DEF Due
<1>18. ASSUME NEW to \in Nat, cursor <= to, flushed + to <= fed, flushed <= front,
              \A p \in Int : p > edge /\ p <= flushed + to => p \in E \/ p <= front
       PROVE  LET t == AppendOutput(FlushCarry(b), Slice(cursor, to))
              IN  Ready(t) /\ t.carry = <<>> /\ Decided(t, flushed + to, E)
  <2>1. PICK a : a = FlushCarry(b)
    OBVIOUS
  <2>2. \A p \in Car(b) : p \in Int /\ p <= front
    <3>1. \A p \in Car(b) : p \in Int /\ p <= flushed
      BY <1>1, <1>3, <1>7, MidCarry
    <3> QED BY <1>1, <1>6, <1>18, <3>1
  <2>3. Keeps(b, All, h, edge, X) /\ Decided(b, edge, E) /\ edge \in Int /\ Handled(All, h)
    BY <1>2, <1>5, <1>9, <1>13
  <2>4. Keeps(a, All, h, edge, X) /\ a.carry = <<>>
    <3>1. \A p \in Car(b) : Clear(All, h, p)
      <4>1. \A p \in Car(b) : Past(All, h, p)
        BY <2>3, NotYetCaptured
      <4> QED BY <1>4, <1>6, <2>2, <4>1, TextBehind
    <3>2. \A p \in Car(b) : p \in X \/ Clear(All, h, p)
      BY <3>1
    <3> QED BY <2>1, <2>3, <3>2, CarryCaptured
  <2>5. Decided(a, edge, E) /\ a.alternate = b.alternate
    <3>1. \A p \in Car(b) : p \in E \/ Due(b, h, p)
      BY <1>15, <1>17, <2>2
    <3> QED BY <1>1, <1>13, <2>1, <2>3, <3>1, CarrySettles
  <2>6. \A p \in (flushed + cursor + 1)..(flushed + to) : p \in E \/ Due(a, h, p)
    <3> SUFFICES ASSUME NEW p \in (flushed + cursor + 1)..(flushed + to), p \notin E PROVE Due(a, h, p)
      OBVIOUS
    <3>1. p \in Int /\ p > edge /\ p <= flushed + to /\ p <= fed
      BY <1>1, <1>13, <1>18
    <3>2. p <= front /\ (On(p) <=> b.alternate) /\ Past(All, h, p)
      BY <1>16, <1>18, <3>1
    <3>3. Due(b, h, p)
      BY <1>17, <3>1, <3>2
    <3> QED BY <2>5, <3>3 DEF Due
  <2>7. Decided(AppendOutput(a, Slice(cursor, to)), flushed + to, E)
    <3>1. Reading /\ flushed \in Nat /\ Handled(All, h) /\ to \in Int /\ cursor <= to /\ flushed + to <= Len(stream)
      BY <1>1, <1>18, <2>3
    <3>2. Keeps(a, All, h, flushed + cursor, X) /\ a.carry = <<>> /\ Decided(a, flushed + cursor, E)
      BY <1>13, <2>4, <2>5
    <3> QED BY <2>6, <3>1, <3>2, SliceSettles, Zenon
  <2>8. Ready(AppendOutput(a, Slice(cursor, to))) /\ AppendOutput(a, Slice(cursor, to)).carry = <<>>
    <3>1. PICK y \in Seq(Int) : y = Slice(cursor, to)
      BY <1>1, SliceIs
    <3> QED BY <2>4, <3>1, Appends DEF Keeps
  <2> QED BY <2>1, <2>7, <2>8
<1>19. pending.kind \in {"None", "Earlier", "StartedAt"} /\ Opened
  BY DEF Pumping, Opened, Pendings
<1>20. CASE pending.kind = "StartedAt"
  <2>1. PICK start \in Nat : start = pending.at /\ front = flushed + start /\ InsideOsc(At(stream, fed))
    BY <1>6, <1>19, <1>20 DEF Opened, Frontier
  <2>2. cursor <= start /\ start <= len /\ flushed <= front /\ flushed + start <= fed
    <3>1. flushed + start <= flushed + len /\ flushed <= front
      BY <1>1, <1>6, <1>12, <2>1
    <3>2. n > 0 => flushed + cursor <= flushed + start
      BY <1>11, <2>1
    <3> QED BY <1>1, <1>10, <1>12, <3>1, <3>2
  <2>3. PICK t : t = AppendOutput(FlushCarry(b), Slice(cursor, start))
    OBVIOUS
  <2>4. Ready(t) /\ t.carry = <<>> /\ Decided(t, flushed + start, E)
    <3>1. \A p \in Int : p > edge /\ p <= flushed + start => p \in E \/ p <= front
      BY <2>1
    <3> QED BY <1>18, <2>2, <2>3, <3>1
  <2>5. PICK u : u = [t EXCEPT !.carry = t.carry \o Slice(start, len)]
    OBVIOUS
  <2>6. /\ Decided(u, flushed + len, E)
        /\ \A p \in Car(u) : p \in Car(t) \/ p \in (flushed + start + 1)..(flushed + len)
    <3>1. flushed \in Nat /\ len \in Int /\ Ready(t) /\ Decided(t, flushed + start, E)
      BY <1>1, <2>4
    <3>2. /\ Decided([t EXCEPT !.carry = t.carry \o Slice(start, len)], flushed + len, E)
          /\ \A p \in Car([t EXCEPT !.carry = t.carry \o Slice(start, len)]) :
               p \in Car(t) \/ p \in (flushed + start + 1)..(flushed + len)
      BY <3>1, CarryDecides, Zenon
    <3> QED BY <2>5, <3>2, Zenon
  <2>7. Carried(u, fed, E)
    <3>1. Car(t) = {}
      BY <2>4, NothingInEmpty DEF Car
    <3>2. ASSUME NEW p \in Car(u) PROVE p > front
      <4>1. p \in (flushed + start + 1)..(flushed + len)
        BY <2>6, <3>1
      <4>2. flushed \in Nat
        BY <1>1
      <4> QED BY <2>1, <4>1, <4>2
    <3> QED BY <1>6, <2>1, <3>2 DEF Carried
  <2>8. t.carry \o Slice(start, len) = Slice(start, len)
    <3>1. PICK y \in Seq(Int) : y = Slice(start, len)
      BY <1>1, SliceIs
    <3>2. <<>> \o y = y
      OBVIOUS
    <3> QED BY <2>4, <3>1, <3>2
  <2>9. ConsumeTail(b, cursor, len) = u
    <3>1. ConsumeTail(b, cursor, len) = [t EXCEPT !.carry = Slice(start, len)]
      BY <1>20, <2>1, <2>2, <2>3 DEF ConsumeTail
    <3> QED BY <2>5, <2>8, <3>1
  <2> QED BY <1>7, <1>8, <1>12, <2>6, <2>7, <2>9
<1>21. CASE pending.kind = "Earlier"
  <2>1. PICK u : u = [b EXCEPT !.carry = b.carry \o Slice(cursor, len)]
    OBVIOUS
  <2>2. /\ Decided(u, flushed + len, E)
        /\ \A p \in Car(u) : p \in Car(b) \/ p \in (flushed + cursor + 1)..(flushed + len)
    <3>1. flushed \in Nat /\ len \in Int /\ Ready(b) /\ Decided(b, flushed + cursor, E)
      BY <1>1, <1>9 DEF Keeps
    <3>2. /\ Decided([b EXCEPT !.carry = b.carry \o Slice(cursor, len)], flushed + len, E)
          /\ \A p \in Car([b EXCEPT !.carry = b.carry \o Slice(cursor, len)]) :
               p \in Car(b) \/ p \in (flushed + cursor + 1)..(flushed + len)
      BY <3>1, CarryDecides, Zenon
    <3> QED BY <2>1, <3>2, Zenon
  <2>3. InsideOsc(At(stream, fed)) /\ (seam \/ front < flushed)
    BY <1>6, <1>19, <1>21 DEF Opened, Frontier
  <2>4. front < flushed => front = Frontier(stream, flushed)
    BY <1>1, <1>6
  <2>5. ASSUME NEW p \in Car(u), p \notin E PROVE p > front
    <3>1. CASE p \in Car(b)
      <4>1. ~seam /\ p > Frontier(stream, flushed)
        BY <1>15, <2>5, <3>1
      <4> QED BY <2>3, <2>4, <4>1
    <3>2. CASE p \in (flushed + cursor + 1)..(flushed + len)
      <4>1. p \in Int /\ p > edge /\ p <= fed /\ p > flushed
        BY <1>1, <1>12, <1>13, <3>2
      <4>2. p \in Batch
        BY <1>16, <2>5, <4>1
      <4>3. ~seam
        BY <2>5, <4>2 DEF Exempt
      <4> QED BY <1>1, <1>6, <2>3, <4>1, <4>3
    <3> QED BY <2>2, <3>1, <3>2
  <2>6. Carried(u, fed, E)
    BY <1>6, <2>3, <2>5 DEF Carried
  <2>7. ConsumeTail(b, cursor, len) = u
    BY <1>21, <2>1 DEF ConsumeTail
  <2> QED BY <1>7, <1>8, <1>12, <2>2, <2>6, <2>7
<1>22. CASE pending.kind = "None"
  <2>1. ~InsideOsc(At(stream, fed)) /\ (scanner.state = "Escape" <=> At(stream, fed).state = "Escape")
    BY <1>1, <1>19, <1>22 DEF Opened, Pumping, InStep, Alike
  <2>2. front = IF scanner.state = "Escape" THEN fed - 1 ELSE fed
    BY <1>6, <2>1 DEF Frontier
  <2>3. \A p \in Int : p <= fed => p \in E \/ p <= front
    BY <1>1, <2>2 DEF Exempt
  <2>4. PICK t : t = AppendOutput(FlushCarry(b), Slice(cursor, len))
    OBVIOUS
  <2>5. Ready(t) /\ t.carry = <<>> /\ Decided(t, flushed + len, E)
    <3>1. flushed + len <= fed /\ flushed <= front
      BY <1>1, <1>12, <2>2
    <3>2. \A p \in Int : p > edge /\ p <= flushed + len => p \in E \/ p <= front
      BY <1>12, <2>3
    <3> QED BY <1>14, <1>18, <2>4, <3>1, <3>2
  <2>6. Carried(t, fed, E)
    BY <2>5, NothingInEmpty DEF Carried, Car
  <2>7. ConsumeTail(b, cursor, len) = t
    BY <1>22, <2>4 DEF ConsumeTail
  <2> QED BY <1>7, <1>8, <1>12, <2>5, <2>6, <2>7
<1> QED BY <1>19, <1>20, <1>21, <1>22

-----------------------------------------------------------------------------
(* A whole batch, and the end of the session.                                *)
Except == excused.seams \cup excused.switches \cup excused.splits

(* What is settled depends on the Blocks and the carry, and E may grow.      *)
LEMMA DecidedMore ==
  ASSUME NEW b, NEW t, t.blocks = b.blocks, t.carry = b.carry, NEW n, NEW E, NEW E2, E \subseteq E2
  PROVE  /\ Decided(b, n, E) => Decided(t, n, E2)
         /\ Carried(b, n, E) => Carried(t, n, E2)
<1>1. \A p : Settled(t, p) <=> Settled(b, p)
  BY Zenon DEF Settled, Cap
<1>2. Car(t) = Car(b)
  BY DEF Car
<1>3. \A p \in E : p \in E2
  OBVIOUS
<1> QED BY <1>1, <1>2, <1>3, Zenon DEF Decided, Carried

(* A flush settles the batch, or carries the head of a marker cut in it.     *)
LEMMA BatchSettles ==
  ASSUME Pumping, Screened, Flush, Keeps(builder, All, Done(flushed), flushed, excused.splits),
         Decided(builder, flushed, Except), Carried(builder, flushed, Except)
  PROVE  Decided(builder', fed, Except') /\ Carried(builder', fed, Except')
<1>1. fed > flushed /\ builder' = Consume(builder, fed - flushed) /\ Batched
  BY BatchedIs DEF Flush
<1>2. flushed \in Nat /\ fed \in Nat /\ alternate \in BOOLEAN
  BY PumpNumbers DEF Reading
<1>3. PICK E : E = Except'
  OBVIOUS
<1>4. Except \subseteq E /\ Exempt(E)
  BY <1>3 DEF Flush, Except, Exempt, Car
<1>5. PICK b : b = [builder EXCEPT !.alternate = alternate]
  OBVIOUS
<1>6. Keeps(b, All, Done(flushed), flushed, excused.splits)
  BY <1>2, <1>5, ScreenOnly
<1>7. b.blocks = builder.blocks /\ b.carry = builder.carry /\ (b.alternate <=> alternate)
  <2>1. builder \in Builders
    BY DEF Keeps, Ready
  <2> QED BY <1>5, <2>1, BuilderFields
<1>8. Decided(b, flushed, E) /\ Carried(builder, flushed, E) /\ Car(b) = Car(builder)
  BY <1>4, <1>7, DecidedMore DEF Car
<1>9. flushed + 0 = flushed /\ Done(flushed) + 0 = Done(flushed)
  BY <1>1, <1>2 DEF Batched
<1>10. PICK n \in Nat : n = Len(signals)
  BY <1>1 DEF Batched
<1>11. PICK f : /\ f[0] = [builder |-> b, cursor |-> 0]
                /\ \A i \in Nat : i < n => f[i + 1] = ConsumeSignal(f[i], signals[i + 1])
                /\ Consume(builder, fed - flushed) = ConsumeTail(f[n].builder, f[n].cursor, fed - flushed)
  BY <1>1, <1>5, <1>10, ConsumeStates
<1>12. PICK X : X = excused.splits
  OBVIOUS
<1> DEFINE P == {i \in Nat : i <= n => Mid(f[i], i, X) /\ Settling(f[i], i, E)}
<1>13. 0 \in P
  <2>1. f[0].builder = b /\ f[0].cursor = 0
    BY <1>11
  <2>2. Mid(f[0], 0, X)
    BY <1>6, <1>9, <1>12, <2>1 DEF Mid
  <2>3. Settling(f[0], 0, E)
    BY <1>7, <1>8, <1>9, <2>1 DEF Settling
  <2> QED BY <2>2, <2>3
<1>14. ASSUME NEW i \in P PROVE i + 1 \in P
  <2>1. i \in Nat /\ i + 1 \in Nat
    OBVIOUS
  <2>2. ASSUME i + 1 <= n PROVE Mid(f[i + 1], i + 1, X) /\ Settling(f[i + 1], i + 1, E)
    <3>1. i < n /\ i <= n
      BY <2>1, <2>2
    <3>2. f[i + 1] = ConsumeSignal(f[i], signals[i + 1])
      BY <1>11, <2>1, <3>1
    <3>3. PICK at : at = f[i]
      OBVIOUS
    <3>4. Mid(at, i, X) /\ Settling(at, i, E)
      BY <3>1, <3>3
    <3>5. Mid(ConsumeSignal(at, signals[i + 1]), i + 1, X)
      BY <1>1, <1>2, <1>10, <2>1, <3>1, <3>4, MidSignal
    <3>6. Settling(ConsumeSignal(at, signals[i + 1]), i + 1, E)
      BY <1>1, <1>4, <1>8, <1>10, <2>1, <3>1, <3>4, SettlingSignal
    <3> QED BY <3>2, <3>3, <3>5, <3>6
  <2> QED BY <2>1, <2>2
<1>15. P = Nat
  <2>1. P \in SUBSET Nat
    OBVIOUS
  <2> HIDE DEF P
  <2> QED BY <1>13, <1>14, <2>1, Induction
<1>16. n \in P /\ n <= n
  BY <1>15
<1>17. PICK at : at = f[n]
  OBVIOUS
<1>18. Mid(at, Len(signals), X) /\ Settling(at, Len(signals), E)
  BY <1>10, <1>16, <1>17
<1>19. LET t == ConsumeTail(at.builder, at.cursor, fed - flushed) IN Decided(t, fed, E) /\ Carried(t, fed, E)
  BY <1>1, <1>4, <1>8, <1>18, TailSettles
<1> QED BY <1>1, <1>3, <1>11, <1>17, <1>19

(* When the session ends, what is carried is not output, and all is settled. *)
LEMMA EndSettles ==
  ASSUME Pumping, SessionEnds, Keeps(builder, All, Done(flushed), flushed, excused.splits),
         Decided(builder, flushed, Except), Carried(builder, flushed, Except)
  PROVE  OutputExact'
<1>1. All \in Seq(Hits) /\ flushed = Len(stream) /\ Reading /\ flushed \in Nat
  BY AllIs DEF Pumping, SessionEnds
<1>2. PICK m \in Seq(Hits) : m = All
  BY <1>1
<1>3. PICK c \in Nat : c = Len(m) /\ c = Done(flushed)
  <2>1. Len(m) \in Nat
    OBVIOUS
  <2> QED BY <1>1, <1>2, <2>1 DEF Done, All
<1>4. Ready(builder) /\ Control(builder, m, c) /\ Keeps(builder, m, c, flushed, excused.splits)
  BY <1>2, <1>3 DEF Keeps
<1>5. PICK f : f = FinishCommand(builder, "code")
  OBVIOUS
<1>6. Ready(f) /\ Len(f.blocks) = Len(builder.blocks) /\ Settles(builder, f, TRUE, "code")
  <2>1. "code" \in Exits
    BY DEF Exits
  <2> QED BY <1>4, <1>5, <2>1, FinishIs
<1>7. builder'.blocks = f.blocks
  <2>1. builder' = [f EXCEPT !.phase = "Unsynced"] /\ "Unsynced" \in Phases
    BY <1>5 DEF SessionEnds, Phases
  <2>2. LET t == [f EXCEPT !.phase = "Unsynced"]
        IN  /\ Ready(t) /\ t.meta = f.meta /\ t.running = f.running /\ t.carry = f.carry
            /\ t.alternate = f.alternate /\ t.blocks = f.blocks
    BY <1>6, <2>1, PhaseOnly
  <2> QED BY <2>1, <2>2
<1>8. marked' = marked /\ excused' = excused
  BY DEF SessionEnds
<1>9. PICK n \in Nat : n = Len(builder.blocks)
  BY <1>4, BuilderFields DEF Ready
<1>10. DOMAIN builder'.blocks = 1..n
  <2>1. f.blocks \in Seq(Blocks)
    BY <1>6, BuilderFields DEF Ready
  <2> QED BY <1>6, <1>7, <1>9, <2>1
<1>11. Len(AllExecutes) = n
  BY <1>2, <1>3, <1>4, <1>9 DEF AllExecutes, Control
<1>12. \A k \in 1..n : ToSet(builder'.blocks[k].output) = Cap(builder, k)
  BY <1>6, <1>7, <1>9 DEF Settles, Cap
<1>13. ASSUME NEW p \in 1..Len(stream), p \notin Except PROVE Settled(builder, p)
  <2>1. CASE p \in Car(builder)
    <3>1. InsideOsc(At(stream, Len(stream))) /\ p > Frontier(stream, Len(stream))
      BY <1>1, <1>13, <2>1 DEF Carried
    <3>2. Frontier(stream, Len(stream)) \in Nat
      BY PumpNumbers
    <3>3. ~InText(p)
      <4>1. ~(p <= Frontier(stream, Len(stream)))
        BY <3>1, <3>2
      <4> QED BY <3>1, <4>1 DEF InText
    <3>4. Uncaptured(builder, p)
      <4>1. flushed \in Int
        BY <1>1
      <4> QED BY <1>4, <2>1, <4>1, NotYetCaptured
    <3> QED BY <1>1, <1>4, <3>3, <3>4, SettledSilent
  <2>2. CASE p \notin Car(builder)
    BY <1>1, <1>13, <2>2 DEF Decided
  <2> QED BY <2>1, <2>2
<1>14. ASSUME NEW k \in 1..n, NEW p, p \notin Except
       PROVE  p \in Cap(builder, k) <=> p \in marked[k].output
  <2>1. CASE p \in 1..Len(stream)
    <3>1. p \in marked[k].output <=> k <= n /\ p \in Cap(builder, k)
      BY <1>9, <1>11, <1>13, <1>14, <2>1 DEF Settled
    <3> QED BY <3>1
  <2>2. CASE p \notin 1..Len(stream)
    <3>1. p \notin marked[k].output
      BY <1>1, <1>11, <2>2, MarkedIs
    <3>2. p \notin Cap(builder, k)
      <4>1. Captured(k) \subseteq marked[k].region \cup excused.splits
        <5>1. InItsOwnBlock
          BY KeptInItsOwnBlock
        <5>2. k \in DOMAIN builder.blocks
          <6>1. builder.blocks \in Seq(Blocks)
            BY <1>4, BuilderFields DEF Ready
          <6> QED BY <1>9, <6>1
        <5> QED BY <5>1, <5>2 DEF InItsOwnBlock
      <4>2. p \notin marked[k].region
        BY <1>1, <1>11, <2>2, MarkedIs
      <4>3. p \notin excused.splits
        BY <1>14 DEF Except
      <4> QED BY <4>1, <4>2, <4>3 DEF Captured, Cap
    <3> QED BY <3>1, <3>2
  <2> QED BY <2>1, <2>2
<1>15. \A k \in 1..n : Cap(builder, k) \ Except = marked[k].output \ Except
  BY <1>14
<1> QED BY <1>8, <1>10, <1>12, <1>15 DEF OutputExact, Exact, Captured, Except

-----------------------------------------------------------------------------
(* The invariant: what is settled, and what is carried.                      *)
Deciding ==
  /\ Screened
  /\ ~ended => Decided(builder, flushed, Except) /\ Carried(builder, flushed, Except)
  /\ ended => OutputExact

(* Nothing is read, so nothing is left to settle.                            *)
LEMMA DecidingFirst == Init => Deciding
<1> SUFFICES ASSUME Init PROVE Deciding
  OBVIOUS
<1>1. flushed = 0 /\ ended = FALSE /\ builder.carry = <<>>
  BY DEF Init, NewBuilder
<1>2. 1..0 = {} /\ Car(builder) = {}
  BY <1>1, NothingInEmpty DEF Car
<1> QED BY <1>1, <1>2, ScreenedFirst DEF Deciding, Decided, Carried

(* The parts of the next state, seen from this one.                          *)
LEMMA DecidedNext ==
  ASSUME stream' = stream, marked' = marked
  PROVE  (Decided(builder, flushed, Except) /\ Carried(builder, flushed, Except))'
           <=> Decided(builder', flushed', Except') /\ Carried(builder', flushed', Except')
<1>1. AllExecutes' = AllExecutes
  BY DEF AllExecutes, All
<1>2. \A p : Settled(builder, p)' <=> Settled(builder', p)
  BY <1>1, Zenon DEF Settled, Cap
<1>3. Decided(builder, flushed, Except)' <=> Decided(builder', flushed', Except')
  BY <1>2, Zenon DEF Decided, Car
<1>4. Carried(builder, flushed, Except)' <=> Carried(builder', flushed', Except')
  BY Zenon DEF Carried, Car
<1> QED BY <1>3, <1>4

(* Every step keeps it.                                                      *)
LEMMA DecidingStep == ASSUME Pumping, Building, Deciding, [Next]_vars PROVE Deciding'
<1>1. Screened'
  BY ScreenedStep DEF Deciding
<1>2. CASE UNCHANGED <<stream, marked, flushed, builder, ended, excused>>
  <2>1. Except' = Except
    BY <1>2 DEF Except
  <2>2. OutputExact' <=> OutputExact
    BY <1>2 DEF OutputExact, Exact, Captured
  <2> QED BY <1>1, <1>2, <2>1, <2>2, DecidedNext DEF Deciding
<1>3. CASE Flush
  <2>1. stream' = stream /\ marked' = marked /\ flushed' = fed /\ ended' = ended /\ fed > flushed
    BY <1>3 DEF Flush
  <2>2. ~ended
    <3>1. fed \in 0..Len(stream) /\ flushed \in 0..fed /\ Len(stream) \in Nat
      BY AllIs DEF Pumping, Reading
    <3> QED BY <2>1, <3>1 DEF Building
  <2>3. Decided(builder', fed, Except') /\ Carried(builder', fed, Except')
    BY <1>3, <2>2, BatchSettles DEF Building, Deciding
  <2>4. Decided(builder', flushed', Except') /\ Carried(builder', flushed', Except')
    BY <2>1, <2>3
  <2> QED BY <1>1, <2>1, <2>2, <2>4, DecidedNext DEF Deciding
<1>4. CASE SessionEnds
  <2>1. ~ended /\ ended' = TRUE
    BY <1>4 DEF SessionEnds
  <2>2. OutputExact'
    BY <1>4, <2>1, EndSettles DEF Building, Deciding
  <2> QED BY <1>1, <2>1, <2>2 DEF Deciding
<1>5. CASE \E n \in 1..Len(stream) : Read(n)
  BY <1>2, <1>5 DEF Read
<1>6. CASE UNCHANGED vars
  BY <1>2, <1>6 DEF vars
<1> QED BY <1>3, <1>4, <1>5, <1>6 DEF Next

(* Every Block has captured exactly the bytes its command wrote to the normal *)
(* screen, however reads and batches cut the stream: consume neither loses a  *)
(* byte it carries over a batch nor lets a marker's bytes in, but for the     *)
(* bytes of a batch with a lost marker start or a change of screen, and an    *)
(* Escape a batch ended in.                                                   *)
THEOREM OutputAsMarked == Spec => []OutputExact
<1>1. Init => Pumping /\ Building /\ Deciding
  BY PumpingFirst, BuildingFirst, DecidingFirst
<1>2. Pumping /\ Building /\ Deciding /\ [Next]_vars => (Pumping /\ Building /\ Deciding)'
  BY PumpingStep, BuildingStep, DecidingStep
<1>3. Deciding => OutputExact
  BY DEF Deciding, OutputExact, Exact
<1> QED BY <1>1, <1>2, <1>3, PTL DEF Spec
===============================================================================
