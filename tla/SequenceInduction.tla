-------------------------- MODULE SequenceInduction --------------------------
(***************************************************************************)
(* What the proofs of several components need of sequences: induction, on  *)
(* the naturals from the well-foundedness of <, and on sequences; what     *)
(* FlattenSeq computes, of appended and of concatenated sequences; and the *)
(* laws of concatenation under a name the provers do not look behind.      *)
(***************************************************************************)
EXTENDS SequencesExt, FiniteSetsExt, SequenceTheorems, WellFoundedInduction, TLAPS

-----------------------------------------------------------------------------
(* Induction on the naturals, from the well-foundedness of <.                *)
LEMMA Induction ==
  ASSUME NEW S \in SUBSET Nat, 0 \in S, \A n \in S : n + 1 \in S
  PROVE  S = Nat
<1> DEFINE Below == {ss \in Nat \X Nat : ss[1] < ss[2]}
<1>1. IsWellFoundedOn(Below, Nat)
  BY NatLessThanWellFounded DEF OpToRel
<1>2. SUFFICES ASSUME Nat \ S # {} PROVE FALSE
  OBVIOUS
<1>3. PICK n \in Nat \ S : \A m \in Nat \ S : <<m, n>> \notin Below
  <2> HIDE DEF Below
  <2> QED BY <1>1, <1>2, WFMin
<1>4. n # 0 /\ n - 1 \in Nat /\ <<n - 1, n>> \in Below
  BY <1>3
<1>5. n - 1 \in S
  BY <1>3, <1>4
<1> QED BY <1>3, <1>4, <1>5

(* The function FlattenSeq is defined by, over the first n of the sequences. *)
Sums(f, n, s) == f = [i \in 1..n |-> IF i = 1 THEN s[i] ELSE f[i - 1] \o s[i]]

(* There is one, however many sequences there are.                           *)
LEMMA SumsExist == ASSUME NEW s PROVE \A n \in Nat : \E f : Sums(f, n, s)
<1> DEFINE P == {n \in Nat : \E f : Sums(f, n, s)}
<1>1. 0 \in P
  <2> DEFINE f == [i \in 1..0 |-> IF i = 1 THEN s[i] ELSE <<>>]
  <2>1. Sums(f, 0, s)
    BY DEF Sums
  <2> HIDE DEF f
  <2> QED BY <2>1
<1>2. ASSUME NEW n \in P PROVE n + 1 \in P
  <2>1. PICK f : Sums(f, n, s)
    OBVIOUS
  <2> DEFINE g == [i \in 1..(n + 1) |-> IF i = 1 THEN s[i] ELSE f[i - 1] \o s[i]]
  <2>a. n \in Nat
    BY DEF P
  <2>2. \A i \in 1..n : g[i] = f[i]
    <3> SUFFICES ASSUME NEW i \in 1..n PROVE g[i] = f[i]
      OBVIOUS
    <3>1. f[i] = IF i = 1 THEN s[i] ELSE f[i - 1] \o s[i]
      BY <2>1, Zenon DEF Sums
    <3>2. i \in 1..(n + 1)
      BY <2>a
    <3> QED BY <3>1, <3>2
  <2>3. g = [i \in 1..(n + 1) |-> IF i = 1 THEN s[i] ELSE g[i - 1] \o s[i]]
    <3>1. \A i \in 1..(n + 1) : i # 1 => i - 1 \in 1..n
      BY <2>a
    <3>2. \A i \in 1..(n + 1) : i # 1 => g[i - 1] = f[i - 1]
      BY <2>2, <3>1
    <3> QED BY <3>2
  <2>4. Sums(g, n + 1, s)
    BY <2>3 DEF Sums
  <2> HIDE DEF g
  <2> QED BY <2>4
<1> HIDE DEF P
<1>3. P = Nat
  <2>1. P \in SUBSET Nat
    BY DEF P
  <2> QED BY <1>1, <1>2, <2>1, Induction
<1> QED BY <1>3 DEF P

(* It is the one FlattenSeq reads its result off.                            *)
LEMMA FlattenIs == ASSUME NEW s, Len(s) \in Nat, Len(s) # 0
                   PROVE \E f : Sums(f, Len(s), s) /\ FlattenSeq(s) = f[Len(s)]
<1> DEFINE f == CHOOSE f : f = [i \in 1..Len(s) |-> IF i = 1 THEN s[i] ELSE f[i - 1] \o s[i]]
<1>1. \E g : g = [i \in 1..Len(s) |-> IF i = 1 THEN s[i] ELSE g[i - 1] \o s[i]]
  BY SumsExist DEF Sums
<1>2. f = [i \in 1..Len(s) |-> IF i = 1 THEN s[i] ELSE f[i - 1] \o s[i]]
  BY <1>1, Zenon
<1>3. FlattenSeq(s) = f[Len(s)]
  BY DEF FlattenSeq
<1> HIDE DEF f
<1> QED BY <1>2, <1>3 DEF Sums

(* Two such functions agree as far as both go and their sequences do.        *)
LEMMA SumsAgree ==
  ASSUME NEW s, NEW t, NEW m \in Nat, NEW n \in Nat, NEW f, NEW g, m <= n,
         Sums(f, m, s), Sums(g, n, t), \A i \in 1..m : s[i] = t[i]
  PROVE  \A k \in 1..m : f[k] = g[k]
<1> DEFINE P == {k \in Nat : k \in 1..m => f[k] = g[k]}
<1>1. 0 \in P
  OBVIOUS
<1>2. ASSUME NEW k \in P PROVE k + 1 \in P
  <2> SUFFICES ASSUME k + 1 \in 1..m PROVE f[k + 1] = g[k + 1]
    OBVIOUS
  <2>1. k \in Nat /\ k + 1 \in 1..n /\ (k + 1) - 1 = k
    OBVIOUS
  <2>2. f[k + 1] = IF k + 1 = 1 THEN s[k + 1] ELSE f[(k + 1) - 1] \o s[k + 1]
    BY Zenon DEF Sums
  <2>3. g[k + 1] = IF k + 1 = 1 THEN t[k + 1] ELSE g[(k + 1) - 1] \o t[k + 1]
    BY <2>1, Zenon DEF Sums
  <2>4. CASE k = 0
    BY <2>2, <2>3, <2>4
  <2>5. CASE k # 0
    <3>1. f[k] = g[k]
      BY <2>1, <2>5
    <3> QED BY <2>1, <2>2, <2>3, <2>5, <3>1
  <2> QED BY <2>4, <2>5
<1>3. P = Nat
  <2>1. P \in SUBSET Nat
    OBVIOUS
  <2> HIDE DEF P
  <2> QED BY <1>1, <1>2, <2>1, Induction
<1> QED BY <1>3

(* Of no sequences it is the empty one, ...                                  *)
LEMMA FlattenEmpty == FlattenSeq(<<>>) = <<>>
  BY DEF FlattenSeq

(* ... and of sequences over S it is one over S.                             *)
LEMMA SumsTyped ==
  ASSUME NEW S, NEW s \in Seq(Seq(S)), NEW f, Sums(f, Len(s), s)
  PROVE  \A k \in 1..Len(s) : f[k] \in Seq(S)
<1> DEFINE P == {k \in Nat : k \in 1..Len(s) => f[k] \in Seq(S)}
<1>1. 0 \in P
  OBVIOUS
<1>2. ASSUME NEW k \in P PROVE k + 1 \in P
  <2> SUFFICES ASSUME k + 1 \in 1..Len(s) PROVE f[k + 1] \in Seq(S)
    OBVIOUS
  <2>1. k \in Nat /\ (k + 1) - 1 = k /\ s[k + 1] \in Seq(S) /\ Len(s) \in Nat
    OBVIOUS
  <2>2. f[k + 1] = IF k + 1 = 1 THEN s[k + 1] ELSE f[(k + 1) - 1] \o s[k + 1]
    BY Zenon DEF Sums
  <2>3. CASE k = 0
    BY <2>1, <2>2, <2>3
  <2>4. CASE k # 0
    <3>1. f[k] \in Seq(S)
      BY <2>1, <2>4
    <3>2. k + 1 # 1
      BY <2>1, <2>4
    <3>3. f[k + 1] = f[k] \o s[k + 1]
      BY <2>1, <2>2, <3>2, Zenon
    <3> QED BY <2>1, <3>1, <3>3, ConcatProperties
  <2> QED BY <2>3, <2>4
<1>3. P = Nat
  <2>1. P \in SUBSET Nat
    OBVIOUS
  <2> HIDE DEF P
  <2> QED BY <1>1, <1>2, <2>1, Induction
<1> QED BY <1>3

(* So the flattened sequence is one over S.                                  *)
LEMMA FlattenTyped ==
  ASSUME NEW S, NEW s \in Seq(Seq(S)) PROVE FlattenSeq(s) \in Seq(S)
<1>1. CASE s = <<>>
  <2>1. <<>> \in Seq(S)
    OBVIOUS
  <2> QED BY <1>1, <2>1, FlattenEmpty, Zenon
<1>2. CASE s # <<>>
  <2>1. Len(s) \in Nat /\ Len(s) # 0 /\ Len(s) \in 1..Len(s)
    BY <1>2
  <2>2. PICK f : Sums(f, Len(s), s) /\ FlattenSeq(s) = f[Len(s)]
    BY <2>1, FlattenIs
  <2> QED BY <2>1, <2>2, SumsTyped
<1> QED BY <1>1, <1>2

(* One more sequence at the back only adds to what was there, ...            *)
LEMMA SumsGrow ==
  ASSUME NEW s, NEW t, NEW n \in Nat, n # 0, Len(s) = n, Len(t) = n + 1,
         \A i \in 1..n : t[i] = s[i]
  PROVE  FlattenSeq(t) = FlattenSeq(s) \o t[n + 1]
<1>1. PICK f : Sums(f, n, s) /\ FlattenSeq(s) = f[n]
  BY FlattenIs
<1>2. PICK m \in Nat : m = n + 1
  OBVIOUS
<1>3. m # 0 /\ Len(t) = m
  BY <1>2
<1>4. PICK g : Sums(g, m, t) /\ FlattenSeq(t) = g[m]
  BY <1>3, FlattenIs
<1>5. \A k \in 1..n : f[k] = g[k]
  <2>1. n <= m /\ \A i \in 1..n : s[i] = t[i]
    BY <1>2
  <2> QED BY <1>1, <1>4, <2>1, SumsAgree
<1>6. g[m] = IF m = 1 THEN t[m] ELSE g[m - 1] \o t[m]
  <2>1. m \in 1..m
    BY <1>2
  <2> QED BY <1>4, <2>1, Zenon DEF Sums
<1>7. m # 1 /\ m - 1 = n /\ n \in 1..n
  BY <1>2
<1> QED BY <1>1, <1>2, <1>4, <1>5, <1>6, <1>7

(* ... so FlattenSeq of an Append is what it was and the new one, ...        *)
LEMMA FlattenAppend ==
  ASSUME NEW S, NEW s \in Seq(Seq(S)), NEW x \in Seq(S)
  PROVE  FlattenSeq(Append(s, x)) = FlattenSeq(s) \o x
<1> DEFINE t == Append(s, x)
           n == Len(s)
<1>1. /\ t \in Seq(Seq(S)) /\ n \in Nat /\ Len(t) = n + 1 /\ n + 1 # 0 /\ n + 1 \in Nat
      /\ t[n + 1] = x /\ \A i \in 1..n : t[i] = s[i]
  BY AppendProperties
<1>2. CASE s = <<>>
  <2>1. PICK g : Sums(g, 1, t) /\ FlattenSeq(t) = g[1]
    BY <1>1, <1>2, FlattenIs
  <2>2. g[1] = t[1]
    BY <2>1 DEF Sums
  <2>3. t[1] = x
    BY <1>1, <1>2
  <2>4. <<>> \o x = x
    OBVIOUS
  <2> QED BY <1>2, <2>1, <2>2, <2>3, <2>4, FlattenEmpty
<1>3. CASE s # <<>>
  <2>1. n # 0
    BY <1>1, <1>3
  <2> QED BY <1>1, <2>1, SumsGrow
<1> QED BY <1>2, <1>3

(* Induction on sequences, an item at the back at a time.                    *)
LEMMA InductionOnSeq ==
  ASSUME NEW S, NEW P \in SUBSET Seq(S), <<>> \in P, \A s \in P, e \in S : Append(s, e) \in P
  PROVE  P = Seq(S)
<1> DEFINE Done == {n \in Nat : \A s \in Seq(S) : Len(s) = n => s \in P}
<1>1. 0 \in Done
  <2>1. \A s \in Seq(S) : Len(s) = 0 => s = <<>>
    BY EmptySeq
  <2> QED BY <2>1
<1>2. ASSUME NEW n \in Done PROVE n + 1 \in Done
  <2> SUFFICES ASSUME NEW s \in Seq(S), Len(s) = n + 1 PROVE s \in P
    OBVIOUS
  <2>1. PICK t \in Seq(S), e \in S : s = Append(t, e)
    <3>1. s # <<>>
      BY EmptySeq
    <3> QED BY <3>1, SequenceEmptyOrAppend
  <2>2. Len(t) \in Nat /\ Len(s) = Len(t) + 1
    BY <2>1, AppendProperties
  <2>3. t \in P
    <3>1. Len(t) = n
      BY <2>2
    <3> QED BY <3>1
  <2> QED BY <2>1, <2>3
<1>3. Done = Nat
  <2>1. Done \in SUBSET Nat
    OBVIOUS
  <2> HIDE DEF Done
  <2> QED BY <1>1, <1>2, <2>1, Induction
<1>4. ASSUME NEW s \in Seq(S) PROVE s \in P
  <2>1. Len(s) \in Nat
    OBVIOUS
  <2> QED BY <1>3, <2>1
<1> QED BY <1>4

(* ... and a sequence at the front comes first.                              *)
LEMMA FlattenHead ==
  ASSUME NEW S
  PROVE  \A s \in Seq(Seq(S)) : s # <<>> => FlattenSeq(s) = Head(s) \o FlattenSeq(Tail(s))
<1>a. \A h, u, x \in Seq(S) : (h \o u) \o x = h \o (u \o x)
  BY ConcatAssociative
<1> DEFINE P == {t \in Seq(Seq(S)) : t # <<>> => FlattenSeq(t) = Head(t) \o FlattenSeq(Tail(t))}
<1>1. <<>> \in P
  OBVIOUS
<1>2. ASSUME NEW t \in P, NEW x \in Seq(S) PROVE Append(t, x) \in P
  <2>1. /\ Append(t, x) \in Seq(Seq(S))
        /\ FlattenSeq(Append(t, x)) = FlattenSeq(t) \o x
    BY AppendProperties, FlattenAppend
  <2>2. CASE t = <<>>
    <3>1. /\ Head(Append(t, x)) = x /\ Tail(Append(t, x)) = <<>>
      BY <2>2, HeadTailAppend
    <3>2. x \o <<>> = x /\ <<>> \o x = x
      BY ConcatEmptySeq
    <3>3. FlattenSeq(Append(t, x)) = Head(Append(t, x)) \o FlattenSeq(Tail(Append(t, x)))
      BY <2>1, <2>2, <3>1, <3>2, FlattenEmpty, Zenon
    <3> QED BY <2>1, <3>3
  <2>3. CASE t # <<>>
    <3>1. /\ Head(Append(t, x)) = Head(t) /\ Tail(Append(t, x)) = Append(Tail(t), x)
      BY <2>3, HeadTailAppend
    <3>2. Head(t) \in Seq(S) /\ Tail(t) \in Seq(Seq(S))
      BY <2>3, HeadTailProperties
    <3>3. FlattenSeq(Append(Tail(t), x)) = FlattenSeq(Tail(t)) \o x
      BY <3>2, FlattenAppend
    <3>4. FlattenSeq(t) = Head(t) \o FlattenSeq(Tail(t))
      BY <2>3
    <3>5. FlattenSeq(Tail(t)) \in Seq(S)
      BY <3>2, FlattenTyped
    <3>6. (Head(t) \o FlattenSeq(Tail(t))) \o x = Head(t) \o (FlattenSeq(Tail(t)) \o x)
      BY <3>2, <3>5, <1>a, Zenon
    <3>7. FlattenSeq(Append(t, x)) = Head(Append(t, x)) \o FlattenSeq(Tail(Append(t, x)))
      BY <2>1, <3>1, <3>3, <3>4, <3>6, Zenon
    <3> QED BY <2>1, <3>7
  <2> QED BY <2>2, <2>3
<1>3. P = Seq(Seq(S))
  <2>1. P \in SUBSET Seq(Seq(S))
    OBVIOUS
  <2> HIDE DEF P
  <2> QED BY <1>1, <1>2, <2>1, InductionOnSeq
<1> QED BY <1>3

(* Concatenation, under a name the provers do not look behind.               *)
Cat(a, b) == a \o b

(* What the library says of concatenation, said of Cat.                      *)
LEMMA CatSeq ==
  ASSUME NEW S, NEW a \in Seq(S), NEW b \in Seq(S) PROVE Cat(a, b) \in Seq(S)
  BY ConcatProperties DEF Cat

LEMMA CatAssoc ==
  ASSUME NEW S, NEW a \in Seq(S), NEW b \in Seq(S), NEW c \in Seq(S)
  PROVE  Cat(Cat(a, b), c) = Cat(a, Cat(b, c))
  BY ConcatAssociative DEF Cat

LEMMA CatAppend ==
  ASSUME NEW S, NEW a \in Seq(S), NEW x \in S PROVE Append(a, x) = Cat(a, <<x>>)
  BY AppendIsConcat DEF Cat

(* FlattenSeq of two sequences of sequences, one after the other.            *)
LEMMA FlattenConcat ==
  ASSUME NEW S, NEW s \in Seq(Seq(S))
  PROVE  \A t \in Seq(Seq(S)) : FlattenSeq(s \o t) = FlattenSeq(s) \o FlattenSeq(t)
<1>a. \A h, u, x \in Seq(S) : Cat(Cat(h, u), x) = Cat(h, Cat(u, x))
  BY CatAssoc
<1> DEFINE P == {t \in Seq(Seq(S)) : FlattenSeq(s \o t) = FlattenSeq(s) \o FlattenSeq(t)}
<1>1. <<>> \in P
  <2>1. FlattenSeq(s) \in Seq(S)
    BY FlattenTyped
  <2>2. FlattenSeq(s) \o <<>> = FlattenSeq(s)
    BY <2>1, ConcatEmptySeq
  <2>3. s \o <<>> = s
    BY ConcatEmptySeq
  <2>4. FlattenSeq(s \o <<>>) = FlattenSeq(s) \o FlattenSeq(<<>>)
    BY <2>2, <2>3, FlattenEmpty, Zenon
  <2>5. <<>> \in Seq(Seq(S))
    OBVIOUS
  <2> QED BY <2>4, <2>5
<1>2. ASSUME NEW t \in P, NEW x \in Seq(S) PROVE Append(t, x) \in P
  <2>1. s \o Append(t, x) = Append(s \o t, x) /\ s \o t \in Seq(Seq(S))
    <3>1. s \o t \in Seq(Seq(S)) /\ Append(t, x) \in Seq(Seq(S))
      BY ConcatProperties, AppendProperties
    <3>a. <<x>> \in Seq(Seq(S))
      OBVIOUS
    <3>2. PICK y \in Seq(Seq(S)) : y = <<x>>
      BY <3>a, Zenon
    <3>3. /\ Append(t, x) = Cat(t, y) /\ Append(Cat(s, t), x) = Cat(Cat(s, t), y)
      BY <3>1, <3>2, AppendIsConcat DEF Cat
    <3>4. Cat(Cat(s, t), y) = Cat(s, Cat(t, y))
      <4>1. PICK T : T = Seq(S)
        OBVIOUS
      <4>2. s \in Seq(T) /\ t \in Seq(T) /\ y \in Seq(T)
        BY <3>2, <4>1
      <4> QED BY <4>2, CatAssoc
    <3>5. Cat(s, Append(t, x)) = Append(Cat(s, t), x)
      BY <3>3, <3>4, Zenon
    <3> QED BY <3>1, <3>5 DEF Cat
  <2>2. FlattenSeq(Append(s \o t, x)) = FlattenSeq(s \o t) \o x
    BY <2>1, FlattenAppend
  <2>3. FlattenSeq(Append(t, x)) = FlattenSeq(t) \o x
    BY FlattenAppend
  <2>4. FlattenSeq(s) \in Seq(S) /\ FlattenSeq(t) \in Seq(S)
    BY FlattenTyped
  <2>5. Cat(Cat(FlattenSeq(s), FlattenSeq(t)), x) = Cat(FlattenSeq(s), Cat(FlattenSeq(t), x))
    BY <2>4, <1>a, Zenon
  <2>6. FlattenSeq(s \o t) = Cat(FlattenSeq(s), FlattenSeq(t))
    BY DEF Cat
  <2>7. FlattenSeq(s \o Append(t, x)) = FlattenSeq(s) \o FlattenSeq(Append(t, x))
    BY <2>1, <2>2, <2>3, <2>5, <2>6, Zenon DEF Cat
  <2> QED BY <2>7, AppendProperties
<1>3. P = Seq(Seq(S))
  <2>1. P \in SUBSET Seq(Seq(S))
    OBVIOUS
  <2> HIDE DEF P
  <2> QED BY <1>1, <1>2, <2>1, InductionOnSeq
<1> QED BY <1>3

(* A nonempty set of numbers has its least, ...                              *)
LEMMA MinIs ==
  ASSUME NEW s \in SUBSET Nat, s # {}
  PROVE  Min(s) \in s /\ \A i \in s : Min(s) <= i
<1> DEFINE Below == {ss \in Nat \X Nat : ss[1] < ss[2]}
<1>1. IsWellFoundedOn(Below, Nat)
  BY NatLessThanWellFounded DEF OpToRel
<1>2. PICK n \in s : \A m \in s : <<m, n>> \notin Below
  <2> HIDE DEF Below
  <2> QED BY <1>1, WFMin
<1>3. \E k \in s : \A i \in s : k =< i
  <2> WITNESS n \in s
  <2> TAKE i \in s
  <2>1. n \in Nat /\ i \in Nat /\ <<i, n>> \notin Below
    BY <1>2
  <2>2. ~(i < n)
    BY <2>1
  <2> QED BY <2>1, <2>2
<1> QED BY <1>3, Zenon DEF Min

(* ... and one of numbers up to n its greatest.                              *)
LEMMA MaxIs ==
  ASSUME NEW n \in Nat, NEW s \in SUBSET (1..n), s # {}
  PROVE  Max(s) \in s /\ \A i \in s : i <= Max(s)
<1> DEFINE P == {m \in Nat : \A q \in SUBSET (1..m) : q # {} => \E x \in q : \A i \in q : x >= i}
<1>1. 0 \in P
  <2>1. 1..0 = {}
    OBVIOUS
  <2> QED BY <2>1
<1>2. ASSUME NEW m \in P PROVE m + 1 \in P
  <2> SUFFICES ASSUME NEW q \in SUBSET (1..(m + 1)), q # {}
               PROVE  \E x \in q : \A i \in q : x >= i
    OBVIOUS
  <2>1. CASE m + 1 \in q
    <3> WITNESS m + 1 \in q
    <3> QED OBVIOUS
  <2>2. CASE m + 1 \notin q
    <3>1. q \in SUBSET (1..m)
      BY <2>2
    <3> QED BY <3>1
  <2> QED BY <2>1, <2>2
<1>3. P = Nat
  <2>1. P \in SUBSET Nat
    OBVIOUS
  <2> HIDE DEF P
  <2> QED BY <1>1, <1>2, <2>1, Induction
<1>4. \E x \in s : \A i \in s : x >= i
  BY <1>3
<1>5. Max(s) \in s /\ \A i \in s : Max(s) >= i
  BY <1>4, Zenon DEF Max
<1> QED BY <1>5
=============================================================================
