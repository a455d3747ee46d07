------------------------------ MODULE BytesProofs ------------------------------
(***************************************************************************)
(* What holds of the two components that work on single bytes, for buffers  *)
(* and files of any length: an event buffer never uses bytes outside its    *)
(* block and implements a queue of bytes, and a file that begins with a     *)
(* start code is cut into its units.                                        *)
(***************************************************************************)
EXTENDS MCBytes, FiniteSetTheorems, SequenceTheorems, WellFoundedInduction, TLAPS

-----------------------------------------------------------------------------
(* Natural numbers.  The searches of the code go up from a place to the end *)
(* of the data; the proofs about them go by least elements.                 *)

(* A set of natural numbers that is not empty has a least element.          *)
LEMMA NatMin ==
  ASSUME NEW T \in SUBSET Nat, T # {}
  PROVE  \E x \in T : \A y \in T : x <= y
<1> DEFINE R == {ss \in Nat \X Nat : ss[1] < ss[2]}
<1>1. IsWellFoundedOn(R, Nat)
  BY NatLessThanWellFounded DEF OpToRel
<1> HIDE DEF R
<1>2. PICK x \in T : \A y \in T : ~(<<y, x>> \in R)
  BY <1>1, WFMin
<1>3. ASSUME NEW y \in T PROVE x <= y
  <2>1. ~(<<y, x>> \in R)
    BY <1>2
  <2>2. x \in Nat /\ y \in Nat
    OBVIOUS
  <2> QED
    BY <2>1, <2>2 DEF R
<1> QED
  BY <1>3

(* A set that has 0 and the successor of each of its elements is Nat.       *)
LEMMA NatInd ==
  ASSUME NEW S, 0 \in S, \A n \in Nat : n \in S => n + 1 \in S
  PROVE  \A n \in Nat : n \in S
<1> DEFINE T == Nat \ S
<1>1. SUFFICES ASSUME T # {} PROVE FALSE
  OBVIOUS
<1>2. PICK x \in T : \A y \in T : x <= y
  BY <1>1, NatMin
<1>3. x # 0 /\ x - 1 \in Nat /\ x - 1 \notin T
  BY <1>2
<1>4. (x - 1) + 1 \in S
  BY <1>3
<1> QED
  BY <1>3, <1>4

(* A doubling is a step up.                                                 *)
LEMMA Twice ==
  \A l \in Nat \ {0} : \A n, need \in Nat :
    l + (n + 1) >= need => 2 * l \in Nat \ {0} /\ 2 * l + n >= need
OBVIOUS

(* The shortest doubling: it exists and is enough.                          *)
LEMMA DoubledIsEnough ==
  ASSUME NEW length \in Nat \ {0}, NEW need \in Nat
  PROVE  Doubled(length, need) \in Nat /\ Doubled(length, need) >= need
<1> DEFINE P == Nat \ {0}
           Is(h, l) == h[l] = IF l >= need THEN l ELSE h[2 * l]
           From == {n \in Nat : \E h \in [P -> P] : \A l \in P : l + n >= need => Is(h, l)}
           grown == CHOOSE g : g = [l \in P |-> IF l >= need THEN l ELSE g[2 * l]]
<1>1. 0 \in From
  <2>1. [l \in P |-> l] \in [P -> P] /\ \A l \in P : l + 0 >= need => Is([k \in P |-> k], l)
    OBVIOUS
  <2> QED
    BY <2>1
<1>2. \A n \in Nat : n \in From => n + 1 \in From
  <2> SUFFICES ASSUME NEW n \in Nat, n \in From PROVE n + 1 \in From
    OBVIOUS
  <2>1. PICK h \in [P -> P] : \A l \in P : l + n >= need => Is(h, l)
    OBVIOUS
  <2> DEFINE g == [l \in P |-> IF l >= need THEN l ELSE h[2 * l]]
  <2>2. g \in [P -> P]
    OBVIOUS
  <2>3. \A l \in P : l + n >= need => g[l] = h[l]
    BY <2>1
  <2>4. ASSUME NEW l \in P, l + (n + 1) >= need PROVE Is(g, l)
    <3>1. 2 * l \in P /\ 2 * l + n >= need
      BY <2>4
    <3>2. g[2 * l] = h[2 * l]
      BY <2>3, <3>1
    <3> QED
      BY <3>2
  <2>5. \A l \in P : l + (n + 1) >= need => Is(g, l)
    BY <2>4
  <2> HIDE DEF g
  <2>6. \E k \in [P -> P] : \A l \in P : l + (n + 1) >= need => Is(k, l)
    BY <2>2, <2>5, Zenon
  <2> QED
    BY <2>6, n + 1 \in Nat, Zenon
<1>3. need \in From
  BY <1>1, <1>2, NatInd
<1>4. PICK h \in [P -> P] : \A l \in P : Is(h, l)
  BY <1>3
<1>5. h = [l \in P |-> IF l >= need THEN l ELSE h[2 * l]]
  BY <1>4
<1>6. grown = [l \in P |-> IF l >= need THEN l ELSE grown[2 * l]]
  BY <1>5
<1> HIDE DEF grown
<1>7. \A l \in P : grown[l] = IF l >= need THEN l ELSE grown[2 * l]
  BY <1>6, Zenon
<1> DEFINE Up == {n \in Nat : \A l \in P : l + n >= need => grown[l] \in Nat /\ grown[l] >= need}
<1>8. 0 \in Up
  BY <1>7
<1>9. \A n \in Nat : n \in Up => n + 1 \in Up
  <2> SUFFICES ASSUME NEW n \in Nat, n \in Up PROVE n + 1 \in Up
    OBVIOUS
  <2>1. ASSUME NEW l \in P, l + (n + 1) >= need
        PROVE  grown[l] \in Nat /\ grown[l] >= need
    <3>1. 2 * l \in P /\ 2 * l + n >= need
      BY <2>1, Twice
    <3>2. grown[2 * l] \in Nat /\ grown[2 * l] >= need
      BY <3>1
    <3> QED
      BY <1>7, <3>2
  <2> QED
    BY <2>1
<1>10. need \in Up
  BY <1>8, <1>9, NatInd
<1>11. grown[length] \in Nat /\ grown[length] >= need
  BY <1>10
<1> QED
  BY <1>11 DEF grown, Doubled

-----------------------------------------------------------------------------
(* The buffers' operations, for any block whose bytes in use are inside it. *)

Octet == 0..255
Block == [mem : Seq(Octet), misalign : Nat, off : Nat]
Good(b) == b \in Block /\ b.misalign + b.off <= Len(b.mem)

(* A function on 1..n is a sequence of length n.                            *)
LEMMA Sequences1 ==
  ASSUME NEW S, NEW n \in Nat, NEW f \in [1..n -> S]
  PROVE  f \in Seq(S) /\ Len(f) = n
OBVIOUS

(* The bytes that are added may stand in memory.                            *)
LEMMA InputIsOctets ==
  ASSUME NEW s \in Input
  PROVE  s \in Seq(Octet) /\ Len(s) \in 0..MaxAdd
<1>1. PICK n \in 0..MaxAdd : s \in [1..n -> Bytes]
  BY DEF Input
<1>2. n \in Nat /\ Bytes \subseteq Octet
  BY EvBufferAssumption DEF Octet
<1>3. s \in [1..n -> Octet]
  BY <1>1, <1>2
<1>4. s \in Seq(Octet) /\ Len(s) = n
  BY <1>2, <1>3, Sequences1, Zenon
<1> QED
  BY <1>4

(* The fields of a block, and its data byte by byte.                        *)
LEMMA GoodIs ==
  ASSUME NEW b, Good(b)
  PROVE  /\ b.mem \in Seq(Octet) /\ Len(b.mem) \in Nat
         /\ b.misalign \in Nat /\ b.off \in Nat
         /\ b.misalign + b.off <= Len(b.mem)
         /\ \A i \in 1..Len(b.mem) : b.mem[i] \in Octet
         /\ Data(b) \in Seq(Octet) /\ Len(Data(b)) = b.off
         /\ \A i \in 1..b.off : Data(b)[i] = b.mem[b.misalign + i]
<1>1. /\ b.mem \in Seq(Octet) /\ Len(b.mem) \in Nat
      /\ b.misalign \in Nat /\ b.off \in Nat
      /\ b.misalign + b.off <= Len(b.mem)
      /\ \A i \in 1..Len(b.mem) : b.mem[i] \in Octet
  BY DEF Good, Block
<1> DEFINE m == b.misalign + 1
           n == b.misalign + b.off
<1>2. m \in Int /\ n \in Int /\ \A i \in m..n : b.mem[i] \in Octet
  BY <1>1
<1>3. /\ SubSeq(b.mem, m, n) \in Seq(Octet)
      /\ Len(SubSeq(b.mem, m, n)) = IF m <= n THEN n - m + 1 ELSE 0
      /\ \A i \in 1..(n - m + 1) : SubSeq(b.mem, m, n)[i] = b.mem[m + i - 1]
  BY <1>2, SubSeqProperties
<1>4. Data(b) = SubSeq(b.mem, m, n)
  BY DEF Data
<1>5. Data(b) \in Seq(Octet) /\ Len(Data(b)) = b.off
  BY <1>1, <1>3, <1>4
<1>6. \A i \in 1..b.off : Data(b)[i] = b.mem[b.misalign + i]
  <2> TAKE i \in 1..b.off
  <2>1. i \in 1..(n - m + 1) /\ m + i - 1 = b.misalign + i
    BY <1>1
  <2> QED
    BY <2>1, <1>3, <1>4
<1> QED
  BY <1>1, <1>5, <1>6

(* A block whose bytes in use are those of s holds s.                       *)
LEMMA HoldsData ==
  ASSUME NEW b, Good(b), NEW s \in Seq(Octet), b.off = Len(s),
         \A i \in 1..Len(s) : b.mem[b.misalign + i] = s[i]
  PROVE  Data(b) = s
<1>1. Data(b) \in Seq(Octet) /\ Len(Data(b)) = Len(s)
      /\ \A i \in 1..Len(s) : Data(b)[i] = s[i]
  BY GoodIs
<1> QED
  BY <1>1, SeqEqual

(* evbuffer_align moves the bytes in use to the front of the block.         *)
LEMMA AlignKeeps ==
  ASSUME NEW b, Good(b), NEW a, a = evbuffer_align(b)
  PROVE  /\ Good(a) /\ Data(a) = Data(b)
         /\ a.off = b.off /\ a.misalign = 0 /\ Len(a.mem) = Len(b.mem)
<1> DEFINE f == [i \in 1..Len(b.mem) |-> IF i <= b.off THEN b.mem[b.misalign + i] ELSE b.mem[i]]
<1>1. /\ b.mem \in Seq(Octet) /\ Len(b.mem) \in Nat
      /\ b.misalign \in Nat /\ b.off \in Nat
      /\ b.misalign + b.off <= Len(b.mem)
      /\ \A i \in 1..Len(b.mem) : b.mem[i] \in Octet
      /\ Data(b) \in Seq(Octet) /\ Len(Data(b)) = b.off
      /\ \A i \in 1..b.off : Data(b)[i] = b.mem[b.misalign + i]
  BY GoodIs
<1>2. f \in [1..Len(b.mem) -> Octet]
  <2>1. ASSUME NEW i \in 1..Len(b.mem) PROVE f[i] \in Octet
    <3>1. CASE i <= b.off
      <4>1. b.misalign + i \in 1..Len(b.mem)
        BY <1>1, <3>1
      <4> QED
        BY <1>1, <3>1, <4>1
    <3>2. CASE ~(i <= b.off)
      BY <1>1, <3>2
    <3> QED
      BY <3>1, <3>2
  <2> QED
    BY <2>1
<1>3. a = [mem |-> f, misalign |-> 0, off |-> b.off]
  BY DEF evbuffer_align, Good, Block
<1>4. /\ Good(a) /\ a.mem = f /\ Len(a.mem) = Len(b.mem)
      /\ a.misalign = 0 /\ a.off = b.off
  <2> HIDE DEF f
  <2>1. f \in Seq(Octet) /\ Len(f) = Len(b.mem)
    BY <1>1, <1>2, Sequences1, Zenon
  <2> QED
    BY <1>1, <1>3, <2>1 DEF Good, Block
<1>5. a.off = Len(Data(b)) /\ \A i \in 1..Len(Data(b)) : a.mem[a.misalign + i] = Data(b)[i]
  <2>1. ASSUME NEW i \in 1..b.off PROVE a.mem[a.misalign + i] = Data(b)[i]
    <3>1. i \in 1..Len(b.mem) /\ i <= b.off /\ a.misalign + i = i
      BY <1>1, <1>4
    <3>2. a.mem[a.misalign + i] = b.mem[b.misalign + i]
      BY <1>4, <3>1
    <3> QED
      BY <1>1, <3>2
  <2> QED
    BY <1>1, <1>4, <2>1
<1>6. Data(a) = Data(b)
  BY <1>1, <1>4, <1>5, HoldsData, Zenon
<1> QED
  BY <1>4, <1>6

(* A larger block holds the same bytes.                                     *)
LEMMA LargerKeeps ==
  ASSUME NEW b, Good(b), NEW length \in Nat, length >= Len(b.mem),
         NEW a, a = Larger(b, length)
  PROVE  /\ Good(a) /\ Data(a) = Data(b)
         /\ a.off = b.off /\ a.misalign = b.misalign /\ Len(a.mem) = length
<1> DEFINE f == [i \in 1..length |-> IF i <= Len(b.mem) THEN b.mem[i] ELSE Junk]
<1>1. /\ b.mem \in Seq(Octet) /\ Len(b.mem) \in Nat
      /\ b.misalign \in Nat /\ b.off \in Nat
      /\ b.misalign + b.off <= Len(b.mem)
      /\ \A i \in 1..Len(b.mem) : b.mem[i] \in Octet
      /\ Data(b) \in Seq(Octet) /\ Len(Data(b)) = b.off
      /\ \A i \in 1..b.off : Data(b)[i] = b.mem[b.misalign + i]
  BY GoodIs
<1>2. f \in [1..length -> Octet]
  BY <1>1 DEF Junk, Octet
<1>3. a = [mem |-> f, misalign |-> b.misalign, off |-> b.off]
  BY DEF Larger, Good, Block
<1>4. /\ Good(a) /\ a.mem = f /\ Len(a.mem) = length
      /\ a.misalign = b.misalign /\ a.off = b.off
  <2> HIDE DEF f
  <2>1. f \in Seq(Octet) /\ Len(f) = length
    BY <1>1, <1>2, Sequences1, Zenon
  <2> QED
    BY <1>1, <1>3, <2>1 DEF Good, Block
<1>5. a.off = Len(Data(b)) /\ \A i \in 1..Len(Data(b)) : a.mem[a.misalign + i] = Data(b)[i]
  <2>1. ASSUME NEW i \in 1..b.off PROVE a.mem[a.misalign + i] = Data(b)[i]
    <3>1. /\ a.misalign + i = b.misalign + i /\ b.misalign + i \in 1..length
          /\ b.misalign + i <= Len(b.mem)
      BY <1>1, <1>4
    <3>2. a.mem[a.misalign + i] = b.mem[b.misalign + i]
      BY <1>4, <3>1
    <3> QED
      BY <1>1, <3>2
  <2> QED
    BY <1>1, <1>4, <2>1
<1>6. Data(a) = Data(b)
  BY <1>1, <1>4, <1>5, HoldsData, Zenon
<1> QED
  BY <1>4, <1>6

(* evbuffer_expand makes room for datlen bytes and keeps the data.          *)
LEMMA ExpandKeeps ==
  ASSUME NEW b, Good(b), NEW datlen \in Nat, NEW a, a = evbuffer_expand(b, datlen)
  PROVE  /\ Good(a) /\ Data(a) = Data(b) /\ a.off = b.off
         /\ a.misalign + a.off + datlen <= Len(a.mem)
<1> DEFINE need == b.misalign + b.off + datlen
           al == evbuffer_align(b)
           length == IF Len(b.mem) < MinLen THEN MinLen ELSE Len(b.mem)
<1>1. /\ Len(b.mem) \in Nat /\ b.misalign \in Nat /\ b.off \in Nat
      /\ b.misalign + b.off <= Len(b.mem)
  BY GoodIs
<1>2. /\ Good(al) /\ Data(al) = Data(b)
      /\ al.off = b.off /\ al.misalign = 0 /\ Len(al.mem) = Len(b.mem)
  BY AlignKeeps
<1>3. a = IF Len(b.mem) >= need THEN b
          ELSE IF b.misalign >= datlen THEN al
          ELSE Larger(al, Doubled(length, need))
  BY DEF evbuffer_expand
<1>4. need \in Nat /\ length \in Nat \ {0}
  BY <1>1, EvBufferAssumption
<1>5. CASE Len(b.mem) >= need
  BY <1>1, <1>3, <1>5
<1>6. CASE ~(Len(b.mem) >= need) /\ b.misalign >= datlen
  <2>1. a = al
    BY <1>3, <1>6
  <2> HIDE DEF al
  <2> QED
    BY <1>1, <1>2, <1>6, <2>1
<1>7. CASE ~(Len(b.mem) >= need) /\ ~(b.misalign >= datlen)
  <2> HIDE DEF al, length
  <2>1. Doubled(length, need) \in Nat /\ Doubled(length, need) >= need
    BY <1>4, DoubledIsEnough
  <2> DEFINE d == Doubled(length, need)
  <2> HIDE DEF d
  <2>2. a = Larger(al, d)
    BY <1>3, <1>7 DEF d
  <2>3. d \in Nat /\ d >= need /\ d >= Len(al.mem)
    BY <1>1, <1>2, <1>7, <2>1 DEF d
  <2>4. /\ Good(a) /\ Data(a) = Data(al)
        /\ a.off = al.off /\ a.misalign = al.misalign /\ Len(a.mem) = d
    BY <1>2, <2>2, <2>3, LargerKeeps
  <2> QED
    BY <1>1, <1>2, <2>3, <2>4
<1> QED
  BY <1>5, <1>6, <1>7

(* Bytes that fit behind the data become the end of the data.               *)
LEMMA AppendedIs ==
  ASSUME NEW b, Good(b), NEW s \in Seq(Octet),
         b.misalign + b.off + Len(s) <= Len(b.mem), NEW a, a = Appended(b, s)
  PROVE  Good(a) /\ Data(a) = Data(b) \o s
<1> DEFINE at == b.misalign + b.off
           f == [i \in 1..Len(b.mem) |-> IF i \in (at + 1)..(at + Len(s)) THEN s[i - at] ELSE b.mem[i]]
           t == Data(b) \o s
<1>1. /\ b.mem \in Seq(Octet) /\ Len(b.mem) \in Nat
      /\ b.misalign \in Nat /\ b.off \in Nat
      /\ b.misalign + b.off <= Len(b.mem)
      /\ \A i \in 1..Len(b.mem) : b.mem[i] \in Octet
      /\ Data(b) \in Seq(Octet) /\ Len(Data(b)) = b.off
      /\ \A i \in 1..b.off : Data(b)[i] = b.mem[b.misalign + i]
  BY GoodIs
<1>2. Len(s) \in Nat /\ \A i \in 1..Len(s) : s[i] \in Octet
  BY ElementOfSeq, LenProperties
<1>3. f \in [1..Len(b.mem) -> Octet]
  <2>1. ASSUME NEW i \in 1..Len(b.mem) PROVE f[i] \in Octet
    <3>1. CASE i \in (at + 1)..(at + Len(s))
      <4>1. i - at \in 1..Len(s)
        BY <1>1, <1>2, <3>1
      <4> QED
        BY <1>2, <3>1, <4>1
    <3>2. CASE i \notin (at + 1)..(at + Len(s))
      BY <1>1, <3>2
    <3> QED
      BY <3>1, <3>2
  <2> QED
    BY <2>1
<1>4. a = [mem |-> f, misalign |-> b.misalign, off |-> b.off + Len(s)]
  BY DEF Appended, Good, Block
<1>5. /\ Good(a) /\ a.mem = f /\ Len(a.mem) = Len(b.mem)
      /\ a.misalign = b.misalign /\ a.off = b.off + Len(s)
  <2>1. b.off + Len(s) \in Nat /\ b.misalign + (b.off + Len(s)) <= Len(b.mem)
    BY <1>1, <1>2
  <2> HIDE DEF f
  <2>2. f \in Seq(Octet) /\ Len(f) = Len(b.mem)
    BY <1>1, <1>3, Sequences1, Zenon
  <2> QED
    BY <1>4, <2>1, <2>2 DEF Good, Block
<1>6. /\ t \in Seq(Octet) /\ Len(t) = b.off + Len(s)
      /\ \A i \in 1..(b.off + Len(s)) :
           t[i] = IF i <= b.off THEN Data(b)[i] ELSE s[i - b.off]
  <2>1. /\ t \in Seq(Octet) /\ Len(t) = Len(Data(b)) + Len(s)
        /\ \A i \in 1..(Len(Data(b)) + Len(s)) :
             t[i] = IF i <= Len(Data(b)) THEN Data(b)[i] ELSE s[i - Len(Data(b))]
    BY <1>1, ConcatProperties, Zenon
  <2> QED
    BY <1>1, <2>1
<1>7. ASSUME NEW i \in 1..(b.off + Len(s)) PROVE a.mem[a.misalign + i] = t[i]
  <2> DEFINE j == b.misalign + i
  <2>1. j \in 1..Len(b.mem)
    BY <1>1, <1>2
  <2>2. a.mem[a.misalign + i] = IF j \in (at + 1)..(at + Len(s)) THEN s[j - at] ELSE b.mem[j]
    BY <1>5, <2>1
  <2>3. CASE i <= b.off
    <3>1. /\ j \notin (at + 1)..(at + Len(s)) /\ i \in 1..b.off
          /\ i \in 1..(b.off + Len(s))
      BY <1>1, <1>2, <2>3
    <3>2. a.mem[a.misalign + i] = b.mem[j]
      BY <2>2, <3>1, Zenon
    <3>3. t[i] = Data(b)[i]
      BY <1>6, <2>3, <3>1, Zenon
    <3> QED
      BY <1>1, <3>1, <3>2, <3>3, Zenon
  <2>4. CASE ~(i <= b.off)
    <3>1. j \in (at + 1)..(at + Len(s)) /\ j - at = i - b.off
      BY <1>1, <1>2, <2>4
    <3> QED
      BY <1>6, <2>2, <2>4, <3>1
  <2> QED
    BY <2>3, <2>4
<1>8. Data(a) = t
  <2> HIDE DEF t
  <2>1. a.off = Len(t) /\ \A i \in 1..Len(t) : a.mem[a.misalign + i] = t[i]
    BY <1>5, <1>6, <1>7
  <2> QED
    BY <1>5, <1>6, <2>1, HoldsData, Zenon
<1> QED
  BY <1>5, <1>8

(* evbuffer_add, the three cases of evbuffer_expand and the copy.           *)
LEMMA AddIs ==
  ASSUME NEW b, Good(b), NEW s \in Seq(Octet), NEW a, a = evbuffer_add(b, s)
  PROVE  Good(a) /\ Data(a) = Data(b) \o s
<1> DEFINE e == evbuffer_expand(b, Len(s))
<1>1. Len(s) \in Nat
  BY LenProperties
<1>2. /\ Good(e) /\ Data(e) = Data(b) /\ e.off = b.off
      /\ e.misalign + e.off + Len(s) <= Len(e.mem)
  BY <1>1, ExpandKeeps
<1>3. a = Appended(e, s)
  BY DEF evbuffer_add
<1> HIDE DEF e
<1>4. Good(a) /\ Data(a) = Data(e) \o s
  BY <1>2, <1>3, AppendedIs
<1> QED
  BY <1>2, <1>4

(* A new buffer holds nothing.                                              *)
LEMMA NewIsEmpty == Good(evbuffer_new) /\ Data(evbuffer_new) = <<>>
<1>1. Good(evbuffer_new) /\ evbuffer_new.off = 0
  BY EmptySeq DEF evbuffer_new, Good, Block
<1>2. Data(evbuffer_new) \in Seq(Octet) /\ Len(Data(evbuffer_new)) = 0
  BY <1>1, GoodIs
<1> QED
  BY <1>1, <1>2, EmptySeq

(* evbuffer_drain takes len bytes from the front, or all there are.         *)
LEMMA DrainIs ==
  ASSUME NEW b, Good(b), NEW len \in Nat, NEW a, a = evbuffer_drain(b, len)
  PROVE  /\ Good(a) /\ a.mem = b.mem
         /\ len >= b.off => Data(a) = <<>>
         /\ len <= b.off => Data(a) = SubSeq(Data(b), len + 1, Len(Data(b)))
<1>1. /\ b.mem \in Seq(Octet) /\ Len(b.mem) \in Nat
      /\ b.misalign \in Nat /\ b.off \in Nat
      /\ b.misalign + b.off <= Len(b.mem)
      /\ \A i \in 1..Len(b.mem) : b.mem[i] \in Octet
      /\ Data(b) \in Seq(Octet) /\ Len(Data(b)) = b.off
      /\ \A i \in 1..b.off : Data(b)[i] = b.mem[b.misalign + i]
  BY GoodIs
<1>2. CASE len >= b.off
  <2>1. a = [mem |-> b.mem, misalign |-> 0, off |-> 0]
    BY <1>2 DEF evbuffer_drain, Good, Block
  <2>2. Good(a) /\ a.off = 0 /\ a.mem = b.mem
    BY <1>1, <2>1 DEF Good, Block
  <2>3. Data(a) \in Seq(Octet) /\ Len(Data(a)) = 0
    BY <2>2, GoodIs
  <2>4. Data(a) = <<>>
    BY <2>3, EmptySeq
  <2>5. len <= b.off => SubSeq(Data(b), len + 1, Len(Data(b))) = <<>>
    BY <1>1, <1>2, SubSeqEmpty
  <2> QED
    BY <2>2, <2>4, <2>5
<1>3. CASE ~(len >= b.off)
  <2> DEFINE t == SubSeq(Data(b), len + 1, Len(Data(b)))
  <2>1. a = [mem |-> b.mem, misalign |-> b.misalign + len, off |-> b.off - len]
    BY <1>3 DEF evbuffer_drain, Good, Block
  <2>2. /\ Good(a) /\ a.mem = b.mem
        /\ a.misalign = b.misalign + len /\ a.off = b.off - len
    BY <1>1, <1>3, <2>1 DEF Good, Block
  <2>3. len + 1 \in Int /\ b.off \in Int /\ \A i \in (len + 1)..b.off : Data(b)[i] \in Octet
    BY <1>1
  <2>4. /\ t \in Seq(Octet) /\ Len(t) = b.off - len
        /\ \A i \in 1..(b.off - len) : t[i] = Data(b)[len + i]
    <3>1. /\ t \in Seq(Octet)
          /\ Len(t) = IF len + 1 <= b.off THEN b.off - (len + 1) + 1 ELSE 0
          /\ \A i \in 1..(b.off - (len + 1) + 1) : t[i] = Data(b)[(len + 1) + i - 1]
      BY <1>1, <2>3, SubSeqProperties
    <3> HIDE DEF t
    <3>2. b.off - (len + 1) + 1 = b.off - len /\ len + 1 <= b.off
      BY <1>1, <1>3
    <3>3. ASSUME NEW i \in 1..(b.off - len) PROVE t[i] = Data(b)[len + i]
      <4>1. i \in 1..(b.off - (len + 1) + 1) /\ (len + 1) + i - 1 = len + i
        BY <1>1
      <4> QED
        BY <3>1, <4>1
    <3> QED
      BY <3>1, <3>2, <3>3
  <2>5. \A i \in 1..Len(t) : a.mem[a.misalign + i] = t[i]
    <3> HIDE DEF t
    <3> TAKE i \in 1..Len(t)
    <3>1. /\ i \in 1..(b.off - len) /\ len + i \in 1..b.off
          /\ b.misalign + (len + i) = a.misalign + i
      BY <1>1, <2>2, <2>4
    <3> QED
      BY <1>1, <2>2, <2>4, <3>1
  <2>6. Data(a) = t
    <3> HIDE DEF t
    <3> QED
      BY <2>2, <2>4, <2>5, HoldsData
  <2> QED
    BY <1>3, <2>2, <2>6
<1> QED
  BY <1>2, <1>3

(* The NUL of getBuffer is behind the data.                                 *)
LEMMA TerminatedKeeps ==
  ASSUME NEW b, Good(b), NEW a, a = Terminated(b)
  PROVE  Good(a) /\ Data(a) = Data(b) /\ a.off = b.off
<1> DEFINE at == b.misalign + b.off + 1
<1>1. /\ b.mem \in Seq(Octet) /\ Len(b.mem) \in Nat
      /\ b.misalign \in Nat /\ b.off \in Nat
      /\ b.misalign + b.off <= Len(b.mem)
      /\ \A i \in 1..Len(b.mem) : b.mem[i] \in Octet
      /\ Data(b) \in Seq(Octet) /\ Len(Data(b)) = b.off
      /\ \A i \in 1..b.off : Data(b)[i] = b.mem[b.misalign + i]
  BY GoodIs
<1>2. CASE ~(at <= Len(b.mem))
  BY <1>2 DEF Terminated
<1>3. CASE at <= Len(b.mem)
  <2> DEFINE f == [b.mem EXCEPT ![at] = NUL]
  <2>1. at \in 1..Len(b.mem) /\ NUL \in Octet
    BY <1>1, <1>3 DEF NUL, Octet
  <2>2. /\ f \in Seq(Octet) /\ Len(f) = Len(b.mem)
        /\ \A j \in 1..Len(b.mem) : f[j] = IF j = at THEN NUL ELSE b.mem[j]
    BY <1>1, <2>1, ExceptSeq
  <2>3. a = [mem |-> f, misalign |-> b.misalign, off |-> b.off]
    BY <1>3 DEF Terminated, Good, Block
  <2>4. Good(a) /\ a.off = b.off /\ a.mem = f /\ a.misalign = b.misalign
    <3> HIDE DEF f
    <3> QED
      BY <1>1, <2>2, <2>3 DEF Good, Block
  <2>5. a.off = Len(Data(b)) /\ \A i \in 1..Len(Data(b)) : a.mem[a.misalign + i] = Data(b)[i]
    <3> HIDE DEF f
    <3>1. ASSUME NEW i \in 1..b.off PROVE a.mem[a.misalign + i] = Data(b)[i]
      <4>1. b.misalign + i \in 1..Len(b.mem) /\ b.misalign + i # at
        BY <1>1
      <4> QED
        BY <1>1, <2>2, <2>4, <4>1
    <3> QED
      BY <1>1, <2>4, <3>1
  <2>6. Data(a) = Data(b)
    BY <1>1, <2>4, <2>5, HoldsData, Zenon
  <2> QED
    BY <2>4, <2>6
<1> QED
  BY <1>2, <1>3

(* How much a read asks for is a length.                                    *)
LEMMA AskedIs ==
  ASSUME NEW b, Good(b), NEW howmuch \in -1..MaxAdd, NEW n \in 0..MaxAdd
  PROVE  Asked(b, howmuch, n) \in Nat
<1>1. Len(b.mem) \in Nat
  BY GoodIs
<1> QED
  BY <1>1, EvBufferAssumption DEF Asked

(* The first end of line, and how long it is.                               *)
LEMMA LineIs ==
  ASSUME NEW d \in Seq(Octet), LineEnds(d) # {}
  PROVE  /\ FirstEnd(d) \in 1..Len(d) /\ d[FirstEnd(d)] \in {CR, LF}
         /\ \A i \in 1..(FirstEnd(d) - 1) : d[i] \notin {CR, LF}
         /\ LineLength(d) = IF /\ FirstEnd(d) < Len(d)
                               /\ {d[FirstEnd(d)], d[FirstEnd(d) + 1]} = {CR, LF}
                            THEN FirstEnd(d) + 1 ELSE FirstEnd(d)
<1> DEFINE e == FirstEnd(d)
<1>1. Len(d) \in Nat
  BY LenProperties
<1>2. LineEnds(d) \in SUBSET Nat
  BY <1>1 DEF LineEnds
<1>3. \E i \in LineEnds(d) : \A j \in LineEnds(d) : i <= j
  BY <1>2, NatMin
<1>4. e \in LineEnds(d) /\ \A j \in LineEnds(d) : e <= j
  BY <1>3 DEF FirstEnd
<1>5. e \in 1..Len(d) /\ d[e] \in {CR, LF}
  BY <1>4 DEF LineEnds
<1>6. \A i \in 1..(e - 1) : d[i] \notin {CR, LF}
  <2> HIDE DEF e
  <2> SUFFICES ASSUME NEW i \in 1..(e - 1), d[i] \in {CR, LF} PROVE FALSE
    OBVIOUS
  <2>1. i \in 1..Len(d) /\ ~(e <= i)
    BY <1>1, <1>5
  <2> QED
    BY <1>4, <2>1 DEF LineEnds
<1>7. LineLength(d) = IF e < Len(d) /\ {d[e], d[e + 1]} = {CR, LF} THEN e + 1 ELSE e
  <2>1. LineLength(d) = IF e < Len(d) /\ d[e + 1] \in {CR, LF} /\ d[e + 1] # d[e] THEN e + 1 ELSE e
    BY DEF LineLength
  <2>2. CR # LF
    BY DEF CR, LF
  <2>3. d[e + 1] \in {CR, LF} /\ d[e + 1] # d[e] <=> {d[e], d[e + 1]} = {CR, LF}
    <3> HIDE DEF e
    <3> QED
      BY <1>5, <2>2
  <2> QED
    BY <2>1, <2>3
<1> QED
  BY <1>5, <1>6, <1>7

-----------------------------------------------------------------------------
(* The search of BufferCache::find.                                         *)

\* what stands in s at place p.
Matches(s, what, p) ==
  p + Len(what) - 1 <= Len(s) /\ \A i \in 1..Len(what) : s[p + i - 1] = what[i]

\* v is the first place of what in s from start on, 0 when there is none.
IsFirst(s, what, start, v) ==
  \/ v = 0 /\ \A q \in start..Len(s) : ~Matches(s, what, q)
  \/ v \in start..Len(s) /\ Matches(s, what, v) /\ \A q \in start..(v - 1) : ~Matches(s, what, q)

(* There is one first place.                                                *)
LEMMA FirstIsUnique ==
  ASSUME NEW s \in Seq(Octet), NEW what, NEW start \in Nat \ {0},
         NEW v, IsFirst(s, what, start, v), NEW w, IsFirst(s, what, start, w)
  PROVE  v = w
<1>1. Len(s) \in Nat
  BY LenProperties
<1> DEFINE M(q) == Matches(s, what, q)
<1> HIDE DEF M
<1>2. \/ v = 0 /\ \A q \in start..Len(s) : ~M(q)
      \/ v \in start..Len(s) /\ M(v) /\ \A q \in start..(v - 1) : ~M(q)
  BY DEF IsFirst, M
<1>3. \/ w = 0 /\ \A q \in start..Len(s) : ~M(q)
      \/ w \in start..Len(s) /\ M(w) /\ \A q \in start..(w - 1) : ~M(q)
  BY DEF IsFirst, M
<1>4. CASE v = 0 \/ w = 0
  BY <1>1, <1>2, <1>3, <1>4
<1>5. CASE v # 0 /\ w # 0
  <2>1. /\ v \in Int /\ w \in Int /\ start <= v /\ start <= w
        /\ M(v) /\ M(w)
    BY <1>1, <1>2, <1>3, <1>5
  <2>2. ~(v < w)
    BY <2>1, <1>3, <1>5
  <2>3. ~(w < v)
    BY <2>1, <1>2, <1>5
  <2> QED
    BY <2>1, <2>2, <2>3
<1> QED
  BY <1>4, <1>5

(* There is a first place, or none.                                         *)
LEMMA FirstExists ==
  ASSUME NEW s \in Seq(Octet), NEW what, NEW start \in Nat \ {0}
  PROVE  \E v \in Nat : IsFirst(s, what, start, v)
<1> DEFINE T == {q \in start..Len(s) : Matches(s, what, q)}
<1>1. Len(s) \in Nat /\ T \in SUBSET Nat
  BY LenProperties
<1>2. CASE T = {}
  BY <1>2 DEF IsFirst
<1>3. CASE T # {}
  <2>1. PICK v \in T : \A q \in T : v <= q
    BY <1>1, <1>3, NatMin
  <2>2. v \in start..Len(s) /\ Matches(s, what, v) /\ v \in Nat
    BY <1>1, <2>1
  <2>3. ASSUME NEW q \in start..(v - 1) PROVE ~Matches(s, what, q)
    <3>1. q \in start..Len(s) /\ ~(v <= q)
      BY <1>1, <2>2
    <3> QED
      BY <2>1, <3>1
  <2> QED
    BY <2>2, <2>3 DEF IsFirst
<1> QED
  BY <1>2, <1>3

(* No place is left when fewer bytes than what has are, or when none of the *)
(* bytes from start on is the first of what.                                *)
LEMMA NoHead ==
  ASSUME NEW s \in Seq(Octet), NEW what \in Seq(Octet), what # <<>>,
         NEW start \in Nat \ {0},
         \/ Len(s) - (start - 1) < Len(what)
         \/ \A q \in start..(Len(s) + 1 - Len(what)) : s[q] # what[1]
  PROVE  IsFirst(s, what, start, 0)
<1>1. Len(s) \in Nat /\ Len(what) \in Nat \ {0}
  BY LenProperties, EmptySeq
<1>2. ASSUME NEW q \in start..Len(s), Matches(s, what, q) PROVE FALSE
  <2>1. q + Len(what) - 1 <= Len(s) /\ s[q + 1 - 1] = what[1]
    BY <1>1, <1>2 DEF Matches
  <2>2. q \in start..(Len(s) + 1 - Len(what)) /\ q + 1 - 1 = q /\ q \in Int
    BY <1>1, <2>1
  <2>3. s[q] = what[1]
    BY <2>1, <2>2
  <2>4. ~(Len(s) - (start - 1) < Len(what))
    BY <1>1, <2>1, <2>2
  <2> QED
    BY <2>2, <2>3, <2>4
<1> QED
  BY <1>2 DEF IsFirst

(* The search goes on behind the first byte like the first one of what.     *)
LEMMA NextHead ==
  ASSUME NEW s \in Seq(Octet), NEW what \in Seq(Octet), what # <<>>,
         NEW start \in Nat \ {0},
         NEW p \in start..(Len(s) + 1 - Len(what)),
         \A q \in start..(p - 1) : s[q] # what[1]
  PROVE  /\ Matches(s, what, p) <=> \A i \in 1..Len(what) : s[p + i - 1] = what[i]
         /\ Matches(s, what, p) => IsFirst(s, what, start, p)
         /\ ~Matches(s, what, p) =>
              \A v : IsFirst(s, what, p + 1, v) => IsFirst(s, what, start, v)
<1>1. Len(s) \in Nat /\ Len(what) \in Nat \ {0} /\ p \in Nat \ {0}
  BY LenProperties, EmptySeq
<1>2. Matches(s, what, p) <=> \A i \in 1..Len(what) : s[p + i - 1] = what[i]
  BY <1>1 DEF Matches
<1>3. ASSUME NEW q \in start..(p - 1) PROVE ~Matches(s, what, q)
  <2>1. s[q] # what[1] /\ q + 1 - 1 = q /\ 1 \in 1..Len(what)
    BY <1>1
  <2> QED
    BY <2>1 DEF Matches
<1>4. p \in start..Len(s)
  BY <1>1
<1>5. Matches(s, what, p) => IsFirst(s, what, start, p)
  BY <1>3, <1>4 DEF IsFirst
<1>6. ASSUME ~Matches(s, what, p), NEW v, IsFirst(s, what, p + 1, v)
      PROVE  IsFirst(s, what, start, v)
  <2> DEFINE M(q) == Matches(s, what, q)
  <2> HIDE DEF M
  <2>1. /\ ~M(p) /\ \A q \in start..(p - 1) : ~M(q)
        /\ \/ v = 0 /\ \A q \in (p + 1)..Len(s) : ~M(q)
           \/ v \in (p + 1)..Len(s) /\ M(v) /\ \A q \in (p + 1)..(v - 1) : ~M(q)
    BY <1>3, <1>6 DEF IsFirst, M
  <2>2. \/ v = 0 /\ \A q \in start..Len(s) : ~M(q)
        \/ v \in start..Len(s) /\ M(v) /\ \A q \in start..(v - 1) : ~M(q)
    <3>1. CASE v = 0 /\ \A q \in (p + 1)..Len(s) : ~M(q)
      BY <1>1, <2>1, <3>1
    <3>2. CASE v \in (p + 1)..Len(s) /\ M(v) /\ \A q \in (p + 1)..(v - 1) : ~M(q)
      BY <1>1, <2>1, <3>2
    <3> QED
      BY <2>1, <3>1, <3>2
  <2> QED
    BY <2>2 DEF IsFirst, M
<1> QED
  BY <1>2, <1>5, <1>6

(* BufferCache::find answers with the first place of what in the data.      *)
LEMMA PlaceIsFirst ==
  ASSUME NEW b, Good(b), NEW what \in Seq(Octet), what # <<>>
  PROVE  IsFirst(Data(b), what, 1, Place(b, what))
<1> DEFINE d == Data(b)
           D == 1..(b.off + 1)
           at(i) == b.mem[b.misalign + i]
           Remain(start) == b.off - (start - 1)
           Heads(start) == {p \in start..(start + Remain(start) - Len(what)) : at(p) = what[1]}
           First(start) == CHOOSE q \in Heads(start) : \A r \in Heads(start) : q <= r
           Body(h, start) ==
             IF Remain(start) < Len(what) \/ Heads(start) = {} THEN 0
             ELSE IF \A i \in 1..Len(what) : at(First(start) + i - 1) = what[i] THEN First(start)
             ELSE h[First(start) + 1]
           search == CHOOSE h : h = [start \in D |-> Body(h, start)]
<1>1. /\ b.mem \in Seq(Octet) /\ Len(b.mem) \in Nat
      /\ b.misalign \in Nat /\ b.off \in Nat
      /\ b.misalign + b.off <= Len(b.mem)
      /\ d \in Seq(Octet) /\ Len(d) = b.off
      /\ \A i \in 1..b.off : d[i] = at(i)
  BY GoodIs
<1>2. Len(what) \in Nat \ {0}
  BY LenProperties, EmptySeq
<1> HIDE DEF d, at
\* What the body answers is right when what it goes on with is.
<1>3. ASSUME NEW start \in D, NEW h,
             \A k \in D : k > start => IsFirst(d, what, k, h[k])
      PROVE  IsFirst(d, what, start, Body(h, start))
  <2>1. start \in Nat \ {0}
    BY <1>1
  <2>2. CASE Remain(start) < Len(what) \/ Heads(start) = {}
    <3>1. \/ Len(d) - (start - 1) < Len(what)
          \/ \A q \in start..(Len(d) + 1 - Len(what)) : d[q] # what[1]
      <4>1. CASE Remain(start) < Len(what)
        BY <1>1, <4>1
      <4>2. CASE Heads(start) = {}
        <5>1. ASSUME NEW q \in start..(Len(d) + 1 - Len(what)) PROVE d[q] # what[1]
          <6>1. q \in 1..b.off /\ q \in start..(start + Remain(start) - Len(what))
            BY <1>1, <1>2
          <6> QED
            BY <1>1, <4>2, <6>1
        <5> QED
          BY <5>1
      <4> QED
        BY <2>2, <4>1, <4>2
    <3>2. IsFirst(d, what, start, 0)
      BY <1>1, <2>1, <3>1, NoHead
    <3>3. Body(h, start) = 0
      BY <2>2
    <3> QED
      BY <3>2, <3>3
  <2>3. CASE ~(Remain(start) < Len(what) \/ Heads(start) = {})
    <3> DEFINE p == First(start)
    <3>1. Heads(start) \in SUBSET Nat /\ Heads(start) # {}
      BY <1>1, <1>2, <2>3
    <3>2. \E q \in Heads(start) : \A r \in Heads(start) : q <= r
      BY <3>1, NatMin
    <3>3. p \in Heads(start) /\ \A r \in Heads(start) : p <= r
      BY <3>2
    <3>4. Body(h, start) = IF \A i \in 1..Len(what) : at(p + i - 1) = what[i] THEN p ELSE h[p + 1]
      BY <2>3
    <3> HIDE DEF p, First
    <3>5. p \in start..(Len(d) + 1 - Len(what)) /\ p + 1 \in D /\ p + 1 > start /\ p \in Nat
      BY <1>1, <1>2, <3>3
    <3>6. \A q \in start..(p - 1) : d[q] # what[1]
      <4> SUFFICES ASSUME NEW q \in start..(p - 1), d[q] = what[1] PROVE FALSE
        OBVIOUS
      <4>1. q \in Int /\ start <= q /\ q < p /\ p <= b.off + 1 - Len(what)
        BY <1>1, <1>2, <2>1, <3>5
      <4>2. start + Remain(start) - Len(what) = b.off + 1 - Len(what)
        BY <1>1, <1>2, <2>1
      <4> HIDE DEF Remain
      <4>3. q \in 1..b.off /\ q \in start..(start + Remain(start) - Len(what)) /\ ~(p <= q)
        BY <1>1, <1>2, <2>1, <3>5, <4>1, <4>2
      <4> QED
        BY <1>1, <3>3, <4>3
    <3>7. /\ Matches(d, what, p) <=> \A i \in 1..Len(what) : d[p + i - 1] = what[i]
          /\ Matches(d, what, p) => IsFirst(d, what, start, p)
          /\ ~Matches(d, what, p) =>
               \A v : IsFirst(d, what, p + 1, v) => IsFirst(d, what, start, v)
      BY <1>1, <2>1, <3>5, <3>6, NextHead
    <3>8. \A i \in 1..Len(what) : p + i - 1 \in 1..b.off
      BY <1>1, <1>2, <3>5
    <3>9. Matches(d, what, p) <=> \A i \in 1..Len(what) : at(p + i - 1) = what[i]
      BY <1>1, <3>7, <3>8
    <3>10. IsFirst(d, what, p + 1, h[p + 1])
      BY <1>3, <3>5
    <3> HIDE DEF Body
    <3> QED
      BY <3>4, <3>7, <3>9, <3>10, Zenon
  <2> QED
    BY <2>2, <2>3
\* The search exists: the first places satisfy its equation.
<1> DEFINE F == [start \in D |-> CHOOSE v \in Nat : IsFirst(d, what, start, v)]
<1>4. \A start \in D : IsFirst(d, what, start, F[start])
  <2> TAKE start \in D
  <2>1. start \in Nat \ {0}
    BY <1>1
  <2>2. \E v \in Nat : IsFirst(d, what, start, v)
    BY <1>1, <2>1, FirstExists
  <2> QED
    BY <2>2
<1> HIDE DEF F, Body
<1>5. \A start \in D : F[start] = Body(F, start)
  <2> TAKE start \in D
  <2>1. start \in Nat \ {0}
    BY <1>1
  <2>2. IsFirst(d, what, start, Body(F, start))
    BY <1>3, <1>4
  <2> QED
    BY <1>1, <1>4, <2>1, <2>2, FirstIsUnique
<1>6. F = [start \in D |-> Body(F, start)]
  BY <1>5 DEF F
<1>7. search = [start \in D |-> Body(search, start)]
  BY <1>6
<1> HIDE DEF search
<1>8. \A start \in D : search[start] = Body(search, start)
  BY <1>7
\* From the end of the data down, it is right.
<1> DEFINE Right == {n \in Nat : \A start \in D : start + n > b.off => IsFirst(d, what, start, search[start])}
<1>9. 0 \in Right
  <2>1. ASSUME NEW start \in D, start + 0 > b.off
        PROVE  IsFirst(d, what, start, search[start])
    <3>1. \A k \in D : ~(k > start)
      BY <1>1, <2>1
    <3>2. IsFirst(d, what, start, Body(search, start))
      BY <1>3, <3>1
    <3> QED
      BY <1>8, <3>2
  <2> QED
    BY <2>1
<1>10. \A n \in Nat : n \in Right => n + 1 \in Right
  <2> SUFFICES ASSUME NEW n \in Nat, n \in Right PROVE n + 1 \in Right
    OBVIOUS
  <2>1. ASSUME NEW start \in D, start + (n + 1) > b.off
        PROVE  IsFirst(d, what, start, search[start])
    <3>1. ASSUME NEW k \in D, k > start PROVE IsFirst(d, what, k, search[k])
      <4>1. k + n > b.off
        BY <1>1, <2>1, <3>1
      <4> QED
        BY <4>1
    <3>2. IsFirst(d, what, start, Body(search, start))
      BY <1>3, <3>1
    <3> QED
      BY <1>8, <3>2
  <2> QED
    BY <2>1
<1>11. b.off \in Right
  <2> HIDE DEF Right
  <2> QED
    BY <1>1, <1>9, <1>10, NatInd
<1>12. IsFirst(d, what, 1, search[1])
  <2>1. 1 \in D /\ 1 + b.off > b.off
    BY <1>1
  <2> QED
    BY <1>11, <2>1
<1> QED
  BY <1>12 DEF search, Place, Body, d, at

(* The first occurrence, as the queue states it, is the first place.        *)
LEMMA OccurrenceIsFirst ==
  ASSUME NEW s \in Seq(Octet), NEW what \in Seq(Octet), what # <<>>
  PROVE  IsFirst(s, what, 1, Queue!FirstOccurrence(what, s))
<1> DEFINE W == Len(what)
           P == {p \in 1..Len(s) : p + W - 1 <= Len(s) /\ SubSeq(s, p, p + W - 1) = what}
           v == IF P = {} THEN 0 ELSE CHOOSE p \in P : \A q \in P : p <= q
<1>1. Len(s) \in Nat /\ W \in Nat \ {0}
  BY LenProperties, EmptySeq
<1>2. ASSUME NEW p \in 1..Len(s) PROVE p \in P <=> Matches(s, what, p)
  <2>1. CASE ~(p + W - 1 <= Len(s))
    BY <2>1 DEF Matches
  <2>2. CASE p + W - 1 <= Len(s)
    <3> DEFINE t == SubSeq(s, p, p + W - 1)
    <3>1. p \in Int /\ p + W - 1 \in Int /\ \A i \in p..(p + W - 1) : s[i] \in Octet
      BY <1>1, <2>2, ElementOfSeq
    <3>2. /\ t \in Seq(Octet)
          /\ Len(t) = IF p <= p + W - 1 THEN (p + W - 1) - p + 1 ELSE 0
          /\ \A i \in 1..((p + W - 1) - p + 1) : t[i] = s[p + i - 1]
      BY <3>1, SubSeqProperties
    <3>3. p <= p + W - 1 /\ (p + W - 1) - p + 1 = W
      BY <1>1
    <3> HIDE DEF t, W
    <3>4. t = what <=> \A i \in 1..W : s[p + i - 1] = what[i]
      <4>1. ASSUME \A i \in 1..W : s[p + i - 1] = what[i] PROVE t = what
        <5>1. Len(t) = Len(what) /\ \A i \in 1..Len(t) : t[i] = what[i]
          BY <3>2, <3>3, <4>1 DEF W
        <5> QED
          BY <3>2, <5>1, SeqEqual
      <4> QED
        BY <3>2, <3>3, <4>1
    <3>5. p \in P <=> t = what
      BY <2>2 DEF t
    <3>6. Matches(s, what, p) <=> \A i \in 1..W : s[p + i - 1] = what[i]
      BY <2>2 DEF Matches, W
    <3> QED
      BY <3>4, <3>5, <3>6
  <2> QED
    BY <2>1, <2>2
<1>3. v = Queue!FirstOccurrence(what, s)
  BY DEF Queue!FirstOccurrence
<1>4. P \subseteq 1..Len(s)
  OBVIOUS
<1> HIDE DEF P
<1>5. CASE P = {}
  BY <1>2, <1>3, <1>5 DEF IsFirst
<1>6. CASE P # {}
  <2>1. \E p \in P : \A q \in P : p <= q
    BY <1>1, <1>4, <1>6, NatMin
  <2>2. v \in P /\ \A q \in P : v <= q
    BY <1>6, <2>1
  <2> HIDE DEF v
  <2>3. ASSUME NEW q \in 1..(v - 1) PROVE ~Matches(s, what, q)
    <3>1. q \in 1..Len(s) /\ ~(v <= q)
      BY <1>1, <1>4, <2>2
    <3> QED
      BY <1>2, <2>2, <3>1
  <2>4. IsFirst(s, what, 1, v)
    BY <1>2, <1>4, <2>2, <2>3 DEF IsFirst
  <2> QED
    BY <1>3, <2>4
<1> QED
  BY <1>5, <1>6

(* The two agree.                                                           *)
LEMMA PlaceIsOccurrence ==
  ASSUME NEW b, Good(b), NEW what \in Seq(Octet), what # <<>>
  PROVE  Place(b, what) = Queue!FirstOccurrence(what, Data(b))
<1>1. Data(b) \in Seq(Octet) /\ 1 \in Nat \ {0}
  BY GoodIs
<1>2. IsFirst(Data(b), what, 1, Place(b, what))
  BY PlaceIsFirst
<1>3. IsFirst(Data(b), what, 1, Queue!FirstOccurrence(what, Data(b)))
  BY <1>1, OccurrenceIsFirst
<1> QED
  BY <1>1, <1>2, <1>3, FirstIsUnique
-----------------------------------------------------------------------------
(* The buffers' calls.                                                      *)

IInv == buf \in [Caches -> Block] /\ InsideBlock

\* The queue's bytes.
Held == [c \in Caches |-> Data(buf[c])]

(* Each buffer of the invariant is good, and holds its bytes.               *)
LEMMA GoodBuffer ==
  ASSUME IInv, NEW c \in Caches
  PROVE  /\ Good(buf[c]) /\ Held[c] = Data(buf[c]) /\ Data(buf[c]) \in Seq(Octet)
         /\ Len(Data(buf[c])) = buf[c].off /\ buf[c].off \in Nat
<1>1. Good(buf[c])
  BY DEF IInv, InsideBlock, Good
<1> QED
  BY <1>1, GoodIs DEF Held

(* One buffer becomes another good one.                                     *)
LEMMA BecomesIs ==
  ASSUME IInv, NEW c \in Caches, NEW b, Good(b), Becomes(c, b)
  PROVE  IInv' /\ Held' = [Held EXCEPT ![c] = Data(b)]
<1>1. buf' = [buf EXCEPT ![c] = b] /\ buf \in [Caches -> Block]
  BY DEF Becomes, IInv
<1>2. IInv'
  BY <1>1 DEF IInv, InsideBlock, Good
<1>3. \A e \in Caches : Data(buf'[e]) = IF e = c THEN Data(b) ELSE Data(buf[e])
  BY <1>1
<1>4. Held' = [e \in Caches |-> Data(buf'[e])]
  BY DEF Held
<1> QED
  BY <1>2, <1>3, <1>4 DEF Held

(* Two buffers become other good ones.                                      *)
LEMMA BothBecome ==
  ASSUME IInv, NEW c \in Caches, NEW d \in Caches,
         buf' = [e \in Caches |-> buf'[e]],
         \A e \in Caches \ {c, d} : buf'[e] = buf[e],
         Good(buf'[c]), Good(buf'[d])
  PROVE  /\ IInv' /\ Held' = [e \in Caches |-> Held'[e]]
         /\ Held'[c] = Data(buf'[c]) /\ Held'[d] = Data(buf'[d])
         /\ \A e \in Caches \ {c, d} : Held'[e] = Held[e]
<1>1. buf \in [Caches -> Block]
  BY DEF IInv
<1>2. IInv'
  BY <1>1 DEF IInv, InsideBlock, Good
<1>3. Held' = [e \in Caches |-> Data(buf'[e])]
  BY DEF Held
<1> QED
  BY <1>2, <1>3 DEF Held

(* A call that leaves the buffers alone.                                    *)
LEMMA SameBuffers ==
  ASSUME IInv, UNCHANGED buf
  PROVE  IInv' /\ Held' = Held
BY DEF IInv, InsideBlock, Held

(* append: the bytes are put at the end.                                    *)
LEMMA AppendStep ==
  ASSUME IInv, NEW c \in Caches, append(c)
  PROVE  IInv' /\ Queue!Put(c)
<1>1. PICK s \in Input : /\ Becomes(c, evbuffer_add(buf[c], s))
                         /\ answer' = [length |-> Len(s)]
  BY DEF append
<1> DEFINE b == evbuffer_add(buf[c], s)
<1>2. Good(buf[c]) /\ Held[c] = Data(buf[c]) /\ s \in Seq(Octet)
  BY GoodBuffer, InputIsOctets
<1>3. Good(b) /\ Data(b) = Data(buf[c]) \o s
  BY <1>2, AddIs
<1>4. IInv' /\ Held' = [Held EXCEPT ![c] = Data(b)]
  <2> HIDE DEF b
  <2> QED
    BY <1>1, <1>3, BecomesIs DEF b
<1>5. Held' = [Held EXCEPT ![c] = @ \o s]
  BY <1>2, <1>3, <1>4
<1> QED
  BY <1>1, <1>4, <1>5 DEF Queue!Put, Held

(* A failed realloc leaves the bytes where they are aligned: the bytes      *)
(* themselves stay.                                                         *)
LEMMA AlignStep ==
  ASSUME IInv, NEW c \in Caches, Becomes(c, evbuffer_align(buf[c])), answer' = Failed
  PROVE  IInv' /\ Queue!Fail
<1> DEFINE b == evbuffer_align(buf[c])
<1>1. Good(buf[c]) /\ Held[c] = Data(buf[c])
  BY GoodBuffer
<1>2. Good(b) /\ Data(b) = Data(buf[c])
  BY <1>1, AlignKeeps
<1>3. IInv' /\ Held' = [Held EXCEPT ![c] = Data(b)]
  BY <1>2, BecomesIs
<1>4. Held' = Held
  BY <1>1, <1>2, <1>3 DEF Held
<1> QED
  BY <1>3, <1>4 DEF Queue!Fail, Held

(* A drain takes the first n bytes, all when there are fewer.               *)
LEMMA DrainStep ==
  ASSUME IInv, NEW c \in Caches, NEW n \in Nat, Becomes(c, evbuffer_drain(buf[c], n))
  PROVE  LET k == IF n >= buf[c].off THEN buf[c].off ELSE n IN
           /\ IInv' /\ k \in 0..Len(Held[c])
           /\ Held' = [Held EXCEPT ![c] = Queue!Rest(@, k)]
<1> DEFINE b == evbuffer_drain(buf[c], n)
           d == Data(buf[c])
           k == IF n >= buf[c].off THEN buf[c].off ELSE n
<1>1. /\ Good(buf[c]) /\ Held[c] = d /\ d \in Seq(Octet)
      /\ Len(d) = buf[c].off /\ buf[c].off \in Nat
  BY GoodBuffer
<1>2. /\ Good(b)
      /\ n >= buf[c].off => Data(b) = <<>>
      /\ n <= buf[c].off => Data(b) = SubSeq(d, n + 1, Len(d))
  BY <1>1, DrainIs
<1>3. IInv' /\ Held' = [Held EXCEPT ![c] = Data(b)]
  BY <1>2, BecomesIs
<1>4. k \in 0..Len(d)
  BY <1>1
<1>5. SubSeq(d, Len(d) + 1, Len(d)) = <<>>
  BY <1>1, SubSeqEmpty
<1>6. Data(b) = SubSeq(d, k + 1, Len(d))
  <2>1. CASE n >= buf[c].off
    <3>1. k = Len(d) /\ Data(b) = <<>>
      BY <1>1, <1>2, <2>1
    <3> HIDE DEF b, d, k
    <3> QED
      BY <1>5, <3>1
  <2>2. CASE ~(n >= buf[c].off)
    <3>1. k = n /\ n <= buf[c].off
      BY <1>1, <2>2
    <3> HIDE DEF b, d, k
    <3> QED
      BY <1>2, <3>1
  <2> QED
    BY <2>1, <2>2
<1>7. Data(b) = Queue!Rest(Held[c], k)
  BY <1>1, <1>6 DEF Queue!Rest
<1>8. Held' = [Held EXCEPT ![c] = Queue!Rest(@, k)]
  <2> HIDE DEF b, k
  <2> QED
    BY <1>3, <1>7, Zenon
<1> QED
  BY <1>1, <1>3, <1>4, <1>8

(* erase and reset lose bytes from the front.                               *)
LEMMA LoseStep ==
  ASSUME IInv, NEW c \in Caches, NEW n \in Nat,
         Becomes(c, evbuffer_drain(buf[c], n)), answer' = Failed
  PROVE  IInv' /\ Queue!Lose(c)
<1> DEFINE k == IF n >= buf[c].off THEN buf[c].off ELSE n
<1>1. IInv' /\ k \in 0..Len(Held[c]) /\ Held' = [Held EXCEPT ![c] = Queue!Rest(@, k)]
  BY DrainStep
<1> HIDE DEF k
<1> QED
  BY <1>1 DEF Queue!Lose, Held

(* evbuffer_remove and evbuffer_write take bytes from the front and answer  *)
(* with them.                                                               *)
LEMMA GetStep ==
  ASSUME IInv, NEW c \in Caches, NEW n \in 0..buf[c].off,
         Becomes(c, evbuffer_drain(buf[c], n)),
         answer' = [data |-> SubSeq(Data(buf[c]), 1, n)]
  PROVE  IInv' /\ Queue!Get(c)
<1>1. Held[c] = Data(buf[c]) /\ buf[c].off \in Nat /\ n \in Nat
  BY GoodBuffer
<1>2. n = IF n >= buf[c].off THEN buf[c].off ELSE n
  BY <1>1
<1>3. IInv' /\ n \in 0..Len(Held[c]) /\ Held' = [Held EXCEPT ![c] = Queue!Rest(@, n)]
  BY <1>1, <1>2, DrainStep
<1>4. answer' = [data |-> Queue!Prefix(Held[c], n)]
  BY <1>1 DEF Queue!Prefix
<1> QED
  BY <1>3, <1>4 DEF Queue!Get, Held

(* getLine takes the line with its end and answers with the line.           *)
LEMMA LineStep ==
  ASSUME IInv, NEW c \in Caches, getLine(c)
  PROVE  IInv' /\ Queue!Line(c)
<1> DEFINE d == Data(buf[c])
           e == FirstEnd(d)
           n == LineLength(d)
           more == e < Len(d) /\ {d[e], d[e + 1]} = {CR, LF}
<1>1. /\ LineEnds(d) # {} /\ Becomes(c, evbuffer_drain(buf[c], n))
      /\ answer' = [data |-> SubSeq(d, 1, e - 1)]
  BY DEF getLine
<1>2. /\ Held[c] = d /\ d \in Seq(Octet)
      /\ Len(d) = buf[c].off /\ buf[c].off \in Nat
  BY GoodBuffer
<1>3. /\ e \in 1..Len(d) /\ d[e] \in {CR, LF}
      /\ \A i \in 1..(e - 1) : d[i] \notin {CR, LF}
      /\ n = IF more THEN e + 1 ELSE e
  BY <1>1, <1>2, LineIs
<1> HIDE DEF d, e, n
<1>4. n \in Nat /\ n = IF n >= buf[c].off THEN buf[c].off ELSE n
  <2>1. n \in Nat /\ n <= buf[c].off
    <3>1. CASE more
      <4>1. n = e + 1 /\ e < Len(d)
        BY <1>3, <3>1
      <4>2. e \in 1..buf[c].off /\ Len(d) = buf[c].off /\ buf[c].off \in Nat
        BY <1>2, <1>3
      <4> HIDE DEF more
      <4> QED
        BY <4>1, <4>2
    <3>2. CASE ~more
      <4>1. n = e
        BY <1>3, <3>2
      <4> QED
        BY <1>2, <1>3, <4>1
    <3> QED
      BY <3>1, <3>2
  <2> QED
    BY <1>2, <2>1
<1>5. IInv' /\ Held' = [Held EXCEPT ![c] = Queue!Rest(@, n)]
  BY <1>1, <1>4, DrainStep
<1>6. answer' = [data |-> Queue!Prefix(Held[c], e - 1)]
  BY <1>1, <1>2 DEF Queue!Prefix
<1>7. Held' = [Held EXCEPT ![c] = Queue!Rest(@, IF more THEN e + 1 ELSE e)]
  BY <1>3, <1>5
<1> QED
  BY <1>2, <1>3, <1>5, <1>6, <1>7 DEF Queue!Line, Held

(* evbuffer_read makes room for what it asks for and puts what it was given.*)
LEMMA ReadStep ==
  ASSUME IInv, NEW c \in Caches, evbuffer_read(c)
  PROVE  IInv' /\ Queue!Put(c)
<1>1. PICK howmuch \in -1..MaxAdd, n \in 0..MaxAdd, s \in Input :
        /\ Len(s) <= Asked(buf[c], howmuch, n)
        /\ Becomes(c, Appended(evbuffer_expand(buf[c], Asked(buf[c], howmuch, n)), s))
        /\ answer' = [length |-> Len(s)]
  BY DEF evbuffer_read
<1> DEFINE asked == Asked(buf[c], howmuch, n)
           e == evbuffer_expand(buf[c], asked)
           b == Appended(e, s)
<1>2. /\ Good(buf[c]) /\ Held[c] = Data(buf[c])
      /\ s \in Seq(Octet) /\ Len(s) \in 0..MaxAdd
  BY GoodBuffer, InputIsOctets
<1>3. asked \in Nat
  BY <1>2, AskedIs
<1>4. /\ Good(e) /\ Data(e) = Data(buf[c]) /\ e.off = buf[c].off
      /\ e.misalign + e.off + asked <= Len(e.mem)
  <2> HIDE DEF asked
  <2> QED
    BY <1>2, <1>3, ExpandKeeps
<1>5. e.misalign + e.off + Len(s) <= Len(e.mem)
  <2> HIDE DEF e
  <2>1. /\ e.misalign \in Nat /\ e.off \in Nat /\ Len(e.mem) \in Nat
        /\ Len(s) \in Nat /\ Len(s) <= asked
    BY <1>1, <1>2, <1>4, GoodIs, EvBufferAssumption
  <2> HIDE DEF asked
  <2> QED
    BY <1>3, <1>4, <2>1
<1>6. Good(b) /\ Data(b) = Data(buf[c]) \o s
  <2> HIDE DEF e
  <2> QED
    BY <1>2, <1>4, <1>5, AppendedIs
<1>7. IInv' /\ Held' = [Held EXCEPT ![c] = Data(b)]
  BY <1>1, <1>6, BecomesIs
<1>8. Held' = [Held EXCEPT ![c] = @ \o s]
  <2> HIDE DEF b
  <2> QED
    BY <1>2, <1>6, <1>7
<1> QED
  BY <1>1, <1>7, <1>8 DEF Queue!Put, Held

(* When read fails the room was made and the bytes stay.                    *)
LEMMA ReadFailsStep ==
  ASSUME IInv, NEW c \in Caches, evbuffer_readFails(c)
  PROVE  IInv' /\ Queue!Fail
<1>1. PICK howmuch \in -1..MaxAdd, n \in 0..MaxAdd :
        /\ Becomes(c, evbuffer_expand(buf[c], Asked(buf[c], howmuch, n)))
        /\ answer' = Failed
  BY DEF evbuffer_readFails
<1> DEFINE asked == Asked(buf[c], howmuch, n)
           e == evbuffer_expand(buf[c], asked)
<1>2. Good(buf[c]) /\ Held[c] = Data(buf[c])
  BY GoodBuffer
<1>3. asked \in Nat
  BY <1>2, AskedIs
<1>4. Good(e) /\ Data(e) = Data(buf[c])
  <2> HIDE DEF asked
  <2> QED
    BY <1>2, <1>3, ExpandKeeps
<1>5. IInv' /\ Held' = [Held EXCEPT ![c] = Data(e)]
  BY <1>1, <1>4, BecomesIs
<1>6. Held' = Held
  <2> HIDE DEF e
  <2> QED
    BY <1>2, <1>4, <1>5 DEF Held
<1> QED
  BY <1>1, <1>5, <1>6 DEF Queue!Fail, Held

(* find answers with a place of the data and changes nothing.               *)
LEMMA FindStep ==
  ASSUME IInv, NEW c \in Caches, find(c)
  PROVE  IInv' /\ Queue!Find(c)
<1>1. PICK what \in Input \ {<<>>} :
        answer' = [place |-> Place(buf[c], what)] /\ UNCHANGED buf
  BY DEF find
<1>2. /\ Good(buf[c]) /\ Held[c] = Data(buf[c])
      /\ what \in Seq(Octet) /\ what # <<>>
  BY GoodBuffer, InputIsOctets
<1>3. Place(buf[c], what) = Queue!FirstOccurrence(what, Held[c])
  BY <1>2, PlaceIsOccurrence
<1>4. IInv' /\ Held' = Held
  BY <1>1, SameBuffers
<1>5. answer' = [place |-> Queue!FirstOccurrence(what, Held[c])]
  BY <1>1, <1>3
<1> QED
  BY <1>4, <1>5 DEF Queue!Find, Held

(* getBuffer writes a NUL behind the data and answers with the data.        *)
LEMMA GetBufferStep ==
  ASSUME IInv, NEW c \in Caches, getBuffer(c)
  PROVE  IInv' /\ Queue!Peek(c)
<1> DEFINE b == Terminated(buf[c])
<1>1. Becomes(c, b) /\ answer' = [data |-> Data(buf[c])]
  BY DEF getBuffer
<1>2. Good(buf[c]) /\ Held[c] = Data(buf[c])
  BY GoodBuffer
<1>3. Good(b) /\ Data(b) = Data(buf[c])
  BY <1>2, TerminatedKeeps
<1>4. IInv' /\ Held' = [Held EXCEPT ![c] = Data(b)]
  BY <1>1, <1>3, BecomesIs
<1>5. Held' = Held
  <2> HIDE DEF b
  <2> QED
    BY <1>2, <1>3, <1>4 DEF Held
<1>6. answer' = [data |-> Held[c]]
  BY <1>1, <1>2
<1> QED
  BY <1>4, <1>5, <1>6 DEF Queue!Peek, Held

(* evbuffer_add_buffer to an empty buffer swaps the blocks.                 *)
LEMMA SwapStep ==
  ASSUME IInv, NEW c \in Caches, NEW d \in Caches, c # d, add_bufferSwap(c, d)
  PROVE  IInv' /\ Queue!Move(d, c)
<1>1. /\ buf[c].off = 0 /\ buf' = [buf EXCEPT ![c] = buf[d], ![d] = buf[c]]
      /\ answer' = [moved |-> TRUE]
  BY DEF add_bufferSwap
<1>2. /\ Good(buf[c]) /\ Held[c] = Data(buf[c]) /\ Held[c] \in Seq(Octet)
      /\ Good(buf[d]) /\ Held[d] = Data(buf[d]) /\ Held[d] \in Seq(Octet)
      /\ Len(Held[c]) = buf[c].off
  BY GoodBuffer
<1>3. /\ buf' = [e \in Caches |-> buf'[e]] /\ buf'[c] = buf[d] /\ buf'[d] = buf[c]
      /\ \A e \in Caches \ {c, d} : buf'[e] = buf[e]
  BY <1>1, c # d DEF IInv
<1>4. /\ IInv' /\ Held' = [e \in Caches |-> Held'[e]]
      /\ Held'[c] = Data(buf[d]) /\ Held'[d] = Data(buf[c])
      /\ \A e \in Caches \ {c, d} : Held'[e] = Held[e]
  BY <1>2, <1>3, BothBecome
<1>5. Held[c] = <<>>
  BY <1>1, <1>2, EmptySeq
<1>6. Held[c] \o Held[d] = Held[d]
  BY <1>2, <1>5, ConcatEmptySeq
<1>7. Held' = [Held EXCEPT ![c] = @ \o Held[d], ![d] = <<>>]
  BY <1>2, <1>4, <1>5, <1>6, c # d DEF Held
<1> QED
  BY <1>1, <1>4, <1>7 DEF Queue!Move, Held

(* evbuffer_add_buffer to a buffer in use adds the bytes and drains them.   *)
LEMMA AddBufferStep ==
  ASSUME IInv, NEW c \in Caches, NEW d \in Caches, c # d, add_bufferAdd(c, d)
  PROVE  IInv' /\ Queue!Move(d, c)
<1> DEFINE b == evbuffer_add(buf[c], Data(buf[d]))
           a == evbuffer_drain(buf[d], buf[d].off)
<1>1. /\ buf' = [buf EXCEPT ![c] = b, ![d] = evbuffer_drain(@, @.off)]
      /\ answer' = [moved |-> TRUE]
  BY DEF add_bufferAdd
<1>2. /\ Good(buf[c]) /\ Held[c] = Data(buf[c])
      /\ Good(buf[d]) /\ Held[d] = Data(buf[d]) /\ Data(buf[d]) \in Seq(Octet)
      /\ buf[d].off \in Nat
  BY GoodBuffer
<1>3. Good(b) /\ Data(b) = Data(buf[c]) \o Data(buf[d])
  BY <1>2, AddIs
<1>4. Good(a) /\ Data(a) = <<>>
  <2>1. buf[d].off >= buf[d].off
    BY <1>2
  <2> QED
    BY <1>2, <2>1, DrainIs, Zenon
<1> HIDE DEF b
<1>5. buf' = [buf EXCEPT ![c] = b, ![d] = a]
  BY <1>1, c # d
<1> HIDE DEF a
<1>6. /\ buf' = [e \in Caches |-> buf'[e]] /\ buf'[c] = b /\ buf'[d] = a
      /\ \A e \in Caches \ {c, d} : buf'[e] = buf[e]
  BY <1>5, c # d DEF IInv
<1>7. /\ IInv' /\ Held' = [e \in Caches |-> Held'[e]]
      /\ Held'[c] = Data(b) /\ Held'[d] = Data(a)
      /\ \A e \in Caches \ {c, d} : Held'[e] = Held[e]
  BY <1>3, <1>4, <1>6, BothBecome
<1>8. Held' = [Held EXCEPT ![c] = @ \o Held[d], ![d] = <<>>]
  BY <1>2, <1>3, <1>4, <1>7, c # d DEF Held
<1> QED
  BY <1>1, <1>7, <1>8 DEF Queue!Move, Held

(* BufferCache::append of a cache copies its bytes.                         *)
LEMMA AppendCacheStep ==
  ASSUME IInv, NEW c \in Caches, NEW d \in Caches, c # d, appendCache(c, d)
  PROVE  IInv' /\ Queue!Copy(d, c)
<1> DEFINE from == Terminated(buf[d])
           b == evbuffer_add(buf[c], Data(from))
<1>1. /\ buf' = [buf EXCEPT ![c] = b, ![d] = from]
      /\ answer' = [length |-> from.off]
  BY DEF appendCache
<1>2. /\ Good(buf[c]) /\ Held[c] = Data(buf[c])
      /\ Good(buf[d]) /\ Held[d] = Data(buf[d]) /\ Data(buf[d]) \in Seq(Octet)
      /\ Len(Data(buf[d])) = buf[d].off
  BY GoodBuffer
<1>3. Good(from) /\ Data(from) = Data(buf[d]) /\ from.off = buf[d].off
  BY <1>2, TerminatedKeeps
<1> HIDE DEF from
<1>4. Good(b) /\ Data(b) = Data(buf[c]) \o Data(buf[d])
  BY <1>2, <1>3, AddIs
<1> HIDE DEF b
<1>5. /\ buf' = [e \in Caches |-> buf'[e]] /\ buf'[c] = b /\ buf'[d] = from
      /\ \A e \in Caches \ {c, d} : buf'[e] = buf[e]
  BY <1>1, c # d DEF IInv
<1>6. /\ IInv' /\ Held' = [e \in Caches |-> Held'[e]]
      /\ Held'[c] = Data(b) /\ Held'[d] = Data(from)
      /\ \A e \in Caches \ {c, d} : Held'[e] = Held[e]
  BY <1>3, <1>4, <1>5, BothBecome
<1>7. Held' = [Held EXCEPT ![c] = @ \o Held[d]]
  BY <1>2, <1>3, <1>4, <1>6 DEF Held
<1>8. answer' = [length |-> Len(Held[d])]
  BY <1>1, <1>2, <1>3
<1> QED
  BY <1>6, <1>7, <1>8 DEF Queue!Copy, Held

(* BufferCache::take gives the buffer away and makes a new one.             *)
LEMMA TakeStep ==
  ASSUME IInv, NEW c \in Caches, NEW d \in Caches, c # d, take(c, d)
  PROVE  IInv' /\ Queue!Replace(c, d)
<1>1. /\ buf' = [buf EXCEPT ![d] = buf[c], ![c] = evbuffer_new]
      /\ answer' = [moved |-> TRUE]
  BY DEF take
<1>2. Good(buf[c]) /\ Held[c] = Data(buf[c])
  BY GoodBuffer
<1>3. Good(evbuffer_new) /\ Data(evbuffer_new) = <<>>
  BY NewIsEmpty
<1>4. /\ buf' = [e \in Caches |-> buf'[e]] /\ buf'[c] = evbuffer_new /\ buf'[d] = buf[c]
      /\ \A e \in Caches \ {c, d} : buf'[e] = buf[e]
  BY <1>1, c # d DEF IInv
<1>5. /\ IInv' /\ Held' = [e \in Caches |-> Held'[e]]
      /\ Held'[c] = Data(evbuffer_new) /\ Held'[d] = Data(buf[c])
      /\ \A e \in Caches \ {c, d} : Held'[e] = Held[e]
  BY <1>2, <1>3, <1>4, BothBecome
<1>6. Held' = [Held EXCEPT ![d] = Held[c], ![c] = <<>>]
  BY <1>2, <1>3, <1>5, c # d DEF Held
<1> QED
  BY <1>1, <1>5, <1>6 DEF Queue!Replace, Held

(* Every step keeps the invariant and is a step of the queue.               *)
LEMMA StepIs ==
  ASSUME IInv, [Next]_vars
  PROVE  IInv' /\ [Queue!Next]_(Queue!queueVars)
<1>1. ASSUME NEW c \in Caches, append(c) \/ evbuffer_read(c) PROVE IInv' /\ Queue!Put(c)
  BY <1>1, AppendStep, ReadStep
<1>2. ASSUME NEW c \in Caches, appendFails(c) PROVE IInv' /\ Queue!Fail
  BY <1>2, AlignStep DEF appendFails
<1>3. ASSUME NEW c \in Caches, evbuffer_readFails(c) PROVE IInv' /\ Queue!Fail
  BY <1>3, ReadFailsStep
<1>4. ASSUME NEW c \in Caches, getLineNone(c) \/ evbuffer_writeFails PROVE IInv' /\ Queue!Fail
  <2>1. UNCHANGED buf /\ answer' = Failed
    BY <1>4 DEF getLineNone, evbuffer_writeFails
  <2> QED
    BY <2>1, SameBuffers DEF Queue!Fail, Held
<1>5. ASSUME NEW c \in Caches, erase(c) PROVE IInv' /\ Queue!Lose(c)
  <2>1. PICK n \in 0..MaxAdd : Becomes(c, evbuffer_drain(buf[c], n)) /\ answer' = Failed
    BY <1>5 DEF erase
  <2>2. n \in Nat
    BY EvBufferAssumption
  <2> QED
    BY <2>1, <2>2, LoseStep
<1>6. ASSUME NEW c \in Caches, reset(c) PROVE IInv' /\ Queue!Lose(c)
  <2>1. Becomes(c, evbuffer_drain(buf[c], buf[c].off)) /\ answer' = Failed
    BY <1>6 DEF reset
  <2>2. buf[c].off \in Nat
    BY GoodBuffer
  <2> QED
    BY <2>1, <2>2, LoseStep
<1>7. ASSUME NEW c \in Caches, getLineFails(c) PROVE IInv' /\ Queue!Lose(c)
  <2> DEFINE d == Data(buf[c])
  <2>1. /\ LineEnds(d) # {} /\ answer' = Failed
        /\ Becomes(c, evbuffer_drain(buf[c], FirstEnd(d) - 1))
    BY <1>7 DEF getLineFails
  <2>2. d \in Seq(Octet)
    BY GoodBuffer
  <2>3. FirstEnd(d) \in 1..Len(d)
    BY <2>1, <2>2, LineIs
  <2>4. FirstEnd(d) - 1 \in Nat
    BY <2>2, <2>3, LenProperties
  <2> QED
    BY <2>1, <2>4, LoseStep
<1>8. ASSUME NEW c \in Caches, evbuffer_remove(c) PROVE IInv' /\ Queue!Get(c)
  <2>1. PICK n \in 0..MaxAdd :
          LET nread == IF n >= buf[c].off THEN buf[c].off ELSE n IN
            /\ Becomes(c, evbuffer_drain(buf[c], nread))
            /\ answer' = [data |-> SubSeq(Data(buf[c]), 1, nread)]
    BY <1>8 DEF evbuffer_remove
  <2> DEFINE nread == IF n >= buf[c].off THEN buf[c].off ELSE n
  <2>2. nread \in 0..buf[c].off
    BY GoodBuffer
  <2> QED
    BY <2>1, <2>2, GetStep
<1>9. ASSUME NEW c \in Caches, evbuffer_write(c) PROVE IInv' /\ Queue!Get(c)
  <2>1. PICK n \in 1..buf[c].off :
          /\ Becomes(c, evbuffer_drain(buf[c], n))
          /\ answer' = [data |-> SubSeq(Data(buf[c]), 1, n)]
    BY <1>9 DEF evbuffer_write
  <2>2. n \in 0..buf[c].off
    BY GoodBuffer
  <2> QED
    BY <2>1, <2>2, GetStep
<1>10. CASE UNCHANGED vars
  <2>1. UNCHANGED buf /\ UNCHANGED answer
    BY <1>10 DEF vars
  <2> QED
    BY <2>1, SameBuffers DEF Queue!queueVars, Held
<1>11. CASE Next
  <2>1. CASE \E c \in Caches :
               \/ append(c) \/ appendFails(c) \/ erase(c) \/ reset(c)
               \/ evbuffer_remove(c) \/ getBuffer(c)
               \/ getLine(c) \/ getLineNone(c) \/ getLineFails(c) \/ find(c)
               \/ evbuffer_read(c) \/ evbuffer_readFails(c) \/ evbuffer_write(c)
    <3>1. PICK c \in Caches :
               \/ append(c) \/ appendFails(c) \/ erase(c) \/ reset(c)
               \/ evbuffer_remove(c) \/ getBuffer(c)
               \/ getLine(c) \/ getLineNone(c) \/ getLineFails(c) \/ find(c)
               \/ evbuffer_read(c) \/ evbuffer_readFails(c) \/ evbuffer_write(c)
      BY <2>1
    <3>2. /\ IInv'
          /\ \/ Queue!Put(c) \/ Queue!Get(c) \/ Queue!Line(c)
             \/ Queue!Peek(c) \/ Queue!Find(c) \/ Queue!Lose(c) \/ Queue!Fail
      BY <3>1, <1>1, <1>2, <1>3, <1>4, <1>5, <1>6, <1>7, <1>8, <1>9,
         GetBufferStep, LineStep, FindStep, Zenon
    <3> QED
      BY <3>2, Zenon DEF Queue!Next
  <2>2. CASE evbuffer_writeFails
    <3>1. UNCHANGED buf /\ answer' = Failed
      BY <2>2 DEF evbuffer_writeFails
    <3>2. IInv' /\ Queue!Fail
      BY <3>1, SameBuffers DEF Queue!Fail, Held
    <3> QED
      BY <3>2 DEF Queue!Next
  <2>3. CASE \E c, d \in Caches :
               /\ c # d
               /\ \/ add_bufferSwap(c, d) \/ add_bufferAdd(c, d) \/ add_bufferFails(c, d)
                  \/ appendCache(c, d) \/ take(c, d)
    <3>1. PICK c \in Caches, d \in Caches :
               /\ c # d
               /\ \/ add_bufferSwap(c, d) \/ add_bufferAdd(c, d) \/ add_bufferFails(c, d)
                  \/ appendCache(c, d) \/ take(c, d)
      BY <2>3
    <3>2. add_bufferFails(c, d) => IInv' /\ Queue!Fail
      BY AlignStep DEF add_bufferFails
    <3>3. IInv' /\ (Queue!Move(d, c) \/ Queue!Copy(d, c) \/ Queue!Replace(c, d) \/ Queue!Fail)
      BY <3>1, <3>2, SwapStep, AddBufferStep, AppendCacheStep, TakeStep, Zenon
    <3> QED
      BY <3>1, <3>3, Zenon DEF Queue!Next
  <2> QED
    BY <1>11, <2>1, <2>2, <2>3 DEF Next
<1> QED
  BY <1>10, <1>11

(* A new buffer is an empty queue.                                           *)
LEMMA InitIs ==
  ASSUME Init
  PROVE  IInv /\ Queue!Init
<1>1. buf = [c \in Caches |-> evbuffer_new] /\ answer = Failed
  BY DEF Init
<1>2. Good(evbuffer_new) /\ Data(evbuffer_new) = <<>>
  BY NewIsEmpty
<1>3. IInv
  BY <1>1, <1>2 DEF IInv, InsideBlock, Good
<1>4. [c \in Caches |-> Data(buf[c])] = [c \in Caches |-> <<>>]
  BY <1>1, <1>2
<1> QED
  BY <1>1, <1>3, <1>4 DEF Queue!Init

(* After any sequence of appends, drains, reads, takes and swaps of any     *)
(* number of buffers, with any reallocs failing, the bytes in use are inside*)
(* the block: the two ways in which evbuffer_expand makes room, moving the  *)
(* bytes and growing the block (buffer.c lines 250-300), are enough.        *)
THEOREM BlocksHold == Spec => []InsideBlock
<1>1. Init => IInv
  BY InitIs
<1>2. IInv /\ [Next]_vars => IInv'
  BY StepIs
<1>3. IInv => InsideBlock
  BY DEF IInv
<1> QED
  BY <1>1, <1>2, <1>3, PTL DEF Spec

(* The buffers implement queues of bytes: no call of buffer.c or            *)
(* BufferCache.cpp loses, doubles or invents a byte, getLine and find       *)
(* answer what stands in the data, and a call that fails takes at most      *)
(* bytes from the front.                                                    *)
THEOREM BuffersAreQueues == Spec => IsQueue
<1>1. Init => IInv /\ Queue!Init
  BY InitIs
<1>2. IInv /\ [Next]_vars => IInv' /\ [Queue!Next]_(Queue!queueVars)
  BY StepIs
<1> QED
  BY <1>1, <1>2, PTL DEF Spec, IsQueue, Queue!Spec

-----------------------------------------------------------------------------
(* The start codes of a file.                                               *)

\* The bytes before p are 0, 0 and those at p are 1.
Code(f, p) == p \in 3..Len(f) /\ f[p - 2] = 0 /\ f[p - 1] = 0 /\ f[p] = 1

(* Three bytes compared with a code.                                        *)
LEMMA IsCode2 ==
  ASSUME NEW f \in Seq(FileBytes), NEW p \in Int
  PROVE  A!StartCode2(f, p) <=> Code(f, p)
<1> DEFINE S == FileBytes \cup {0, 1}
           t == SubSeq(f, p - 2, p)
           w == <<0, 0, 1>>
<1>1. CASE p \notin 3..Len(f)
  BY <1>1 DEF A!StartCode2, Code
<1>2. CASE p \in 3..Len(f)
  <2>1. Len(f) \in Nat /\ p - 2 \in Int /\ \A i \in (p - 2)..p : f[i] \in S
    BY <1>2, LenProperties, ElementOfSeq
  <2>2. /\ t \in Seq(S) /\ Len(t) = IF p - 2 <= p THEN p - (p - 2) + 1 ELSE 0
        /\ \A i \in 1..(p - (p - 2) + 1) : t[i] = f[(p - 2) + i - 1]
    BY <2>1, SubSeqProperties
  <2>3. Len(t) = 3 /\ t[1] = f[p - 2] /\ t[2] = f[p - 1] /\ t[3] = f[p]
    <3> HIDE DEF t
    <3>1. p - 2 <= p /\ p - (p - 2) + 1 = 3 /\ 1 \in 1..3 /\ 2 \in 1..3 /\ 3 \in 1..3
      OBVIOUS
    <3>2. (p - 2) + 1 - 1 = p - 2 /\ (p - 2) + 2 - 1 = p - 1 /\ (p - 2) + 3 - 1 = p
      OBVIOUS
    <3> QED
      BY <2>2, <3>1, <3>2
  <2>4. w \in Seq(S) /\ Len(w) = 3 /\ w[1] = 0 /\ w[2] = 0 /\ w[3] = 1
    OBVIOUS
  <2> HIDE DEF S, t, w
  <2>5. t = w <=> t[1] = 0 /\ t[2] = 0 /\ t[3] = 1
    <3>1. ASSUME t[1] = 0, t[2] = 0, t[3] = 1 PROVE t = w
      <4>1. Len(t) = Len(w) /\ \A i \in 1..Len(t) : t[i] = w[i]
        BY <2>3, <2>4, <3>1
      <4> QED
        BY <2>2, <2>4, <4>1, SeqEqual
    <3> QED
      BY <2>4, <3>1
  <2> QED
    BY <1>2, <2>3, <2>5 DEF A!StartCode2, Code, t, w
<1> QED
  BY <1>1, <1>2

(* Four bytes compared with a code: a code of three with a zero before it.  *)
LEMMA IsCode3 ==
  ASSUME NEW f \in Seq(FileBytes), NEW p \in Int
  PROVE  A!StartCode3(f, p) <=> p > 3 /\ Code(f, p) /\ f[p - 3] = 0
<1> DEFINE S == FileBytes \cup {0, 1}
           t == SubSeq(f, p - 3, p)
           w == <<0, 0, 0, 1>>
<1>1. Len(f) \in Nat
  BY LenProperties
<1>2. CASE p \notin 4..Len(f)
  BY <1>1, <1>2 DEF A!StartCode3, Code
<1>3. CASE p \in 4..Len(f)
  <2>1. p - 3 \in Int /\ \A i \in (p - 3)..p : f[i] \in S
    BY <1>1, <1>3, ElementOfSeq
  <2>2. /\ t \in Seq(S) /\ Len(t) = IF p - 3 <= p THEN p - (p - 3) + 1 ELSE 0
        /\ \A i \in 1..(p - (p - 3) + 1) : t[i] = f[(p - 3) + i - 1]
    BY <2>1, SubSeqProperties
  <2>3. Len(t) = 4 /\ t[1] = f[p - 3] /\ t[2] = f[p - 2] /\ t[3] = f[p - 1] /\ t[4] = f[p]
    <3> HIDE DEF t
    <3>1. /\ p - 3 <= p /\ p - (p - 3) + 1 = 4
          /\ 1 \in 1..4 /\ 2 \in 1..4 /\ 3 \in 1..4 /\ 4 \in 1..4
      OBVIOUS
    <3>2. /\ (p - 3) + 1 - 1 = p - 3 /\ (p - 3) + 2 - 1 = p - 2
          /\ (p - 3) + 3 - 1 = p - 1 /\ (p - 3) + 4 - 1 = p
      OBVIOUS
    <3> QED
      BY <2>2, <3>1, <3>2
  <2>4. w \in Seq(S) /\ Len(w) = 4 /\ w[1] = 0 /\ w[2] = 0 /\ w[3] = 0 /\ w[4] = 1
    OBVIOUS
  <2> HIDE DEF S, t, w
  <2>5. t = w <=> t[1] = 0 /\ t[2] = 0 /\ t[3] = 0 /\ t[4] = 1
    <3>1. ASSUME t[1] = 0, t[2] = 0, t[3] = 0, t[4] = 1 PROVE t = w
      <4>1. Len(t) = Len(w) /\ \A i \in 1..Len(t) : t[i] = w[i]
        BY <2>3, <2>4, <3>1
      <4> QED
        BY <2>2, <2>4, <4>1, SeqEqual
    <3> QED
      BY <2>4, <3>1
  <2>6. A!StartCode3(f, p) <=> t = w
    BY <1>3 DEF A!StartCode3, t, w
  <2>7. p > 3 /\ Code(f, p) /\ f[p - 3] = 0 <=> t[1] = 0 /\ t[2] = 0 /\ t[3] = 0 /\ t[4] = 1
    <3>1. p > 3 /\ p \in 3..Len(f)
      BY <1>1, <1>3
    <3> QED
      BY <2>3, <3>1 DEF Code
  <2> QED
    BY <2>5, <2>6, <2>7
<1> QED
  BY <1>2, <1>3

(* The codes of a file, and where those after s end.                        *)
LEMMA CodesAre ==
  ASSUME NEW f \in Seq(FileBytes), NEW s \in Nat
  PROVE  /\ A!Codes(f) = {p \in 1..Len(f) : Code(f, p)}
         /\ A!Ends(f, s) = {q \in A!Codes(f) : q > s}
<1>1. Len(f) \in Nat
  BY LenProperties
<1>2. A!Codes(f) = {p \in 1..Len(f) : Code(f, p)}
  BY <1>1, IsCode2 DEF A!Codes
<1>3. A!Ends(f, s) = {p \in (s + 1)..Len(f) : Code(f, p)}
  BY <1>1, IsCode2, IsCode3 DEF A!Ends
<1>4. \A q : q \in A!Ends(f, s) <=> q \in A!Codes(f) /\ q > s
  BY <1>1, <1>2, <1>3
<1> QED
  BY <1>2, <1>4

(* The 1 of a code is not among the bytes of the next one.                  *)
LEMMA CodesAreApart ==
  ASSUME NEW f \in Seq(FileBytes), NEW s \in Nat, Code(f, s),
         NEW q \in Nat, Code(f, q), q > s
  PROVE  q >= s + 3 /\ (f[q - 3] = 0 => q >= s + 4)
<1>1. f[s] = 1 /\ f[q - 2] = 0 /\ f[q - 1] = 0
  BY DEF Code
<1>2. q # s + 1 /\ q # s + 2
  <2>1. q = s + 1 => s = q - 1
    OBVIOUS
  <2>2. q = s + 2 => s = q - 2
    OBVIOUS
  <2> QED
    BY <1>1, <2>1, <2>2
<1>3. f[q - 3] = 0 => q # s + 3
  <2>1. q = s + 3 => s = q - 3
    OBVIOUS
  <2> QED
    BY <1>1, <2>1
<1> QED
  BY <1>2, <1>3

(* The bytes of a file from one place to another.                           *)
LEMMA BytesFrom ==
  ASSUME NEW f \in Seq(FileBytes), NEW s \in Nat, NEW e \in Nat, s <= e, e <= Len(f)
  PROVE  /\ SubSeq(f, s + 1, e) \in Seq(FileBytes)
         /\ SubSeq(f, s + 1, e) = <<>> <=> e = s
<1>1. Len(f) \in Nat /\ s + 1 \in Int /\ \A i \in (s + 1)..e : f[i] \in FileBytes
  BY LenProperties, ElementOfSeq
<1>2. /\ SubSeq(f, s + 1, e) \in Seq(FileBytes)
      /\ Len(SubSeq(f, s + 1, e)) = IF s + 1 <= e THEN e - (s + 1) + 1 ELSE 0
  BY <1>1, SubSeqProperties
<1>3. Len(SubSeq(f, s + 1, e)) = e - s
  BY <1>2
<1>4. SubSeq(f, s + 1, e) = <<>> <=> Len(SubSeq(f, s + 1, e)) = 0
  BY <1>2, EmptySeq
<1> QED
  BY <1>2, <1>3, <1>4

(* The unit after the last code is the rest of the file.                    *)
LEMMA LastUnit ==
  ASSUME NEW f \in Seq(FileBytes), NEW s \in Nat, Code(f, s), A!Ends(f, s) = {}
  PROVE  A!UnitAfter(f, s) = SubSeq(f, s + 1, Len(f)) /\ s <= Len(f)
<1>1. {q \in A!Codes(f) : q > s} = {}
  BY CodesAre
<1>2. s <= Len(f)
  BY LenProperties DEF Code
<1> QED
  BY <1>1, <1>2 DEF A!UnitAfter

(* The unit after another code ends where the next code begins.             *)
LEMMA InnerUnit ==
  ASSUME NEW f \in Seq(FileBytes), NEW s \in Nat, Code(f, s), A!Ends(f, s) # {}
  PROVE  LET q == A!Min(A!Ends(f, s))
             e == q - (IF A!StartCode3(f, q) THEN 4 ELSE 3)
         IN  /\ q \in A!Codes(f) /\ q \in Nat /\ Code(f, q) /\ q > s
             /\ \A r \in A!Codes(f) : r > s => q <= r
             /\ A!UnitAfter(f, s) = SubSeq(f, s + 1, e)
             /\ e \in Nat /\ s <= e /\ e <= Len(f)
             /\ A!StartCode3(f, q) <=> q > 3 /\ f[q - 3] = 0
<1> DEFINE T == A!Ends(f, s)
           q == A!Min(T)
           e == q - (IF A!StartCode3(f, q) THEN 4 ELSE 3)
<1>1. Len(f) \in Nat
  BY LenProperties
<1>2. T = {r \in A!Codes(f) : r > s} /\ A!Codes(f) = {r \in 1..Len(f) : Code(f, r)}
  BY CodesAre
<1>3. \E r \in T : \A t \in T : r <= t
  <2>1. T \in SUBSET Nat /\ T # {}
    BY <1>1, <1>2
  <2> HIDE DEF T
  <2> QED
    BY <2>1, NatMin
<1>4. q \in T /\ \A t \in T : q <= t
  <2> HIDE DEF T
  <2> QED
    BY <1>3 DEF A!Min
<1>5. /\ q \in A!Codes(f) /\ q \in Nat /\ Code(f, q) /\ q > s /\ q <= Len(f)
      /\ \A r \in A!Codes(f) : r > s => q <= r
  <2> HIDE DEF q, T
  <2> QED
    BY <1>1, <1>2, <1>4
<1> HIDE DEF q
<1>6. q >= s + 3 /\ (f[q - 3] = 0 => q >= s + 4)
  BY <1>5, CodesAreApart
<1>7. A!StartCode3(f, q) <=> q > 3 /\ f[q - 3] = 0
  BY <1>5, IsCode3
<1>8. q - 3 > s /\ f[q - 3] = 0 <=> A!StartCode3(f, q)
  BY <1>5, <1>6, <1>7
<1>9. e \in Nat /\ s <= e /\ e <= Len(f)
  BY <1>1, <1>5, <1>6, <1>7
<1>10. A!UnitAfter(f, s) = SubSeq(f, s + 1, e)
  <2>1. A!UnitAfter(f, s) =
          SubSeq(f, s + 1, IF T = {} THEN Len(f)
                           ELSE IF q - 3 > s /\ f[q - 3] = 0 THEN q - 4 ELSE q - 3)
    BY <1>2 DEF A!UnitAfter, q
  <2>2. e = IF q - 3 > s /\ f[q - 3] = 0 THEN q - 4 ELSE q - 3
    BY <1>8
  <2> QED
    BY <2>1, <2>2
<1> QED
  BY <1>5, <1>7, <1>9, <1>10 DEF q

(* Every unit is a sequence of bytes.                                       *)
LEMMA UnitIsBytes ==
  ASSUME NEW f \in Seq(FileBytes), NEW s \in A!Codes(f)
  PROVE  A!UnitAfter(f, s) \in Seq(FileBytes)
<1>1. s \in Nat /\ Code(f, s) /\ Len(f) \in Nat
  BY 0 \in Nat, CodesAre, LenProperties
<1>2. CASE A!Ends(f, s) = {}
  <2>1. A!UnitAfter(f, s) = SubSeq(f, s + 1, Len(f)) /\ s <= Len(f) /\ Len(f) <= Len(f)
    BY <1>1, <1>2, LastUnit
  <2> QED
    BY <1>1, <2>1, BytesFrom
<1>3. CASE A!Ends(f, s) # {}
  <2> DEFINE q == A!Min(A!Ends(f, s))
             e == q - (IF A!StartCode3(f, q) THEN 4 ELSE 3)
  <2>1. A!UnitAfter(f, s) = SubSeq(f, s + 1, e) /\ e \in Nat /\ s <= e /\ e <= Len(f)
    BY <1>1, <1>3, InnerUnit
  <2> HIDE DEF e
  <2> QED
    BY <1>1, <2>1, BytesFrom
<1> QED
  BY <1>2, <1>3
-----------------------------------------------------------------------------
(* Counting the units.                                                      *)

(* Annexb counts as the library does.                                       *)
LEMMA SameCardinality == \A S : A!Cardinality(S) = Cardinality(S)
BY DEF A!Cardinality, Cardinality

(* A rank is a cardinality.                                                 *)
LEMMA RankCounts == \A S, p : A!Rank(S, p) = Cardinality({q \in S : q <= p})
BY SameCardinality, Zenon DEF A!Rank

(* The codes whose units are sent are finite in number.                     *)
LEMMA KeptAreFinite ==
  ASSUME NEW f \in Seq(FileBytes)
  PROVE  /\ A!KeptCodes(f) \in SUBSET Nat /\ IsFiniteSet(A!KeptCodes(f))
         /\ A!KeptCodes(f) \subseteq A!Codes(f)
<1>1. A!KeptCodes(f) \subseteq A!Codes(f)
  BY DEF A!KeptCodes
<1>2. A!Codes(f) \subseteq 1..Len(f) /\ Len(f) \in Nat
  BY LenProperties DEF A!Codes
<1>3. IsFiniteSet(1..Len(f))
  BY <1>2, FS_Interval
<1> QED
  BY <1>1, <1>2, <1>3, FS_Subset

(* The numbers up to s are one more than those before it.                   *)
LEMMA RankIs ==
  ASSUME NEW K \in SUBSET Nat, IsFiniteSet(K), NEW s \in K
  PROVE  /\ A!Rank(K, s) = Cardinality({q \in K : q < s}) + 1
         /\ Cardinality({q \in K : q < s}) \in Nat
         /\ A!Rank(K, s) \in 1..Cardinality(K)
<1> DEFINE T == {q \in K : q < s}
           U == {q \in K : q <= s}
<1>1. IsFiniteSet(T) /\ IsFiniteSet(U) /\ Cardinality(U) <= Cardinality(K)
  BY FS_Subset
<1>2. U = T \cup {s} /\ s \notin T
  <2>1. \A q \in K : (q <= s <=> q < s \/ q = s) /\ ~(s < s)
    OBVIOUS
  <2> QED
    BY <2>1, Zenon
<1>3. Cardinality(U) = Cardinality(T) + 1
  BY <1>1, <1>2, FS_AddElement
<1>4. Cardinality(T) \in Nat /\ Cardinality(K) \in Nat
  BY <1>1, FS_CardinalityType
<1>5. A!Rank(K, s) = Cardinality(U)
  BY RankCounts, Zenon
<1> HIDE DEF T, U
<1>6. A!Rank(K, s) = Cardinality(T) + 1 /\ A!Rank(K, s) \in 1..Cardinality(K)
  BY <1>1, <1>3, <1>4, <1>5
<1> QED
  BY <1>4, <1>6 DEF T

(* Two codes have different ranks.                                          *)
LEMMA RankIsUnique ==
  ASSUME NEW K \in SUBSET Nat, IsFiniteSet(K), NEW p \in K, NEW q \in K,
         A!Rank(K, p) = A!Rank(K, q)
  PROVE  p = q
<1>1. ASSUME NEW a \in K, NEW b \in K, a < b PROVE A!Rank(K, a) < A!Rank(K, b)
  <2> DEFINE U == {r \in K : r <= a}
             T == {r \in K : r < b}
  <2>1. \A r \in K : r <= a => r < b
    BY <1>1
  <2>2. U \subseteq T /\ IsFiniteSet(T)
    BY <2>1, FS_Subset
  <2>3. Cardinality(U) <= Cardinality(T)
    BY <2>2, FS_Subset
  <2>4. A!Rank(K, b) = Cardinality(T) + 1 /\ Cardinality(T) \in Nat
    BY RankIs
  <2>5. A!Rank(K, a) = Cardinality(U)
    BY RankCounts, Zenon
  <2>6. A!Rank(K, a) \in 1..Cardinality(K)
    BY RankIs
  <2> QED
    BY <2>3, <2>4, <2>5, <2>6
<1>2. A!Rank(K, p) \in 1..Cardinality(K) /\ p \in Nat /\ q \in Nat
  BY RankIs
<1>3. ~(p < q) /\ ~(q < p)
  BY <1>1, <1>2
<1> QED
  BY <1>2, <1>3

(* Every rank up to the number of codes is taken.                           *)
LEMMA RankIsTaken ==
  ASSUME NEW K \in SUBSET Nat, IsFiniteSet(K), NEW i \in 1..Cardinality(K)
  PROVE  \E p \in K : A!Rank(K, p) = i
\* Else two codes would have the same rank.
<1> SUFFICES ASSUME \A p \in K : A!Rank(K, p) # i PROVE FALSE
  OBVIOUS
<1> DEFINE T == (1..Cardinality(K)) \ {i}
           rank == [p \in K |-> A!Rank(K, p)]
<1>1. Cardinality(K) \in Nat
  BY FS_CardinalityType
<1>2. IsFiniteSet(1..Cardinality(K)) /\ Cardinality(1..Cardinality(K)) = Cardinality(K)
  <2>1. 1 \in Int /\ Cardinality(K) \in Int
    BY <1>1
  <2>2. /\ IsFiniteSet(1..Cardinality(K))
        /\ Cardinality(1..Cardinality(K)) =
             IF 1 > Cardinality(K) THEN 0 ELSE Cardinality(K) - 1 + 1
    BY <2>1, FS_Interval
  <2> QED
    BY <1>1, <2>2
<1>3. IsFiniteSet(T) /\ Cardinality(T) < Cardinality(K)
  <2>1. IsFiniteSet(T) /\ Cardinality(T) = Cardinality(1..Cardinality(K)) - 1
    BY <1>2, FS_RemoveElement
  <2> HIDE DEF T
  <2> QED
    BY <1>1, <1>2, <2>1
<1>4. rank \in [K -> T]
  <2>1. \A p \in K : A!Rank(K, p) \in 1..Cardinality(K)
    BY RankIs
  <2> QED
    BY <2>1
<1>5. \E p, q \in K : p # q /\ rank[p] = rank[q]
  <2> HIDE DEF T, rank
  <2> QED
    BY <1>3, <1>4, FS_PigeonHole
<1>6. PICK p \in K, q \in K : p # q /\ A!Rank(K, p) = A!Rank(K, q)
  BY <1>5
<1> QED
  BY <1>6, RankIsUnique

(* The i-th unit is the one after the code of rank i.                       *)
LEMMA UnitOfRank ==
  ASSUME NEW f \in Seq(FileBytes), NEW q \in A!KeptCodes(f)
  PROVE  LET i == A!Rank(A!KeptCodes(f), q) IN
           /\ i \in 1..Cardinality(A!KeptCodes(f))
           /\ A!Units(f)[i] = A!UnitAfter(f, q)
<1> DEFINE K == A!KeptCodes(f)
           i == A!Rank(K, q)
<1>1. K \in SUBSET Nat /\ IsFiniteSet(K)
  BY KeptAreFinite
<1> HIDE DEF K
<1>2. q \in K
  BY DEF K
<1>3. i \in 1..Cardinality(K)
  BY <1>1, <1>2, RankIs
<1>4. q = CHOOSE p \in K : A!Rank(K, p) = i
  BY <1>1, <1>2, RankIsUnique
<1>5. A!Units(f)[i] = A!UnitAfter(f, CHOOSE p \in K : A!Rank(K, p) = i)
  <2>1. A!Units(f) = [k \in 1..Cardinality(K) |-> A!UnitAfter(f, CHOOSE p \in K : A!Rank(K, p) = k)]
    BY SameCardinality DEF A!Units, K
  <2> HIDE DEF i
  <2> QED
    BY <1>3, <2>1
<1> QED
  BY <1>3, <1>4, <1>5 DEF K

(* The units of a file are sequences of bytes, one for each code of them.   *)
LEMMA UnitsAreBytes ==
  ASSUME NEW f \in Seq(FileBytes)
  PROVE  /\ A!Units(f) \in Seq(Seq(FileBytes))
         /\ Len(A!Units(f)) = Cardinality(A!KeptCodes(f))
<1> DEFINE K == A!KeptCodes(f)
<1>1. K \in SUBSET Nat /\ IsFiniteSet(K) /\ K \subseteq A!Codes(f)
  BY KeptAreFinite
<1>2. A!Units(f) = [i \in 1..Cardinality(K) |-> A!UnitAfter(f, CHOOSE p \in K : A!Rank(K, p) = i)]
  BY SameCardinality DEF A!Units
<1> HIDE DEF K
<1>3. ASSUME NEW i \in 1..Cardinality(K) PROVE \E p \in K : A!Rank(K, p) = i
  BY <1>1, RankIsTaken
<1>4. ASSUME NEW i \in 1..Cardinality(K)
      PROVE  A!UnitAfter(f, CHOOSE p \in K : A!Rank(K, p) = i) \in Seq(FileBytes)
  <2>1. (CHOOSE p \in K : A!Rank(K, p) = i) \in K
    BY <1>3
  <2> QED
    BY <1>1, <2>1, UnitIsBytes
<1>5. A!Units(f) \in [1..Cardinality(K) -> Seq(FileBytes)] /\ Cardinality(K) \in Nat
  BY <1>1, <1>2, <1>4, FS_CardinalityType
<1> QED
  BY <1>5, Sequences1 DEF K
-----------------------------------------------------------------------------
(* The sender's loop.                                                       *)

\* The last byte of the code that begins after p.
CodeAfter(f, p) == p + A!CodeLength(f, p)

\* A code begins after p, and is read as the length it has.
AtCode(f, p) ==
  /\ p \in Nat /\ A!CodeLength(f, p) \in {3, 4}
  /\ Code(f, CodeAfter(f, p))
  /\ A!CodeLength(f, p) = 4 <=> A!Long(f, CodeAfter(f, p))

(* Where a code ends and no longer one does, the code read is that code.    *)
LEMMA CodeReadIs ==
  ASSUME NEW f \in Seq(FileBytes), NEW p \in Nat, NEW q \in Nat, Code(f, q),
         \/ q = p + 4 /\ f[q - 3] = 0
         \/ q = p + 3 /\ ~A!Long(f, q)
  PROVE  AtCode(f, p) /\ CodeAfter(f, p) = q
<1>1. A!StartCode2(f, p + 3) <=> Code(f, p + 3)
  BY IsCode2
<1>2. A!StartCode3(f, p + 4) <=> p + 4 > 3 /\ Code(f, p + 4) /\ f[(p + 4) - 3] = 0
  BY IsCode3
<1>3. CASE q = p + 4 /\ f[q - 3] = 0
  <2>1. q - 1 = p + 3 /\ f[q - 1] = 0 /\ q > 3
    BY <1>3 DEF Code
  <2>2. ~Code(f, p + 3)
    BY <2>1 DEF Code
  <2>3. A!CodeLength(f, p) = 4
    BY <1>1, <1>2, <1>3, <2>1, <2>2 DEF A!CodeLength
  <2> QED
    BY <1>3, <2>1, <2>3 DEF AtCode, CodeAfter, A!Long
<1>4. CASE q = p + 3 /\ ~A!Long(f, q)
  <2>1. A!CodeLength(f, p) = 3
    BY <1>1, <1>4 DEF A!CodeLength
  <2> QED
    BY <1>4, <2>1 DEF AtCode, CodeAfter
<1> QED
  BY <1>3, <1>4

(* A turn of the loop at a code: the unit after it, whether it is sent, and *)
(* where the position is then.                                              *)
LEMMA TurnIs ==
  ASSUME NEW f \in Seq(FileBytes), NEW p, AtCode(f, p)
  PROVE  LET s == CodeAfter(f, p)
             n == A!GetAnnexbNALU(f, p)
         IN  /\ s \in Nat /\ s \in A!Codes(f)
             /\ n.unit = A!UnitAfter(f, s) /\ n.eof \in BOOLEAN
             /\ n.size < 4 <=> s \notin A!KeptCodes(f)
             /\ n.eof => \A r \in A!Codes(f) : r <= s
             /\ ~n.eof => /\ AtCode(f, n.pos)
                          /\ \A r \in A!Codes(f) : r <= s <=> r < CodeAfter(f, n.pos)
<1> DEFINE c == A!CodeLength(f, p)
           s == CodeAfter(f, p)
           n == A!GetAnnexbNALU(f, p)
           unit == A!UnitAfter(f, s)
<1>1. /\ p \in Nat /\ c \in {3, 4} /\ Code(f, s) /\ s = p + c /\ s \in Nat
      /\ c = 4 <=> A!Long(f, s)
  BY DEF AtCode, CodeAfter
<1>2. Len(f) \in Nat /\ s \in 3..Len(f)
  BY <1>1, LenProperties DEF Code
<1>3. A!Codes(f) = {r \in 1..Len(f) : Code(f, r)} /\ A!Ends(f, s) = {r \in A!Codes(f) : r > s}
  BY <1>1, CodesAre
<1>4. s \in A!Codes(f)
  BY <1>1, <1>2, <1>3
<1>5. s \in A!KeptCodes(f) <=> unit # <<>> \/ c = 4
  BY <1>1, <1>4 DEF A!KeptCodes, A!Kept
<1>6. ~(Len(f) - p < 3 \/ (c # 3 /\ Len(f) - p < 4)) /\ c # 0
  BY <1>1, <1>2
<1>7. CASE A!Ends(f, s) = {}
  <2>1. n = A!NALU(Len(f) - p, SubSeq(f, s + 1, Len(f)), Len(f), TRUE)
    BY <1>6, <1>7 DEF A!GetAnnexbNALU, CodeAfter
  <2>2. n.size = Len(f) - p /\ n.unit = SubSeq(f, s + 1, Len(f)) /\ n.eof = TRUE
    <3> HIDE DEF n, s
    <3> QED
      BY <2>1 DEF A!NALU
  <2>3. unit = SubSeq(f, s + 1, Len(f)) /\ s <= Len(f)
    BY <1>1, <1>7, LastUnit
  <2>4. unit = <<>> <=> Len(f) = s
    BY <1>1, <1>2, <2>3, BytesFrom
  <2> HIDE DEF n, unit, c, s
  <2>5. n.size < 4 <=> c = 3 /\ Len(f) = s
    BY <1>1, <1>2, <2>2
  <2>6. \A r \in A!Codes(f) : r <= s
    BY <1>1, <1>3, <1>7
  <2>7. n.size < 4 <=> s \notin A!KeptCodes(f)
    BY <1>1, <1>5, <2>4, <2>5
  <2> QED
    BY <1>1, <1>4, <2>2, <2>3, <2>6, <2>7 DEF n, unit, s
<1>8. CASE A!Ends(f, s) # {}
  <2> DEFINE q == A!Min(A!Ends(f, s))
             e == q - (IF A!StartCode3(f, q) THEN 4 ELSE 3)
  <2>1. n = A!NALU(e - p, SubSeq(f, s + 1, e), e, FALSE)
    BY <1>6, <1>8 DEF A!GetAnnexbNALU, CodeAfter
  <2>2. n.size = e - p /\ n.unit = SubSeq(f, s + 1, e) /\ n.pos = e /\ n.eof = FALSE
    <3> HIDE DEF e, n, s
    <3> QED
      BY <2>1 DEF A!NALU
  <2>3. /\ q \in A!Codes(f) /\ q \in Nat /\ Code(f, q) /\ q > s
        /\ \A r \in A!Codes(f) : r > s => q <= r
        /\ unit = SubSeq(f, s + 1, e)
        /\ e \in Nat /\ s <= e /\ e <= Len(f)
        /\ A!StartCode3(f, q) <=> q > 3 /\ f[q - 3] = 0
    BY <1>1, <1>8, InnerUnit
  <2>4. unit = <<>> <=> e = s
    <3> HIDE DEF e
    <3> QED
      BY <1>1, <2>3, BytesFrom
  <2>5. \/ q = e + 4 /\ f[q - 3] = 0
        \/ q = e + 3 /\ ~A!Long(f, q)
    <3> HIDE DEF q
    <3> QED
      BY <2>3 DEF A!Long
  <2> HIDE DEF e, q
  <2>6. AtCode(f, e) /\ CodeAfter(f, e) = q
    BY <2>3, <2>5, CodeReadIs
  <2> HIDE DEF n, unit, c, s
  <2>7. n.size < 4 <=> c = 3 /\ e = s
    BY <1>1, <2>2, <2>3
  <2>8. n.size < 4 <=> s \notin A!KeptCodes(f)
    BY <1>1, <1>5, <2>4, <2>7
  <2>9. ASSUME NEW r \in A!Codes(f) PROVE r <= s <=> r < q
    <3>1. r \in Nat
      BY <1>2, <1>3
    <3> QED
      BY <1>1, <2>3, <3>1
  <2> QED
    BY <1>1, <1>4, <2>2, <2>3, <2>6, <2>8, <2>9 DEF n, unit, s
<1> QED
  BY <1>7, <1>8

\* The codes whose units have been sent: all at the end of the file, else
\* those before the code the position is at.
CodesDone ==
  IF eof THEN A!KeptCodes(file)
         ELSE {q \in A!KeptCodes(file) : q < CodeAfter(file, pos)}

UnitsSent(K) ==
  /\ Len(sent) = Cardinality(K)
  /\ \A i \in 1..Len(sent) : sent[i] = A!Units(file)[i]

UnitsInv ==
  /\ file \in Seq(FileBytes) /\ done \in BOOLEAN /\ (done => eof)
  /\ A!Starts(file) => /\ sent \in Seq(Seq(FileBytes)) /\ UnitsSent(CodesDone)
                       /\ ~eof => AtCode(file, pos)

(* A file that begins with a start code is at its first code, and nothing   *)
(* is sent.                                                                 *)
LEMMA UnitsInit ==
  ASSUME A!Init
  PROVE  UnitsInv
<1>1. /\ file \in Seq(FileBytes)
      /\ pos = 0 /\ eof = FALSE /\ sent = <<>> /\ done = FALSE
  <2>1. PICK n \in 0..MaxFile : file \in [1..n -> FileBytes]
    BY DEF A!Init
  <2>2. n \in Nat
    BY FileAssumption DEF A!AnnexbRange
  <2> QED
    BY <2>1, <2>2, Sequences1 DEF A!Init
<1>2. sent \in Seq(Seq(FileBytes)) /\ Len(sent) = 0
  BY <1>1, EmptySeq
<1>3. ASSUME A!Starts(file)
      PROVE  AtCode(file, pos) /\ CodesDone = {}
  <2>1. 0 + 3 = 3 /\ 0 + 4 = 4
    OBVIOUS
  <2>2. A!CodeLength(file, 0) = IF A!StartCode2(file, 3) THEN 3
                                ELSE IF A!StartCode3(file, 4) THEN 4 ELSE 0
    BY <2>1 DEF A!CodeLength
  <2>3. /\ A!StartCode2(file, 3) <=> Code(file, 3)
        /\ A!StartCode3(file, 4) <=> Code(file, 4) /\ file[1] = 0
    <3>1. 4 - 3 = 1 /\ 4 > 3
      OBVIOUS
    <3> QED
      BY <1>1, <3>1, IsCode2, IsCode3
  <2>4. \E q \in {3, 4} : /\ AtCode(file, 0) /\ CodeAfter(file, 0) = q
                          /\ q = 4 => ~Code(file, 3)
    <3>1. CASE Code(file, 3)
      <4>1. 3 = 0 + 3 /\ ~A!Long(file, 3)
        BY DEF A!Long
      <4> QED
        BY <1>1, <3>1, <4>1, CodeReadIs
    <3>2. CASE ~Code(file, 3)
      <4>1. Code(file, 4) /\ file[1] = 0
        BY <1>3, <2>2, <2>3, <3>2 DEF A!Starts
      <4>2. 4 = 0 + 4 /\ file[4 - 3] = 0
        BY <4>1
      <4>3. AtCode(file, 0) /\ CodeAfter(file, 0) = 4
        BY <1>1, <4>1, <4>2, CodeReadIs
      <4> QED
        BY <3>2, <4>3
    <3> QED
      BY <3>1, <3>2
  <2>5. PICK q \in {3, 4} : /\ AtCode(file, 0) /\ CodeAfter(file, 0) = q
                            /\ q = 4 => ~Code(file, 3)
    BY <2>4
  <2>6. CodesDone = {r \in A!KeptCodes(file) : r < q}
    BY <1>1, <2>5 DEF CodesDone
  <2>7. ASSUME NEW r \in A!KeptCodes(file) PROVE ~(r < q)
    <3>1. r \in A!Codes(file) /\ r \in Nat
      BY <1>1, <2>7, KeptAreFinite
    <3>2. Code(file, r)
      BY <1>1, <3>1, 0 \in Nat, CodesAre
    <3>3. r >= 3
      BY <1>1, <3>2, LenProperties DEF Code
    <3> QED
      BY <2>5, <3>1, <3>2, <3>3
  <2> QED
    BY <1>1, <2>5, <2>6, <2>7
<1>4. A!Starts(file) => AtCode(file, pos) /\ UnitsSent(CodesDone)
  <2>1. Cardinality({}) = 0
    BY FS_EmptySet
  <2> QED
    BY <1>2, <1>3, <2>1 DEF UnitsSent
<1> QED
  BY <1>1, <1>2, <1>4 DEF UnitsInv

(* A turn of the loop sends the unit at the position, if it is kept, and    *)
(* comes to the next code or to the end.                                    *)
LEMMA UnitsTurn ==
  ASSUME UnitsInv, A!SendNALU
  PROVE  UnitsInv'
<1> DEFINE n == A!GetAnnexbNALU(file, pos)
           K == A!KeptCodes(file)
           s == CodeAfter(file, pos)
<1>1. /\ ~done /\ ~eof /\ pos' = n.pos /\ eof' = n.eof
      /\ sent' = IF n.size < 4 THEN sent ELSE Append(sent, n.unit)
      /\ file' = file /\ done' = done
  BY DEF A!SendNALU
<1>2. /\ file \in Seq(FileBytes) /\ done \in BOOLEAN
      /\ A!Starts(file) => /\ AtCode(file, pos) /\ UnitsSent({q \in K : q < s})
                           /\ sent \in Seq(Seq(FileBytes))
  BY <1>1 DEF UnitsInv, CodesDone
<1>3. ASSUME A!Starts(file)
      PROVE  /\ sent' \in Seq(Seq(FileBytes)) /\ UnitsSent(CodesDone)'
             /\ ~eof' => AtCode(file, pos')
  <2> DEFINE T == {q \in K : q < s}
             U == {q \in K : q <= s}
  <2>1. /\ s \in Nat /\ s \in A!Codes(file)
        /\ n.unit = A!UnitAfter(file, s) /\ n.eof \in BOOLEAN
        /\ n.size < 4 <=> s \notin K
        /\ n.eof => \A r \in A!Codes(file) : r <= s
        /\ ~n.eof => /\ AtCode(file, n.pos)
                     /\ \A r \in A!Codes(file) : r <= s <=> r < CodeAfter(file, n.pos)
    BY <1>2, <1>3, TurnIs
  <2>2. K \in SUBSET Nat /\ IsFiniteSet(K) /\ K \subseteq A!Codes(file)
    BY <1>2, KeptAreFinite
  <2>3. CodesDone' = U
    <3>1. CodesDone' = IF n.eof THEN K ELSE {q \in K : q < CodeAfter(file, n.pos)}
      BY <1>1 DEF CodesDone
    <3> HIDE DEF n, s, K
    <3> QED
      BY <2>1, <2>2, <3>1
  <2>4. Len(sent) = Cardinality(T) /\ \A i \in 1..Len(sent) : sent[i] = A!Units(file)[i]
    BY <1>2, <1>3 DEF UnitsSent
  <2>5. Len(sent) \in Nat
    BY <1>2, <1>3, LenProperties
  <2> HIDE DEF n, s, K
  <2>6. Len(sent') = Cardinality(U) /\ \A i \in 1..Len(sent') : sent'[i] = A!Units(file)[i]
    <3>1. CASE s \notin K
      <4>1. \A q \in K : q <= s <=> q < s
        BY <2>1, <2>2, <3>1
      <4>2. T = U
        BY <4>1
      <4>3. sent' = sent
        BY <1>1, <2>1, <3>1
      <4> QED
        BY <2>4, <4>2, <4>3
    <3>2. CASE s \in K
      <4>1. /\ A!Rank(K, s) = Cardinality(T) + 1
            /\ A!Rank(K, s) = Cardinality(U)
        BY <2>2, <3>2, RankIs, RankCounts
      <4>2. A!Units(file)[A!Rank(K, s)] = A!UnitAfter(file, s)
        BY <1>2, <3>2, UnitOfRank DEF K
      <4>3. sent' = Append(sent, A!UnitAfter(file, s)) /\ A!UnitAfter(file, s) \in Seq(FileBytes)
        BY <1>1, <1>2, <2>1, <3>2, UnitIsBytes
      <4>4. /\ Len(sent') = Len(sent) + 1
            /\ \A i \in 1..Len(sent) : sent'[i] = sent[i]
            /\ sent'[Len(sent) + 1] = A!UnitAfter(file, s)
        BY <1>2, <1>3, <4>3, AppendProperties
      <4>5. Len(sent') = Cardinality(U) /\ sent'[Len(sent')] = A!Units(file)[Len(sent')]
        BY <2>4, <4>1, <4>2, <4>4
      <4>6. ASSUME NEW i \in 1..Len(sent') PROVE sent'[i] = A!Units(file)[i]
        <5>1. i = Len(sent') \/ i \in 1..Len(sent)
          BY <2>5, <4>4
        <5> QED
          BY <2>4, <4>4, <4>5, <5>1
      <4> QED
        BY <4>5, <4>6
    <3> QED
      BY <3>1, <3>2
  <2>7. ~eof' => AtCode(file, pos')
    BY <1>1, <2>1
  <2>8. UnitsSent(CodesDone)'
    BY <1>1, <2>3, <2>6 DEF UnitsSent
  <2>9. sent' \in Seq(Seq(FileBytes))
    <3>1. s \in K => A!UnitAfter(file, s) \in Seq(FileBytes)
      BY <1>2, <2>1, UnitIsBytes
    <3> QED
      BY <1>1, <1>2, <1>3, <2>1, <3>1, AppendProperties
  <2> QED
    BY <2>7, <2>8, <2>9
<1>4. A!Starts(file') => /\ sent' \in Seq(Seq(FileBytes)) /\ UnitsSent(CodesDone)'
                         /\ ~eof' => AtCode(file', pos')
  BY <1>1, <1>3
<1> QED
  BY <1>1, <1>2, <1>4 DEF UnitsInv

(* At the end of the file the loop is left.                                 *)
LEMMA UnitsEnd ==
  ASSUME UnitsInv, A!EndOfFile \/ UNCHANGED A!vars
  PROVE  UnitsInv'
<1>1. CASE A!EndOfFile
  <2>1. /\ eof /\ done' = TRUE
        /\ file' = file /\ pos' = pos /\ eof' = eof /\ sent' = sent
    BY <1>1 DEF A!EndOfFile
  <2> QED
    BY <2>1 DEF UnitsInv, UnitsSent, CodesDone
<1>2. CASE UNCHANGED A!vars
  <2>1. file' = file /\ pos' = pos /\ eof' = eof /\ sent' = sent /\ done' = done
    BY <1>2 DEF A!vars
  <2> QED
    BY <2>1 DEF UnitsInv, UnitsSent, CodesDone
<1> QED
  BY <1>1, <1>2

(* What was sent is the beginning of the units, and all of them at the end. *)
LEMMA UnitsAreRight ==
  ASSUME UnitsInv
  PROVE  SendsTheUnits
<1> DEFINE U == A!Units(file)
           K == A!KeptCodes(file)
<1> SUFFICES ASSUME A!Starts(file)
             PROVE  IF done THEN sent = U ELSE A!IsPrefix(sent, U)
  BY DEF SendsTheUnits, A!SendsTheUnits
<1>1. /\ file \in Seq(FileBytes) /\ sent \in Seq(Seq(FileBytes)) /\ (done => eof)
      /\ Len(sent) = Cardinality(CodesDone)
      /\ \A i \in 1..Len(sent) : sent[i] = U[i]
  BY DEF UnitsInv, UnitsSent
<1>2. K \in SUBSET Nat /\ IsFiniteSet(K) /\ K \subseteq A!Codes(file)
  BY <1>1, KeptAreFinite
<1>3. Cardinality(K) \in Nat /\ Cardinality(CodesDone) <= Cardinality(K)
  <2>1. CodesDone \subseteq K
    BY DEF CodesDone
  <2> QED
    BY <1>2, <2>1, FS_CardinalityType, FS_Subset
<1>4. U \in Seq(Seq(FileBytes)) /\ Len(U) = Cardinality(K)
  BY <1>1, UnitsAreBytes
<1>5. CASE done
  <2>1. CodesDone = K
    BY <1>1, <1>5 DEF CodesDone
  <2> HIDE DEF U, K
  <2>2. Len(sent) = Len(U) /\ \A i \in 1..Len(sent) : sent[i] = U[i]
    BY <1>1, <1>4, <2>1
  <2>3. sent = U
    BY <1>1, <1>4, <2>2, SeqEqual
  <2> QED
    BY <1>5, <2>3
<1>6. CASE ~done
  <2> HIDE DEF U, K
  <2>1. Len(sent) \in Nat /\ Len(sent) <= Len(U)
    BY <1>1, <1>3, <1>4, LenProperties
  <2>2. \A i \in 1..Len(sent) : sent[i] \in Seq(FileBytes) /\ U[i] \in Seq(FileBytes)
    BY <1>1, <2>1, ElementOfSeq
  <2> DEFINE a == SubSeq(sent, 1, Len(sent))
             b == SubSeq(U, 1, Len(sent))
  <2>3. /\ a \in Seq(Seq(FileBytes)) /\ b \in Seq(Seq(FileBytes))
        /\ Len(a) = IF 1 <= Len(sent) THEN Len(sent) - 1 + 1 ELSE 0
        /\ Len(b) = IF 1 <= Len(sent) THEN Len(sent) - 1 + 1 ELSE 0
        /\ \A i \in 1..(Len(sent) - 1 + 1) : a[i] = sent[1 + i - 1] /\ b[i] = U[1 + i - 1]
    BY <2>1, <2>2, SubSeqProperties
  <2>4. Len(a) = Len(b) /\ Len(a) = Len(sent)
    <3> HIDE DEF a, b
    <3> QED
      BY <2>1, <2>3
  <2>5. ASSUME NEW i \in 1..Len(sent) PROVE a[i] = b[i]
    <3> HIDE DEF a, b
    <3>1. i \in 1..(Len(sent) - 1 + 1) /\ 1 + i - 1 = i
      BY <2>1
    <3> QED
      BY <1>1, <2>3, <3>1
  <2>6. a = b
    <3> HIDE DEF a, b
    <3> QED
      BY <2>3, <2>4, <2>5, SeqEqual
  <2>7. A!IsPrefix(sent, U)
    BY <2>1, <2>6 DEF A!IsPrefix
  <2> QED
    BY <1>6, <2>7
<1> QED
  BY <1>5, <1>6

(* For files of any length that begin with a start code, GetAnnexbNALU and  *)
(* the loop of TcpSender::Thread send the units in order, each once, whole  *)
(* and without its code, and none is missing at the end: moving back by the *)
(* length of the next code is right for both lengths, also where units are  *)
(* empty and codes follow each other.                                       *)
THEOREM UnitsAreSent == A!Spec => []SendsTheUnits
<1>1. A!Init => UnitsInv
  BY UnitsInit
<1>2. UnitsInv /\ [A!Next]_(A!vars) => UnitsInv'
  BY UnitsTurn, UnitsEnd DEF A!Next
<1>3. UnitsInv => SendsTheUnits
  BY UnitsAreRight
<1> QED
  BY <1>1, <1>2, <1>3, PTL DEF A!Spec

-----------------------------------------------------------------------------
(* The loop's progress, also in files that do not begin with a code.        *)

PosInv == file \in Seq(FileBytes) /\ pos \in 0..Len(file)

\* A turn comes nearer to the end of the file, or is the last one.
Advances == eof' \/ pos' \in (pos + 1)..Len(file)

(* Wherever GetAnnexbNALU is called, it goes on or is at the end: the four  *)
(* bytes it skips without a code are there, and a unit's end, to which it   *)
(* moves back, is behind the code it has read.                              *)
LEMMA TurnAdvances ==
  ASSUME NEW f \in Seq(FileBytes), NEW p \in 0..Len(f)
  PROVE  LET n == A!GetAnnexbNALU(f, p) IN
           IF n.eof THEN n.pos = Len(f) ELSE n.pos \in (p + 1)..Len(f)
<1> DEFINE c == A!CodeLength(f, p)
           s == p + c
           n == A!GetAnnexbNALU(f, p)
           short == Len(f) - p < 3 \/ (c # 3 /\ Len(f) - p < 4)
<1>1. Len(f) \in Nat /\ p \in Nat
  BY LenProperties
<1>2. c \in {0, 3, 4} /\ (c # 0 => Code(f, s))
  BY <1>1, IsCode2, IsCode3 DEF A!CodeLength
<1>3. CASE short
  <2>1. n = A!NALU(0, <<>>, Len(f), TRUE)
    BY <1>3 DEF A!GetAnnexbNALU
  <2> HIDE DEF n
  <2> QED
    BY <2>1 DEF A!NALU, n
<1>4. CASE ~short /\ c = 0
  <2>1. n = A!NALU(-1, <<>>, p + 4, FALSE)
    BY <1>4 DEF A!GetAnnexbNALU
  <2>2. p + 4 \in (p + 1)..Len(f)
    BY <1>1, <1>4
  <2> HIDE DEF n
  <2> QED
    BY <2>1, <2>2 DEF A!NALU, n
<1>5. CASE ~short /\ c # 0 /\ A!Ends(f, s) = {}
  <2>1. n = A!NALU(Len(f) - p, SubSeq(f, s + 1, Len(f)), Len(f), TRUE)
    BY <1>5 DEF A!GetAnnexbNALU
  <2> HIDE DEF n, s
  <2> QED
    BY <2>1 DEF A!NALU, n
<1>6. CASE ~short /\ c # 0 /\ A!Ends(f, s) # {}
  <2> DEFINE q == A!Min(A!Ends(f, s))
             e == q - (IF A!StartCode3(f, q) THEN 4 ELSE 3)
  <2>1. n = A!NALU(e - p, SubSeq(f, s + 1, e), e, FALSE)
    BY <1>6 DEF A!GetAnnexbNALU
  <2>2. s \in Nat /\ s > p /\ Code(f, s)
    BY <1>1, <1>2, <1>6
  <2>3. e \in Nat /\ s <= e /\ e <= Len(f)
    <3> HIDE DEF s
    <3> QED
      BY <1>6, <2>2, InnerUnit
  <2> HIDE DEF n, s, e
  <2>4. e \in (p + 1)..Len(f)
    BY <1>1, <2>2, <2>3
  <2> QED
    BY <2>1, <2>4 DEF A!NALU, n
<1> QED
  BY <1>3, <1>4, <1>5, <1>6

(* Every turn of the loop of TcpSender::Thread comes nearer to the end of   *)
(* the file, for files of any length and any bytes: a turn that sends       *)
(* nothing does not repeat itself, so the number of turns is bounded by the *)
(* number of bytes.                                                         *)
THEOREM LoopAdvances == A!Spec => [][Advances]_(A!vars)
<1>1. A!Init => PosInv
  <2> SUFFICES ASSUME A!Init PROVE PosInv
    OBVIOUS
  <2>1. file \in Seq(FileBytes)
    BY UnitsInit DEF UnitsInv
  <2> QED
    BY <2>1, LenProperties DEF A!Init, PosInv
<1>2. PosInv /\ [A!Next]_(A!vars) => PosInv' /\ [Advances]_(A!vars)
  <2> SUFFICES ASSUME PosInv, [A!Next]_(A!vars) PROVE PosInv' /\ [Advances]_(A!vars)
    OBVIOUS
  <2>1. Len(file) \in Nat
    BY LenProperties DEF PosInv
  <2>2. CASE A!SendNALU
    <3> DEFINE n == A!GetAnnexbNALU(file, pos)
    <3>1. pos' = n.pos /\ eof' = n.eof /\ file' = file
      BY <2>2 DEF A!SendNALU
    <3>2. IF n.eof THEN n.pos = Len(file) ELSE n.pos \in (pos + 1)..Len(file)
      BY TurnAdvances DEF PosInv
    <3> HIDE DEF n
    <3> QED
      BY <2>1, <3>1, <3>2 DEF PosInv, Advances
  <2>3. CASE A!EndOfFile
    BY <2>3 DEF A!EndOfFile, PosInv, Advances
  <2>4. CASE UNCHANGED A!vars
    BY <2>4 DEF A!vars, PosInv
  <2> QED
    BY <2>2, <2>3, <2>4 DEF A!Next
<1> QED
  BY <1>1, <1>2, PTL DEF A!Spec

-----------------------------------------------------------------------------
(* The instance that is model-checked runs both components: what holds of   *)
(* each of them holds of the two together, whichever of the files' and the  *)
(* buffers' calls are made first.                                           *)
THEOREM BothHold == MCSpec => []SendsTheUnits /\ []InsideBlock /\ IsQueue
<1>1. MCInit => UnitsInv /\ IInv /\ Queue!Init
  BY UnitsInit, InitIs DEF MCInit
<1>2. [MCNext]_<<fileVars, vars>> => [A!Next]_(A!vars) /\ [Next]_vars
  BY DEF MCNext, fileVars, vars, A!vars
<1>3. /\ UnitsInv /\ [A!Next]_(A!vars) => UnitsInv'
      /\ IInv /\ [Next]_vars => IInv' /\ [Queue!Next]_(Queue!queueVars)
  BY UnitsTurn, UnitsEnd, StepIs DEF A!Next
<1>4. UnitsInv /\ IInv => SendsTheUnits /\ InsideBlock
  BY UnitsAreRight DEF IInv
<1> QED
  BY <1>1, <1>2, <1>3, <1>4, PTL DEF MCSpec, IsQueue, Queue!Spec

=============================================================================
