--------------------------- MODULE FileTransferProofs ---------------------------
(***************************************************************************)
(* What holds of a file transfer for every file, packet and socket: no      *)
(* piece is lost, doubled or reordered between the disk and the client, and *)
(* the transfer implements FileCopy.                                        *)
(***************************************************************************)
EXTENDS FileTransfer, SequenceTheorems, TLAPS

Cell == [ kind : {"NET_CMD", "LOGIN_RET", "FILE_GET", "piece"},
          cmd  : {"LOGINRET", "VIDEO", "DATAEND", "none"},
          n    : Nat ]

-----------------------------------------------------------------------------
(* Numbers and sequences of cells. *)

(* A length cut to its width is at most the length.                          *)
LEMMA ModFits ==
  ASSUME NEW d \in Nat, NEW m \in Nat \ {0}
  PROVE  d % m \in 0..d /\ d % m \in 0..(m - 1)
BY SMTT(20)

(* A cell of a sequence of cells.                                            *)
LEMMA Elem ==
  ASSUME NEW s \in Seq(Cell), NEW i \in 1..Len(s)
  PROVE  s[i].n \in Nat /\ s[i] \in Cell
<1>1. s[i] \in Cell
  BY ElementOfSeq
<1> QED
  BY <1>1 DEF Cell

(* The cells of a concatenation.                                             *)
LEMMA Joined ==
  ASSUME NEW s \in Seq(Cell), NEW p \in Seq(Cell), NEW t, t = s \o p
  PROVE  /\ t \in Seq(Cell) /\ Len(t) = Len(s) + Len(p)
         /\ Len(s) \in Nat /\ Len(p) \in Nat
         /\ \A i \in 1..Len(s) : t[i] = s[i]
         /\ \A i \in (Len(s) + 1)..Len(t) : t[i] = p[i - Len(s)]
<1>1. /\ t \in Seq(Cell) /\ Len(t) = Len(s) + Len(p)
      /\ \A i \in 1..(Len(s) + Len(p)) :
           t[i] = IF i <= Len(s) THEN s[i] ELSE p[i - Len(s)]
  BY ConcatProperties
<1>2. Len(s) \in Nat /\ Len(p) \in Nat
  BY LenProperties
<1> QED
  BY <1>1, <1>2

(* A sequence cut in two is what it was.                                     *)
LEMMA Cut ==
  ASSUME NEW S, NEW s \in Seq(S), NEW n \in 0..Len(s)
  PROVE  /\ SubSeq(s, 1, n) \in Seq(S) /\ Len(SubSeq(s, 1, n)) = n
         /\ SubSeq(s, n + 1, Len(s)) \in Seq(S)
         /\ Len(SubSeq(s, n + 1, Len(s))) = Len(s) - n
         /\ SubSeq(s, 1, n) \o SubSeq(s, n + 1, Len(s)) = s
<1> DEFINE a == SubSeq(s, 1, n)
           b == SubSeq(s, n + 1, Len(s))
<1>1. a \in Seq(S) /\ Len(a) = n
  OBVIOUS
<1>2. b \in Seq(S) /\ Len(b) = Len(s) - n
  OBVIOUS
<1>3. Len(s) \in Nat /\ n \in (1 - 1)..Len(s) /\ 1 \in 1..(Len(s) + 1) /\ Len(s) \in n..Len(s)
  BY LenProperties
<1>4. a \o b = SubSeq(s, 1, Len(s))
  BY <1>3, ConcatAdjacentSubSeq
<1>5. SubSeq(s, 1, Len(s)) = s
  BY SubSeqFull
<1> QED
  BY <1>1, <1>2, <1>4, <1>5

-----------------------------------------------------------------------------
(* Packets. *)

\* A whole packet starts at the i-th cell: a command with what it announces.
Packet(s, i) ==
  /\ i + s[i].n <= Len(s)
  /\ i + s[i].n < Len(s) => s[i + s[i].n + 1].kind = "NET_CMD"
  /\ s[i].cmd \in {"LOGINRET", "VIDEO", "DATAEND"}
  /\ s[i].cmd = "LOGINRET" => s[i].n = 1 /\ s[i + 1].kind = "LOGIN_RET"
  /\ s[i].cmd = "VIDEO" => /\ s[i].n >= 1 /\ s[i + 1].kind = "FILE_GET"
                           /\ \A k \in 2..s[i].n : s[i + k] = Piece(s[i + 2].n + k - 2)
  /\ s[i].cmd = "DATAEND" => s[i].n = 0 /\ i = Len(s)

\* A sequence of packets, the end at the end.
Framed(s) ==
  /\ Len(s) > 0 => s[1].kind = "NET_CMD"
  /\ \A i \in 1..Len(s) : s[i].kind = "NET_CMD" => Packet(s, i)

Endless(s) == \A i \in 1..Len(s) : s[i].cmd # "DATAEND"

(* A packet is one wherever it is.                                           *)
LEMMA PacketMoves ==
  ASSUME NEW s \in Seq(Cell), NEW t \in Seq(Cell),
         NEW i \in 1..Len(s), NEW j \in 1..Len(t), Packet(s, i),
         \A k \in 0..s[i].n : t[j + k] = s[i + k],
         j + s[i].n <= Len(t),
         j + s[i].n < Len(t) => t[j + s[i].n + 1].kind = "NET_CMD",
         s[i].cmd = "DATAEND" => j = Len(t)
  PROVE  Packet(t, j)
<1> DEFINE n == s[i].n
<1>1. n \in Nat /\ i \in Nat /\ j \in Nat /\ \A k \in 0..n : t[j + k] = s[i + k]
  BY Elem, LenProperties
<1>2. /\ s[i].cmd \in {"LOGINRET", "VIDEO", "DATAEND"}
      /\ s[i].cmd = "LOGINRET" => n = 1 /\ s[i + 1].kind = "LOGIN_RET"
      /\ s[i].cmd = "VIDEO" => /\ n >= 1 /\ s[i + 1].kind = "FILE_GET"
                               /\ \A k \in 2..n : s[i + k] = Piece(s[i + 2].n + k - 2)
      /\ s[i].cmd = "DATAEND" => n = 0
  BY DEF Packet
<1>3. /\ j + n <= Len(t)
      /\ j + n < Len(t) => t[j + n + 1].kind = "NET_CMD"
      /\ s[i].cmd = "DATAEND" => j = Len(t)
  OBVIOUS
<1>4. s[i].n = n
  OBVIOUS
<1> HIDE DEF n
<1>5. t[j] = s[i]
  <2>1. 0 \in 0..n
    BY <1>1
  <2>2. t[j + 0] = s[i + 0]
    BY <1>1, <2>1
  <2> QED
    BY <2>2, <1>1
<1>6. t[j].n = n /\ t[j].cmd = s[i].cmd
  BY <1>4, <1>5
<1>7. n >= 1 => t[j + 1] = s[i + 1]
  BY <1>1
<1>8. ASSUME s[i].cmd = "VIDEO", NEW k \in 2..n
      PROVE  t[j + k] = Piece(t[j + 2].n + k - 2)
  <2>1. k \in 0..n /\ 2 \in 0..n
    BY <1>1
  <2>2. t[j + k] = s[i + k] /\ t[j + 2] = s[i + 2]
    BY <1>1, <2>1
  <2>3. s[i + k] = Piece(s[i + 2].n + k - 2)
    BY <1>2, <1>8
  <2> QED
    BY <2>2, <2>3
<1>9. t[j].cmd = "VIDEO" => /\ n >= 1 /\ t[j + 1].kind = "FILE_GET"
                            /\ \A k \in 2..t[j].n : t[j + k] = Piece(t[j + 2].n + k - 2)
  BY <1>2, <1>6, <1>7, <1>8
<1>10. t[j].cmd = "LOGINRET" => n = 1 /\ t[j + 1].kind = "LOGIN_RET"
  BY <1>2, <1>6, <1>7
<1> QED
  BY <1>2, <1>3, <1>6, <1>9, <1>10 DEF Packet

(* Packets may follow packets.                                               *)
LEMMA FramedConcat ==
  ASSUME NEW s \in Seq(Cell), NEW p \in Seq(Cell), Framed(s), Framed(p), Endless(s)
  PROVE  Framed(s \o p)
<1> DEFINE t == s \o p
<1>1. /\ t \in Seq(Cell) /\ Len(t) = Len(s) + Len(p) /\ Len(s) \in Nat /\ Len(p) \in Nat
      /\ \A i \in 1..Len(s) : t[i] = s[i]
      /\ \A i \in (Len(s) + 1)..Len(t) : t[i] = p[i - Len(s)]
  BY Joined
<1>a. Len(s) \in Nat /\ Len(p) \in Nat /\ Len(t) = Len(s) + Len(p)
  BY <1>1
<1> HIDE DEF t
<1>2. Len(p) > 0 => t[Len(s) + 1].kind = "NET_CMD"
  <2> SUFFICES ASSUME Len(p) > 0 PROVE t[Len(s) + 1] = p[1]
    BY DEF Framed
  <2>1. Len(s) + 1 \in (Len(s) + 1)..Len(t) /\ (Len(s) + 1) - Len(s) = 1
    BY <1>1
  <2> QED
    BY <1>1, <2>1
<1>3. Len(t) > 0 => t[1].kind = "NET_CMD"
  <2>1. CASE Len(s) > 0
    <3>1. t[1] = s[1]
      BY <1>1, <2>1
    <3> QED
      BY <2>1, <3>1 DEF Framed
  <2>2. CASE Len(s) = 0
    BY <1>1, <1>2, <2>2
  <2> QED
    BY <1>1, <2>1, <2>2
<1>4. ASSUME NEW i \in 1..Len(s), t[i].kind = "NET_CMD" PROVE Packet(t, i)
  <2> DEFINE n == s[i].n
  <2>1. t[i] = s[i] /\ n \in Nat /\ s[i].cmd # "DATAEND" /\ i \in 1..Len(t) /\ i \in Nat
    BY <1>1, Elem DEF Endless
  <2>2. Packet(s, i)
    BY <1>4, <2>1 DEF Framed
  <2>3. i + n <= Len(s) /\ (i + n < Len(s) => s[i + n + 1].kind = "NET_CMD") /\ s[i].n = n
    BY <2>2 DEF Packet
  <2> HIDE DEF n
  <2>4. ASSUME NEW k \in 0..n PROVE t[i + k] = s[i + k]
    <3>1. i \in Nat /\ n \in Nat /\ i + n <= Len(s) /\ i >= 1
      BY <2>1, <2>3
    <3>2. i + k \in 1..Len(s)
      BY <1>a, <3>1
    <3> QED
      BY <1>1, <3>2
  <2>5. i + n < Len(t) => t[i + n + 1].kind = "NET_CMD"
    <3>1. CASE i + n < Len(s)
      <4>1. i + n + 1 \in 1..Len(s)
        BY <1>1, <2>1, <3>1
      <4> QED
        BY <1>1, <2>3, <3>1, <4>1
    <3>2. CASE i + n = Len(s)
      BY <1>1, <1>2, <3>2
    <3> QED
      BY <1>1, <2>1, <2>3, <3>1, <3>2
  <2>6. i + n <= Len(t)
    BY <1>1, <2>1, <2>3
  <2> QED
    BY <1>1, <2>1, <2>2, <2>3, <2>4, <2>5, <2>6, PacketMoves
<1>5. ASSUME NEW i \in (Len(s) + 1)..Len(t), t[i].kind = "NET_CMD" PROVE Packet(t, i)
  <2> DEFINE j == i - Len(s)
             n == p[j].n
  <2>1. j \in 1..Len(p) /\ t[i] = p[j] /\ i = Len(s) + j /\ i \in 1..Len(t)
    BY <1>1
  <2>2. n \in Nat
    BY <2>1, Elem
  <2>3. Packet(p, j)
    BY <1>5, <2>1 DEF Framed
  <2>4. /\ j + n <= Len(p) /\ (j + n < Len(p) => p[j + n + 1].kind = "NET_CMD")
        /\ p[j].cmd = "DATAEND" => j = Len(p)
    BY <2>3 DEF Packet
  <2>5. p[j].n = n
    OBVIOUS
  <2> HIDE DEF j, n
  <2>6. ASSUME NEW k \in Nat, j + k <= Len(p) PROVE t[i + k] = p[j + k]
    <3>1. i + k \in (Len(s) + 1)..Len(t) /\ (i + k) - Len(s) = j + k
      BY <1>1, <2>1, <2>6
    <3> QED
      BY <1>1, <3>1
  <2>7. ASSUME NEW k \in 0..n PROVE t[i + k] = p[j + k]
    <3>1. k \in Nat /\ j + k <= Len(p)
      BY <1>1, <2>1, <2>2, <2>4
    <3> QED
      BY <2>6, <3>1
  <2>8. i + n < Len(t) => t[i + n + 1].kind = "NET_CMD"
    <3> SUFFICES ASSUME i + n < Len(t) PROVE t[i + n + 1].kind = "NET_CMD"
      OBVIOUS
    <3>1. n + 1 \in Nat /\ j + (n + 1) <= Len(p) /\ j + n < Len(p)
      BY <1>1, <2>1, <2>2
    <3>2. t[i + (n + 1)] = p[j + (n + 1)]
      BY <2>6, <3>1
    <3>3. i + (n + 1) = i + n + 1 /\ j + (n + 1) = j + n + 1
      BY <1>1, <2>1, <2>2
    <3> QED
      BY <2>4, <3>1, <3>2, <3>3
  <2>9. i + n <= Len(t) /\ (p[j].cmd = "DATAEND" => i = Len(t))
    <3>1. j \in Int /\ i = Len(s) + j /\ j + n <= Len(p)
      BY <2>1, <2>4, <1>a
    <3>2. p[j].cmd = "DATAEND" => j = Len(p)
      BY <2>4
    <3> QED
      BY <1>a, <2>2, <3>1, <3>2
  <2> QED
    BY <1>1, <2>1, <2>3, <2>5, <2>7, <2>8, <2>9, PacketMoves
<1>6. Framed(t)
  <2>1. \A i \in 1..Len(t) : i \in 1..Len(s) \/ i \in (Len(s) + 1)..Len(t)
    BY <1>1
  <2> QED
    BY <1>3, <1>4, <1>5, <2>1 DEF Framed
<1> QED
  BY <1>6 DEF t

(* What is left when a packet is taken off the front are packets.            *)
LEMMA FramedRest ==
  ASSUME NEW s \in Seq(Cell), NEW r \in Seq(Cell), Framed(s), Len(s) > 0,
         NEW w \in Nat, s[1].n = w, NEW d \in Nat, d = w + 1, Len(r) = Len(s) - d,
         \A i \in 1..Len(r) : r[i] = s[i + d]
  PROVE  Framed(r)
<1>a. Len(s) \in Nat /\ Len(r) \in Nat /\ Len(s) = Len(r) + d
  BY LenProperties
<1>1. 1 \in 1..Len(s)
  BY <1>a
<1>2. Packet(s, 1)
  BY <1>1 DEF Framed
<1>3. 1 + w < Len(s) => s[1 + w + 1].kind = "NET_CMD"
  BY <1>2 DEF Packet
<1>4. Len(r) > 0 => r[1].kind = "NET_CMD"
  <2> SUFFICES ASSUME Len(r) > 0 PROVE r[1].kind = "NET_CMD"
    OBVIOUS
  <2>1. r[1] = s[1 + d]
    BY <1>a
  <2>2. 1 + d = 1 + w + 1 /\ 1 + w < Len(s)
    BY <1>a
  <2> QED
    BY <1>3, <2>1, <2>2
<1>5. ASSUME NEW j \in 1..Len(r), r[j].kind = "NET_CMD" PROVE Packet(r, j)
  <2> DEFINE i == j + d
             n == s[i].n
  <2>1. i \in 1..Len(s) /\ s[i] = r[j] /\ i = j + d /\ j \in Nat
    <3>1. j \in Nat /\ j + d \in 1..Len(s)
      BY <1>a
    <3> QED
      BY <3>1
  <2>2. n \in Nat /\ s[i].n = n
    BY <2>1, Elem
  <2>3. Packet(s, i)
    BY <1>5, <2>1 DEF Framed
  <2> HIDE DEF i
  <2>4. /\ i + n <= Len(s) /\ (i + n < Len(s) => s[i + n + 1].kind = "NET_CMD")
        /\ s[i].cmd = "DATAEND" => i = Len(s)
    BY <2>3 DEF Packet
  <2> HIDE DEF n
  <2>a. i + n <= Len(s)
    BY <2>4
  <2>5. ASSUME NEW k \in Nat, j + k <= Len(r) PROVE r[j + k] = s[i + k]
    <3>1. j + k \in 1..Len(r) /\ (j + k) + d = i + k
      BY <1>a, <2>1, <2>5
    <3>2. r[j + k] = s[(j + k) + d]
      BY <3>1
    <3> QED
      BY <3>1, <3>2
  <2>6. ASSUME NEW k \in 0..n PROVE r[j + k] = s[i + k]
    <3>1. k \in Nat /\ j + k <= Len(r)
      BY <1>a, <2>a, <2>1, <2>2
    <3> QED
      BY <2>5, <3>1
  <2>7. j + n < Len(r) => r[j + n + 1].kind = "NET_CMD"
    <3> SUFFICES ASSUME j + n < Len(r) PROVE r[j + n + 1].kind = "NET_CMD"
      OBVIOUS
    <3>1. n + 1 \in Nat /\ j + (n + 1) <= Len(r) /\ i + n < Len(s)
      BY <1>a, <2>1, <2>2
    <3>2. r[j + (n + 1)] = s[i + (n + 1)]
      BY <2>5, <3>1
    <3>3. i + (n + 1) = i + n + 1 /\ j + (n + 1) = j + n + 1
      BY <1>a, <2>1, <2>2
    <3> QED
      BY <2>4, <3>1, <3>2, <3>3
  <2>8. j + n <= Len(r)
    BY <1>a, <2>a, <2>1, <2>2
  <2>9. s[i].cmd = "DATAEND" => j = Len(r)
    BY <1>a, <2>1, <2>4
  <2> QED
    BY <1>a, <2>1, <2>2, <2>3, <2>6, <2>7, <2>8, <2>9, PacketMoves
<1> QED
  BY <1>4, <1>5 DEF Framed

(* A piece.                                                                  *)
LEMMA PieceIs ==
  ASSUME NEW x, NEW k, x = Piece(k)
  PROVE  x.kind = "piece" /\ x.cmd = "none" /\ x.n = k
BY DEF Piece

(* Pieces may follow pieces.                                                 *)
LEMMA CarriesConcat ==
  ASSUME NEW s \in Seq(Cell), NEW p \in Seq(Cell), NEW f \in Nat, NEW m \in Nat, NEW l \in Nat,
         f <= m + 1, m <= l, Carries(s, f, m), Carries(p, m + 1, l)
  PROVE  Carries(s \o p, f, l)
<1> DEFINE t == s \o p
<1>1. /\ t \in Seq(Cell) /\ Len(t) = Len(s) + Len(p) /\ Len(s) \in Nat /\ Len(p) \in Nat
      /\ \A i \in 1..Len(s) : t[i] = s[i]
      /\ \A i \in (Len(s) + 1)..Len(t) : t[i] = p[i - Len(s)]
  BY Joined
<1>2. Len(s) \in Nat /\ Len(p) \in Nat /\ Len(t) = Len(s) + Len(p)
  BY <1>1
<1> HIDE DEF t
<1>3. \A i \in 1..Len(s) : t[i].kind = "piece" => t[i].n \in f..m
  BY <1>1 DEF Carries
<1>4. \A i \in (Len(s) + 1)..Len(t) : i - Len(s) \in 1..Len(p)
  BY <1>2
<1>5. \A i \in (Len(s) + 1)..Len(t) : t[i].kind = "piece" => t[i].n \in (m + 1)..l
  BY <1>1, <1>4 DEF Carries
<1>6. \A i \in 1..Len(t) : i \in 1..Len(s) \/ i \in (Len(s) + 1)..Len(t)
  BY <1>2
<1>7. ASSUME NEW i \in 1..Len(t), t[i].kind = "piece" PROVE t[i].n \in f..l
  <2>1. t[i].n \in f..m \/ t[i].n \in (m + 1)..l
    BY <1>3, <1>5, <1>6, <1>7
  <2> QED
    BY <2>1
<1>8. ASSUME NEW i \in 1..Len(t), NEW j \in 1..Len(t), i < j,
             t[i].kind = "piece", t[j].kind = "piece"
      PROVE  t[i].n < t[j].n
  <2>1. CASE j \in 1..Len(s)
    <3>1. i \in 1..Len(s)
      BY <1>2, <1>8, <2>1
    <3>2. t[i] = s[i] /\ t[j] = s[j]
      BY <1>1, <2>1, <3>1
    <3> QED
      BY <1>8, <2>1, <3>1, <3>2 DEF Carries
  <2>2. CASE i \in 1..Len(s) /\ j \in (Len(s) + 1)..Len(t)
    <3>1. t[i].n \in f..m /\ t[j].n \in (m + 1)..l
      BY <1>3, <1>5, <1>8, <2>2
    <3> QED
      BY <3>1
  <2>3. CASE i \in (Len(s) + 1)..Len(t) /\ j \in (Len(s) + 1)..Len(t)
    <3>1. i - Len(s) < j - Len(s) /\ i - Len(s) \in 1..Len(p) /\ j - Len(s) \in 1..Len(p)
      BY <1>2, <1>8, <2>3
    <3>2. t[i] = p[i - Len(s)] /\ t[j] = p[j - Len(s)]
      BY <1>1, <2>3
    <3> QED
      BY <1>8, <3>1, <3>2 DEF Carries
  <2>4. i \in (Len(s) + 1)..Len(t) => j \in (Len(s) + 1)..Len(t)
    BY <1>2, <1>8
  <2> QED
    BY <1>6, <2>1, <2>2, <2>3, <2>4
<1>9. ASSUME NEW k \in f..l PROVE \E i \in 1..Len(t) : t[i] = Piece(k)
  <2>1. CASE k \in f..m
    <3>1. PICK i \in 1..Len(s) : s[i] = Piece(k)
      BY <2>1 DEF Carries
    <3>2. i \in 1..Len(t) /\ t[i] = s[i]
      BY <1>1, <1>2
    <3> QED
      BY <3>1, <3>2
  <2>2. CASE k \in (m + 1)..l
    <3>1. PICK i \in 1..Len(p) : p[i] = Piece(k)
      BY <2>2 DEF Carries
    <3> DEFINE x == Len(s) + i
    <3>2. x \in (Len(s) + 1)..Len(t) /\ x - Len(s) = i /\ x \in 1..Len(t)
      BY <1>2
    <3> HIDE DEF x
    <3>3. x \in 1..Len(t) /\ t[x] = p[i]
      BY <1>1, <3>2
    <3> QED
      BY <3>1, <3>3
  <2> QED
    BY <2>1, <2>2
<1>10. Carries(t, f, l)
  BY <1>7, <1>8, <1>9 DEF Carries
<1> QED
  BY <1>10 DEF t

(* The pieces that are left when the first ones are taken off the front.     *)
LEMMA CarriesRest ==
  ASSUME NEW s \in Seq(Cell), NEW r \in Seq(Cell), NEW d \in Nat, Len(r) = Len(s) - d,
         \A i \in 1..Len(r) : r[i] = s[i + d],
         NEW f \in Nat, NEW g \in Nat, NEW l \in Nat, f <= g, Carries(s, f, l),
         \A i \in 1..Len(s) : i <= d /\ s[i].kind = "piece" => s[i].n < g,
         \A i \in 1..Len(s) : i > d /\ s[i].kind = "piece" => s[i].n >= g
  PROVE  Carries(r, g, l)
<1>1. Len(s) \in Nat /\ Len(r) \in Nat
  BY LenProperties
<1>2. \A i \in 1..Len(r) : i + d \in 1..Len(s) /\ i + d > d
  BY <1>1
<1>3. ASSUME NEW i \in 1..Len(r), r[i].kind = "piece" PROVE r[i].n \in g..l
  <2>1. s[i + d].n \in f..l /\ r[i] = s[i + d] /\ s[i + d].n >= g
    BY <1>2, <1>3 DEF Carries
  <2> QED
    BY <2>1
<1>4. ASSUME NEW i \in 1..Len(r), NEW j \in 1..Len(r), i < j,
             r[i].kind = "piece", r[j].kind = "piece"
      PROVE  r[i].n < r[j].n
  <2>1. i + d \in 1..Len(s) /\ j + d \in 1..Len(s) /\ i + d < j + d
    BY <1>2, <1>4
  <2>2. r[i] = s[i + d] /\ r[j] = s[j + d]
    OBVIOUS
  <2> QED
    BY <1>4, <2>1, <2>2 DEF Carries
<1>5. ASSUME NEW k \in g..l PROVE \E i \in 1..Len(r) : r[i] = Piece(k)
  <2>0. k \in f..l
    OBVIOUS
  <2>1. PICK i \in 1..Len(s) : s[i] = Piece(k)
    BY <2>0 DEF Carries
  <2>2. s[i].kind = "piece" /\ s[i].n = k
    BY <2>1, PieceIs
  <2>3. i > d
    BY <1>1, <2>2
  <2>4. i - d \in 1..Len(r) /\ (i - d) + d = i
    BY <1>1, <2>3
  <2>5. r[i - d] = s[(i - d) + d]
    BY <2>4
  <2> QED
    BY <2>1, <2>4, <2>5
<1> QED
  BY <1>3, <1>4, <1>5 DEF Carries

(* A number of a piece after the last of a packet.                           *)
LEMMA NextPiece ==
  ASSUME NEW f \in Nat, NEW w \in Nat, NEW y \in Nat, f + (w + 1) - 3 < y
  PROVE  y >= f + w - 1
OBVIOUS

(* The pieces of the first packet are the next ones.                         *)
LEMMA FirstPieces ==
  ASSUME NEW s \in Seq(Cell), Framed(s), Len(s) > 0, s[1].cmd = "VIDEO",
         NEW f \in Nat, NEW l \in Nat, Carries(s, f, l),
         NEW w \in Nat, w = s[1].n
  PROVE  /\ w >= 1 /\ w + 1 <= Len(s) /\ s[1].kind = "NET_CMD" /\ s[2].kind = "FILE_GET"
         /\ \A i \in 3..(w + 1) : s[i] = Piece(f + i - 3)
         /\ w >= 2 => f + w - 2 <= l
         /\ \A i \in 1..Len(s) : i <= w + 1 /\ s[i].kind = "piece" => s[i].n < f + w - 1
         /\ \A i \in 1..Len(s) : i > w + 1 /\ s[i].kind = "piece" => s[i].n >= f + w - 1
<1>1. Len(s) \in Nat /\ 1 \in 1..Len(s)
  BY LenProperties
<1>2. Packet(s, 1) /\ s[1].kind = "NET_CMD"
  BY <1>1 DEF Framed
<1>3. /\ w >= 1 /\ 1 + w <= Len(s) /\ s[1 + 1].kind = "FILE_GET"
      /\ \A k \in 2..w : s[1 + k] = Piece(s[1 + 2].n + k - 2)
  BY <1>2 DEF Packet
<1>4. w >= 1 /\ w + 1 <= Len(s) /\ s[2].kind = "FILE_GET" /\ 2 \in 1..Len(s)
  BY <1>1, <1>3
<1> DEFINE a == s[3].n
<1>5. ASSUME NEW i \in 3..(w + 1) PROVE s[i] = Piece(a + i - 3) /\ i \in 1..Len(s)
  <2>1. i - 1 \in 2..w /\ 1 + (i - 1) = i /\ i \in 1..Len(s) /\ 1 + 2 = 3
    BY <1>1, <1>4
  <2>2. s[1 + (i - 1)] = Piece(s[1 + 2].n + (i - 1) - 2)
    BY <1>3, <2>1
  <2>3. w >= 2
    BY <1>4
  <2>4. 3 \in 1..Len(s)
    BY <1>1, <1>4, <2>3
  <2>5. s[3].n \in Nat
    BY <2>4, Elem
  <2>6. s[3].n + (i - 1) - 2 = s[3].n + i - 3
    BY <2>1, <2>5
  <2> QED
    BY <2>1, <2>2, <2>6
<1>6. ASSUME w >= 2 PROVE a = f /\ 3 \in 1..Len(s) /\ f + w - 2 <= l
  <2>1. 3 \in 3..(w + 1) /\ w + 1 \in 3..(w + 1) /\ 3 \in 1..Len(s) /\ w + 1 \in 1..Len(s)
    BY <1>1, <1>4, <1>6
  <2>2. a \in Nat
    BY <2>1, Elem
  <2>a. s[3] = Piece(a + 3 - 3) /\ a + 3 - 3 = a
    BY <1>5, <2>1, <2>2
  <2>3. s[3].kind = "piece" /\ s[3].n = a
    BY <2>a, PieceIs
  <2>4. a \in f..l
    BY <2>1, <2>3 DEF Carries
  <2>5. f \in f..l
    BY <2>4
  <2>6. PICK i \in 1..Len(s) : s[i] = Piece(f)
    BY <2>5 DEF Carries
  <2>7. s[i].kind = "piece" /\ s[i].n = f
    BY <2>6, PieceIs
  <2>8. i # 1 /\ i # 2
    BY <1>2, <1>4, <2>7
  <2>9. i > 3 => s[3].n < s[i].n
    BY <2>1, <2>3, <2>7 DEF Carries
  <2>10. a = f
    <3>1. i = 3 \/ i > 3
      BY <1>1, <2>8
    <3> QED
      BY <2>3, <2>4, <2>7, <2>9, <3>1
  <2>11. s[w + 1] = Piece(a + (w + 1) - 3)
    BY <1>5, <2>1
  <2>12. s[w + 1].kind = "piece" /\ s[w + 1].n = a + (w + 1) - 3
    BY <2>11, PieceIs
  <2>13. s[w + 1].n \in f..l
    BY <2>1, <2>12 DEF Carries
  <2> QED
    BY <2>1, <2>10, <2>12, <2>13
<1> HIDE DEF a
<1>7. ASSUME NEW i \in 3..(w + 1) PROVE s[i] = Piece(f + i - 3)
  <2>1. w >= 2
    BY <1>4
  <2> QED
    BY <1>5, <1>6, <2>1
<1>8. ASSUME NEW i \in 1..Len(s), i <= w + 1, s[i].kind = "piece" PROVE s[i].n < f + w - 1
  <2>1. i # 1 /\ i # 2
    BY <1>2, <1>4, <1>8
  <2>2. i \in 3..(w + 1)
    BY <1>1, <1>8, <2>1
  <2>3. s[i].n = f + i - 3
    BY <1>7, <2>2, PieceIs
  <2> QED
    BY <2>2, <2>3
<1>9. ASSUME NEW i \in 1..Len(s), i > w + 1, s[i].kind = "piece" PROVE s[i].n >= f + w - 1
  <2>1. s[i].n \in f..l
    BY <1>9 DEF Carries
  <2>2. CASE w = 1
    BY <2>1, <2>2
  <2>3. CASE w >= 2
    <3>1. w + 1 \in 3..(w + 1) /\ w + 1 \in 1..Len(s)
      BY <1>1, <1>4, <2>3
    <3>2. s[w + 1] = Piece(f + (w + 1) - 3)
      BY <1>7, <3>1
    <3>3. s[w + 1].kind = "piece" /\ s[w + 1].n = f + (w + 1) - 3
      BY <3>2, PieceIs
    <3>4. s[w + 1].n < s[i].n
      BY <1>9, <3>1, <3>3 DEF Carries
    <3> DEFINE y == s[i].n
    <3>5. y \in Nat /\ f + (w + 1) - 3 < y
      BY <2>1, <3>3, <3>4
    <3> HIDE DEF y
    <3>6. y >= f + w - 1
      BY <3>5, NextPiece
    <3> QED
      BY <3>6 DEF y
  <2> QED
    BY <1>4, <2>2, <2>3
<1> QED
  BY <1>2, <1>4, <1>6, <1>7, <1>8, <1>9

(* Without an end, and without an end again.                                 *)
LEMMA EndlessConcat ==
  ASSUME NEW s \in Seq(Cell), NEW p \in Seq(Cell), Endless(s), Endless(p)
  PROVE  Endless(s \o p)
<1> DEFINE t == s \o p
<1>1. /\ Len(t) = Len(s) + Len(p) /\ Len(s) \in Nat /\ Len(p) \in Nat
      /\ \A i \in 1..Len(s) : t[i] = s[i]
      /\ \A i \in (Len(s) + 1)..Len(t) : t[i] = p[i - Len(s)]
  BY Joined
<1> HIDE DEF t
<1>2. \A i \in (Len(s) + 1)..Len(t) : i - Len(s) \in 1..Len(p)
  BY <1>1
<1>3. \A i \in 1..Len(t) : i \in 1..Len(s) \/ i \in (Len(s) + 1)..Len(t)
  BY <1>1
<1>4. Endless(t)
  BY <1>1, <1>2, <1>3 DEF Endless
<1> QED
  BY <1>4 DEF t

(* Brackets may be moved, for any three                                     *)
LEMMA Reassociate == \A k, x, v \in Seq(Cell) : (k \o x) \o v = k \o (x \o v)
BY ConcatAssociative

(* Brackets may be moved, around four.                                       *)
LEMMA RegroupFour ==
  ASSUME NEW a \in Seq(Cell), NEW b \in Seq(Cell), NEW c \in Seq(Cell), NEW d \in Seq(Cell)
  PROVE  (a \o b) \o (c \o d) = a \o ((b \o c) \o d)
<1>1. a \o b \in Seq(Cell) /\ c \o d \in Seq(Cell) /\ b \o c \in Seq(Cell)
  BY ConcatProperties
<1> DEFINE v == c \o d
<1> HIDE DEF v
<1>2. (a \o b) \o v = a \o (b \o v)
  <2>1. v \in Seq(Cell)
    BY <1>1 DEF v
  <2> QED
    BY <2>1, Reassociate
<1>3. (b \o c) \o d = b \o (c \o d)
  BY Reassociate, Zenon
<1> QED
  BY <1>2, <1>3 DEF v

(* Brackets may be moved, and nothing may be dropped.                        *)
LEMMA Regroup ==
  ASSUME NEW a \in Seq(Cell), NEW b \in Seq(Cell), NEW c \in Seq(Cell)
  PROVE  /\ (a \o (b \o <<>>)) \o c = a \o (b \o c)
         /\ a \o b \in Seq(Cell)
         /\ <<>> \o a = a /\ a \o <<>> = a /\ <<>> \in Seq(Cell)
<1>1. a \o b \in Seq(Cell) /\ <<>> \in Seq(Cell)
  BY ConcatProperties, EmptySeq
<1>2. b \o <<>> = b /\ <<>> \o a = a /\ a \o <<>> = a
  BY ConcatEmptySeq
<1>3. (a \o b) \o c = a \o (b \o c)
  BY ConcatAssociative
<1> QED
  BY <1>1, <1>2, <1>3

(* The packet of the pieces after the h-th.                                  *)
LEMMA VideoPacket ==
  ASSUME NEW h \in Nat, NEW g \in Nat
  PROVE  LET p == <<Head_("VIDEO", g + 1), FileGet(g)>> \o Pieces(h, h + g) IN
           /\ p \in Seq(Cell) /\ Framed(p) /\ Endless(p) /\ Carries(p, h + 1, h + g)
<1> DEFINE a == <<Head_("VIDEO", g + 1), FileGet(g)>>
           b == Pieces(h, h + g)
           p == a \o b
<1>1. /\ a \in Seq(Cell) /\ Len(a) = 2
      /\ a[1].kind = "NET_CMD" /\ a[1].cmd = "VIDEO" /\ a[1].n = g + 1
      /\ a[2].kind = "FILE_GET" /\ a[2].cmd = "none"
  BY DEF Cell, Head_, FileGet
<1>2. (h + g) - h = g
  OBVIOUS
<1>3. b = [i \in 1..g |-> Piece(h + i)]
  BY <1>2 DEF Pieces
<1>4. \A i \in 1..g : Piece(h + i) \in Cell
  BY DEF Piece, Cell
<1>5. b \in Seq(Cell) /\ Len(b) = g /\ \A i \in 1..g : b[i] = Piece(h + i)
  BY <1>3, <1>4, SMTT(30)
<1>a. a \in Seq(Cell) /\ b \in Seq(Cell)
  BY <1>1, <1>5
<1> HIDE DEF a, b
<1>6. /\ p \in Seq(Cell) /\ Len(p) = Len(a) + Len(b)
      /\ \A i \in 1..Len(a) : p[i] = a[i]
      /\ \A i \in (Len(a) + 1)..Len(p) : p[i] = b[i - Len(a)]
  BY <1>a, Joined
<1> HIDE DEF p
<1>7. Len(p) = g + 2 /\ p[1] = a[1] /\ p[2] = a[2]
  BY <1>1, <1>5, <1>6
<1>8. ASSUME NEW i \in 3..(g + 2) PROVE p[i] = Piece(h + i - 2)
  <2>1. i \in (Len(a) + 1)..Len(p) /\ i - Len(a) = i - 2 /\ i - 2 \in 1..g
    BY <1>1, <1>7
  <2>2. h + (i - 2) = h + i - 2
    OBVIOUS
  <2> QED
    BY <1>5, <1>6, <2>1, <2>2
<1>9. ASSUME NEW i \in 3..(g + 2)
      PROVE  p[i].kind = "piece" /\ p[i].cmd = "none" /\ p[i].n = h + i - 2
  <2>1. p[i] = Piece(h + i - 2)
    BY <1>8
  <2> QED
    BY <2>1, PieceIs
<1>10. \A i \in 1..Len(p) : i = 1 \/ i = 2 \/ i \in 3..(g + 2)
  BY <1>7
<1>11. Packet(p, 1)
  <2>1. p[1].n = g + 1 /\ p[1].cmd = "VIDEO" /\ p[1 + 1].kind = "FILE_GET" /\ g + 1 >= 1
    BY <1>1, <1>7
  <2>2. 1 + (g + 1) <= Len(p) /\ ~(1 + (g + 1) < Len(p))
    BY <1>7
  <2>3. ASSUME NEW k \in 2..(g + 1) PROVE p[1 + k] = Piece(p[1 + 2].n + k - 2)
    <3>1. 1 + k \in 3..(g + 2) /\ 3 \in 3..(g + 2) /\ 1 + 2 = 3
      OBVIOUS
    <3>2. p[1 + 2].n = h + 3 - 2
      BY <1>9, <3>1
    <3>3. p[1 + k] = Piece(h + (1 + k) - 2)
      BY <1>8, <3>1
    <3>4. h + (1 + k) - 2 = (h + 3 - 2) + k - 2
      OBVIOUS
    <3> QED
      BY <3>2, <3>3, <3>4
  <2> QED
    BY <2>1, <2>2, <2>3 DEF Packet
<1>12. Framed(p)
  <2>1. \A i \in 1..Len(p) : p[i].kind = "NET_CMD" => i = 1
    BY <1>1, <1>7, <1>9, <1>10
  <2> QED
    BY <1>1, <1>7, <1>11, <2>1 DEF Framed
<1>13. Endless(p)
  BY <1>1, <1>7, <1>9, <1>10 DEF Endless
<1>14. Carries(p, h + 1, h + g)
  <2>1. \A i \in 1..Len(p) : p[i].kind = "piece" => i \in 3..(g + 2) /\ p[i].n = h + i - 2
    BY <1>1, <1>7, <1>9, <1>10
  <2>2. ASSUME NEW k \in (h + 1)..(h + g) PROVE \E i \in 1..Len(p) : p[i] = Piece(k)
    <3> DEFINE x == k - h + 2
    <3>1. x \in 3..(g + 2) /\ x \in 1..Len(p) /\ h + x - 2 = k
      BY <1>7
    <3> HIDE DEF x
    <3> QED
      BY <1>8, <3>1
  <2>3. \A i \in 1..Len(p) : p[i].kind = "piece" => p[i].n \in (h + 1)..(h + g)
    BY <2>1
  <2>4. \A i, j \in 1..Len(p) :
           i < j /\ p[i].kind = "piece" /\ p[j].kind = "piece" => p[i].n < p[j].n
    BY <2>1
  <2> QED
    BY <2>2, <2>3, <2>4 DEF Carries
<1> QED
  BY <1>a, <1>6, <1>12, <1>13, <1>14 DEF p, a, b

(* The packet that answers the login.                                        *)
LEMMA LoginPacket ==
  ASSUME NEW x \in Nat, NEW h \in Nat
  PROVE  LET p == <<Head_("LOGINRET", 1), LoginRet(x)>> IN
           p \in Seq(Cell) /\ Framed(p) /\ Endless(p) /\ Carries(p, h + 1, h)
<1> DEFINE p == <<Head_("LOGINRET", 1), LoginRet(x)>>
<1>1. /\ p \in Seq(Cell) /\ Len(p) = 2
      /\ p[1].kind = "NET_CMD" /\ p[1].cmd = "LOGINRET" /\ p[1].n = 1
      /\ p[2].kind = "LOGIN_RET" /\ p[2].cmd = "none"
  BY DEF Cell, Head_, LoginRet
<1> HIDE DEF p
<1>2. \A i \in 1..Len(p) : i = 1 \/ i = 2
  BY <1>1
<1>3. Packet(p, 1)
  BY <1>1 DEF Packet
<1>4. Framed(p) /\ Endless(p)
  BY <1>1, <1>2, <1>3 DEF Framed, Endless
<1>5. Carries(p, h + 1, h)
  BY <1>1, <1>2 DEF Carries
<1> QED
  BY <1>1, <1>4, <1>5 DEF p

(* The end.                                                                  *)
LEMMA EndPacket ==
  ASSUME NEW h \in Nat
  PROVE  LET p == <<Head_("DATAEND", 0)>> IN
           p \in Seq(Cell) /\ Framed(p) /\ Carries(p, h + 1, h)
<1> DEFINE p == <<Head_("DATAEND", 0)>>
<1>1. /\ p \in Seq(Cell) /\ Len(p) = 1
      /\ p[1].kind = "NET_CMD" /\ p[1].cmd = "DATAEND" /\ p[1].n = 0
  BY DEF Cell, Head_
<1> HIDE DEF p
<1>2. \A i \in 1..Len(p) : i = 1
  BY <1>1
<1>3. Packet(p, 1)
  BY <1>1 DEF Packet
<1>4. Framed(p)
  BY <1>1, <1>2, <1>3 DEF Framed
<1>5. Carries(p, h + 1, h)
  BY <1>1, <1>2 DEF Carries
<1> QED
  BY <1>1, <1>4, <1>5 DEF p

-----------------------------------------------------------------------------
(* The invariant. *)

Fits == fileLen <= MaxLength

\* What mSendBuffer and the sendEx under way hold of each other.
BufferOK ==
  /\ ~buffer.bSendCmd => buffer.data = <<>>
  /\ buffer.part = <<>> => buffer.data = <<>>
  /\ call = "exit" => buffer.data = <<>>
  /\ call = "none" => out = <<>>
  /\ call # "none" => task = "sending"
  /\ task = "none" => buffer = Reset

\* Before the file is open there is nothing under way.
Started ==
  task = "none" \/ disk = NoFile =>
    /\ task # "sending"
    /\ client.head = <<>> /\ client.body = <<>> /\ client.file = <<>>
    /\ toClient = <<>> /\ hasRead = 0 /\ fileLen = 0

\* What is under way continues what has arrived.
Flows(c, s) ==
  /\ Framed(s)
  /\ Len(c.file) <= hasRead
  /\ \A i \in 1..Len(c.file) : c.file[i] = i
  /\ Carries(s, Len(c.file) + 1, hasRead)
  /\ Endless(s) \/ (hasRead = fileLen /\ (call = "exit" \/ task = "deleted"))

Halfway(c) ==
  /\ c.head = <<>> => c.body = <<>>
  /\ c.head # <<>> => Len(c.body) < c.head[1].n

PipeOK == ~Gone => Flows(client, Pipeline) /\ Halfway(client)

IInv == TypeOK /\ Fits /\ BufferOK /\ Started /\ PipeOK

(* The cells of the model are cells.                                         *)
LEMMA CellsAre ==
  ASSUME FileTransferAssumption
  PROVE  Cells \subseteq Cell
<1>1. MaxLength \in Nat /\ ChunkLen \in Nat
  BY DEF FileTransferAssumption
<1> QED
  BY <1>1 DEF Cells, Cell, Head_, LoginRet, FileGet, Piece

(* What is under way is cells.                                               *)
LEMMA Typed ==
  ASSUME TypeOK, FileTransferAssumption
  PROVE  /\ buffer.part \in Seq(Cell) /\ buffer.data \in Seq(Cell)
         /\ out \in Seq(Cell) /\ toClient \in Seq(Cell) /\ Unsent \in Seq(Cell)
         /\ client.head \in Seq(Cell) /\ client.body \in Seq(Cell)
         /\ Pipeline \in Seq(Cell)
         /\ hasRead \in Nat /\ fileLen \in Nat
<1>1. /\ buffer.part \in Seq(Cells) /\ buffer.data \in Seq(Cells) /\ out \in Seq(Cells)
      /\ toClient \in Seq(Cells) /\ client.body \in Seq(Cells)
      /\ client.head \in {<<>>} \cup {<<c>> : c \in Cells}
  BY DEF TypeOK
<1>2. client.head \in Seq(Cell)
  <2>1. \A c \in Cell : <<c>> \in Seq(Cell)
    OBVIOUS
  <2>2. <<>> \in Seq(Cell)
    BY EmptySeq
  <2> QED
    BY <1>1, <2>1, <2>2, CellsAre
<1>3. /\ buffer.part \in Seq(Cell) /\ buffer.data \in Seq(Cell) /\ out \in Seq(Cell)
      /\ toClient \in Seq(Cell) /\ client.body \in Seq(Cell)
  BY <1>1, CellsAre, SeqMonotonic
<1>4. Unsent \in Seq(Cell)
  <2>1. /\ <<>> \in Seq(Cell) /\ buffer.part \o buffer.data \in Seq(Cell)
        /\ out \o buffer.data \in Seq(Cell)
    BY <1>3, EmptySeq, ConcatProperties
  <2> QED
    BY <2>1 DEF Unsent
<1>5. Pipeline \in Seq(Cell)
  <2>1. client.head \o client.body \in Seq(Cell) /\ toClient \o Unsent \in Seq(Cell)
    BY <1>2, <1>3, <1>4, ConcatProperties
  <2> QED
    BY <2>1, ConcatProperties DEF Pipeline
<1>6. hasRead \in Nat /\ fileLen \in Nat
  BY DEF TypeOK, FileTransferAssumption
<1> QED
  BY <1>2, <1>3, <1>4, <1>5, <1>6

(* A step of the server that moves cells along.                              *)
LEMMA Moved ==
  ASSUME PipeOK, Pipeline' = Pipeline, UNCHANGED <<client, hasRead, fileLen>>,
         call = "exit" \/ task = "deleted" => call' = "exit" \/ task' = "deleted"
  PROVE  PipeOK'
BY DEF PipeOK, Gone, Flows, Halfway

(* A step of the server that adds a packet.                                  *)
LEMMA Added ==
  ASSUME TypeOK, FileTransferAssumption, PipeOK,
         UNCHANGED <<client, toClient, fileLen>>, Unsent = <<>>,
         NEW p \in Seq(Cell), Unsent' = p, NEW h \in Nat, hasRead' = h, hasRead <= h,
         Framed(p), Carries(p, hasRead + 1, h),
         call # "exit" /\ task # "deleted",
         Endless(p) \/ (h = fileLen /\ call' = "exit")
  PROVE  PipeOK'
<1> DEFINE hb == client.head \o client.body
<1>1. Pipeline = hb \o (toClient \o <<>>) /\ Pipeline' = hb \o (toClient \o p)
  BY DEF Pipeline
<1>2. hb \in Seq(Cell) /\ toClient \in Seq(Cell) /\ Pipeline \in Seq(Cell) /\ hasRead \in Nat
  BY Typed, Regroup
<1> HIDE DEF hb
<1>3. Pipeline' = Pipeline \o p
  <2>1. (hb \o (toClient \o <<>>)) \o p = hb \o (toClient \o p)
    <3>1. toClient \o <<>> = toClient
      BY <1>2, ConcatEmptySeq
    <3>2. \A c \in Seq(Cell) : (hb \o toClient) \o c = hb \o (toClient \o c)
      BY <1>2, Reassociate
    <3> QED
      BY <3>1, <3>2
  <2> QED
    BY <1>1, <2>1
<1>4. CASE Gone
  BY <1>4 DEF PipeOK, Gone
<1>5. CASE ~Gone
  <2>1. /\ Framed(Pipeline) /\ Endless(Pipeline) /\ Halfway(client) /\ Len(client.file) <= hasRead
        /\ \A i \in 1..Len(client.file) : client.file[i] = i
        /\ Carries(Pipeline, Len(client.file) + 1, hasRead)
    BY <1>5 DEF PipeOK, Flows
  <2>2. Len(client.file) \in Nat
    BY LenProperties DEF TypeOK
  <2>3. Framed(Pipeline')
    BY <1>2, <1>3, <2>1, FramedConcat
  <2>4. Len(client.file) + 1 \in Nat /\ Len(client.file) + 1 <= hasRead + 1
        /\ Len(client.file) <= h
    BY <1>2, <2>1, <2>2
  <2>5. Carries(Pipeline', Len(client.file) + 1, h)
    BY <1>2, <1>3, <2>1, <2>4, CarriesConcat
  <2>6. Endless(p) => Endless(Pipeline')
    BY <1>2, <1>3, <2>1, EndlessConcat
  <2> QED
    BY <2>1, <2>3, <2>4, <2>5, <2>6 DEF PipeOK, Flows, Halfway
<1> QED
  BY <1>4, <1>5

-----------------------------------------------------------------------------
(* The server's steps. *)

(* sendEx hands cells to the socket.                                         *)
LEMMA SendSomeKeeps ==
  ASSUME IInv, FileTransferAssumption, SendSome PROVE IInv'
<1> USE DEF IInv
<1> DEFINE n == Min2(Len(out), Room - Len(toClient))
<1>1. /\ call # "none" /\ Len(toClient) < Room
      /\ toClient' = toClient \o SubSeq(out, 1, n) /\ out' = SubSeq(out, n + 1, Len(out))
      /\ UNCHANGED <<disk, task, fileLen, hasRead, buffer, call, writing, awaited,
                     toServer, client>>
  BY DEF SendSome
<1>2. out \in Seq(Cells) /\ toClient \in Seq(Cells)
  BY DEF TypeOK
<1>3. Len(out) \in Nat /\ Len(toClient) \in Nat /\ Room \in Nat
  BY <1>2, LenProperties DEF FileTransferAssumption
<1>4. n \in 0..Len(out) /\ n <= Room - Len(toClient)
  BY <1>1, <1>3 DEF Min2
<1> DEFINE a == SubSeq(out, 1, n)
           b == SubSeq(out, n + 1, Len(out))
<1>5. a \in Seq(Cells) /\ Len(a) = n /\ b \in Seq(Cells) /\ a \o b = out
  BY <1>2, <1>4, Cut
<1>6. toClient' = toClient \o a /\ out' = b
  BY <1>1
<1> HIDE DEF n, a, b
<1>7. toClient' \in Seq(Cells) /\ Len(toClient') <= Room
  <2>1. toClient' \in Seq(Cells) /\ Len(toClient') = Len(toClient) + n
    BY <1>2, <1>5, <1>6, ConcatProperties
  <2> QED
    BY <1>3, <1>4, <2>1
<1>8. TypeOK'
  <2>1. UNCHANGED <<disk, task, fileLen, hasRead, buffer, call, writing, awaited,
                    toServer, client>>
    BY <1>1
  <2>2. out' \in Seq(Cells)
    BY <1>5, <1>6
  <2> QED
    BY <1>7, <2>1, <2>2 DEF TypeOK
<1>9. task = "sending" /\ ~(task = "none" \/ disk = NoFile)
  BY <1>1 DEF BufferOK, Started
<1>10. BufferOK' /\ Started' /\ Fits'
  BY <1>1, <1>9 DEF BufferOK, Started, Fits
<1>11. Pipeline' = Pipeline
  <2> DEFINE hb == client.head \o client.body
  <2>1. /\ a \in Seq(Cell) /\ b \in Seq(Cell) /\ toClient \in Seq(Cell)
        /\ buffer.data \in Seq(Cell)
    BY <1>5, Typed, CellsAre, SeqMonotonic
  <2>2. Unsent = out \o buffer.data /\ Unsent' = b \o buffer.data
    BY <1>1, <1>6, <1>9 DEF Unsent
  <2>3. (toClient \o a) \o (b \o buffer.data) = toClient \o ((a \o b) \o buffer.data)
    <3> DEFINE d == buffer.data
    <3>1. d \in Seq(Cell)
      BY <2>1
    <3> HIDE DEF d
    <3>2. (toClient \o a) \o (b \o d) = toClient \o ((a \o b) \o d)
      <4>1. \A b1, d1 \in Seq(Cell) :
              (toClient \o a) \o (b1 \o d1) = toClient \o ((a \o b1) \o d1)
        BY <2>1, RegroupFour
      <4>2. \A d1 \in Seq(Cell) :
              (toClient \o a) \o (b \o d1) = toClient \o ((a \o b) \o d1)
        BY <2>1, <4>1
      <4> QED
        BY <3>1, <4>2
    <3> QED
      BY <3>2 DEF d
  <2> QED
    BY <1>1, <1>5, <1>6, <2>2, <2>3 DEF Pipeline
<1>12. PipeOK'
  BY <1>1, <1>11, Moved
<1> QED
  BY <1>8, <1>10, <1>12

(* sendEx has sent everything.                                               *)
LEMMA SentKeeps ==
  ASSUME IInv, FileTransferAssumption, Sent PROVE IInv'
<1> USE DEF IInv
<1>1. /\ call \in {"login", "write"} /\ out = <<>> /\ call' = "none"
      /\ buffer' = IF buffer.bSendCmd THEN setToVideo(buffer) ELSE Reset
      /\ writing' = IF call = "write" THEN 1 ELSE writing
      /\ UNCHANGED <<disk, task, fileLen, hasRead, out, awaited, toServer, toClient, client>>
  BY DEF Sent
<1>2. buffer \in [bSendCmd : BOOLEAN, part : Seq(Cells), data : Seq(Cells)]
  BY DEF TypeOK
<1>3. <<>> \in Seq(Cells)
  BY EmptySeq
<1>4. /\ buffer' \in [bSendCmd : BOOLEAN, part : Seq(Cells), data : Seq(Cells)]
      /\ buffer'.data = <<>> /\ buffer'.part = buffer.data
  BY <1>1, <1>2, <1>3 DEF setToVideo, Reset, BufferOK
<1>5. TypeOK'
  BY <1>1, <1>4 DEF TypeOK
<1>6. task = "sending" /\ ~(task = "none" \/ disk = NoFile)
  BY <1>1 DEF BufferOK, Started
<1>7. BufferOK' /\ Started' /\ Fits'
  BY <1>1, <1>4, <1>6 DEF BufferOK, Started, Fits
<1>8. Pipeline' = Pipeline
  <2>1. Unsent = <<>> \o buffer.data /\ Unsent' = buffer.data \o <<>>
    BY <1>1, <1>4, <1>6 DEF Unsent
  <2>2. Unsent' = Unsent
    BY <2>1, Typed, Regroup
  <2> QED
    BY <1>1, <2>2 DEF Pipeline
<1>9. PipeOK'
  BY <1>1, <1>8, Moved
<1> QED
  BY <1>5, <1>7, <1>9

(* send has failed.                                                          *)
LEMMA SendFailsKeeps ==
  ASSUME IInv, FileTransferAssumption, SendFails PROVE IInv'
<1> USE DEF IInv
<1>1. /\ call \in {"login", "write"} /\ Gone /\ call' = "none" /\ out' = <<>>
      /\ writing' = IF call = "write" THEN 1 ELSE writing
      /\ UNCHANGED <<disk, task, fileLen, hasRead, buffer, awaited, toServer, toClient, client>>
  BY DEF SendFails
<1>2. <<>> \in Seq(Cells)
  BY EmptySeq
<1>3. TypeOK'
  BY <1>1, <1>2 DEF TypeOK
<1>4. BufferOK' /\ Started' /\ Fits'
  BY <1>1 DEF BufferOK, Started, Fits
<1>5. PipeOK'
  BY <1>1 DEF PipeOK, Gone
<1> QED
  BY <1>3, <1>4, <1>5

(* The session is deleted after DATAEND.                                     *)
LEMMA ExitKeeps ==
  ASSUME IInv, FileTransferAssumption, Exit PROVE IInv'
<1> USE DEF IInv
<1>1. /\ call = "exit" /\ (out = <<>> \/ Gone) /\ call' = "none" /\ out' = <<>>
      /\ task' = "deleted" /\ writing' = 0
      /\ UNCHANGED <<disk, fileLen, hasRead, buffer, awaited, toServer, toClient, client>>
  BY DEF Exit
<1>2. <<>> \in Seq(Cells)
  BY EmptySeq
<1>3. TypeOK'
  BY <1>1, <1>2 DEF TypeOK
<1>4. task = "sending" /\ disk # NoFile /\ buffer.data = <<>>
  BY <1>1 DEF BufferOK, Started
<1>5. BufferOK' /\ Started' /\ Fits'
  BY <1>1, <1>4 DEF BufferOK, Started, Fits
<1>6. CASE Gone
  BY <1>1, <1>3, <1>5, <1>6 DEF PipeOK, Gone
<1>7. CASE out = <<>>
  <2>1. Unsent = <<>> \o <<>> /\ Unsent' = <<>>
    BY <1>1, <1>4, <1>7 DEF Unsent
  <2>2. <<>> \o <<>> = <<>>
    BY <1>2, ConcatEmptySeq
  <2>3. Pipeline' = Pipeline
    BY <1>1, <2>1, <2>2 DEF Pipeline
  <2>4. PipeOK'
    BY <1>1, <2>3, Moved
  <2> QED
    BY <1>3, <1>5, <2>4
<1> QED
  BY <1>1, <1>6, <1>7

(* What a write finds: an open file, and nothing between the calls.          *)
LEMMA AtWrite ==
  ASSUME IInv, FileTransferAssumption, Writes
  PROVE  /\ task = "sending" /\ call = "none" /\ disk \in Nat
         /\ buffer.part = <<>> => buffer.data = <<>> /\ Unsent = <<>>
         /\ Unsent = buffer.part \o buffer.data
<1>1. task = "sending" /\ call = "none"
  BY DEF Writes
<1>2. disk \in Nat
  BY <1>1 DEF IInv, TypeOK, Started, NoFile, FileTransferAssumption
<1>3. Unsent = buffer.part \o buffer.data
  BY <1>1 DEF Unsent
<1>4. buffer.part = <<>> => buffer.data = <<>>
  BY DEF IInv, BufferOK
<1>5. <<>> \o <<>> = <<>>
  BY EmptySeq, ConcatEmptySeq
<1> QED
  BY <1>1, <1>2, <1>3, <1>4, <1>5

(* The next packet.                                                          *)
LEMMA WritePacketKeeps ==
  ASSUME IInv, FileTransferAssumption, WritePacket PROVE IInv'
<1> USE DEF IInv
<1> DEFINE m   == Min2(fileLen - hasRead, ChunkLen)
           got == IF disk <= hasRead THEN 0 ELSE Min2(m, disk - hasRead)
           a   == <<Head_("VIDEO", got + 1), FileGet(got)>>
           b   == Pieces(hasRead, hasRead + got)
<1>1. /\ Writes /\ buffer.part = <<>> /\ hasRead < fileLen
      /\ buffer' = Command(a, b) /\ call' = "write" /\ out' = buffer'.part /\ writing' = 0
      /\ hasRead' = hasRead + got
      /\ UNCHANGED <<disk, task, fileLen, awaited, toServer, toClient, client>>
  BY DEF WritePacket, Begin, Command
<1>2. task = "sending" /\ call = "none" /\ disk \in Nat /\ Unsent = <<>> /\ disk # NoFile
  BY <1>1, AtWrite DEF NoFile
<1>3. hasRead \in Nat /\ fileLen \in Nat /\ ChunkLen \in Nat /\ MaxLength \in Nat
      /\ fileLen <= MaxLength
  BY Typed DEF Fits, FileTransferAssumption
<1>4. got \in 0..ChunkLen /\ got \in Nat /\ hasRead + got <= fileLen
  BY <1>1, <1>2, <1>3 DEF Min2
<1> HIDE DEF m, got
<1>5. a \in Seq(Cells)
  <2>1. got + 1 \in 0..(ChunkLen + 1)
    BY <1>3, <1>4
  <2>2. Head_("VIDEO", got + 1) \in Cells /\ FileGet(got) \in Cells
    BY <1>4, <2>1 DEF Cells
  <2> QED
    BY <2>2
<1>6. b \in Seq(Cells)
  <2>1. b = [i \in 1..got |-> Piece(hasRead + i)]
    <3>1. (hasRead + got) - hasRead = got
      BY <1>3, <1>4
    <3> QED
      BY <3>1 DEF Pieces
  <2>2. ASSUME NEW i \in 1..got PROVE Piece(hasRead + i) \in Cells
    <3>1. hasRead + i \in 1..MaxLength
      BY <1>3, <1>4
    <3> QED
      BY <3>1 DEF Cells
  <2> QED
    BY <1>4, <2>1, <2>2
<1>7. a \o b \in Seq(Cell) /\ Framed(a \o b) /\ Endless(a \o b)
      /\ Carries(a \o b, hasRead + 1, hasRead + got)
  BY <1>3, <1>4, VideoPacket
<1>8. a # <<>>
  OBVIOUS
<1> HIDE DEF a, b
<1>9. /\ buffer'.part = a /\ buffer'.data = b /\ buffer'.bSendCmd = TRUE /\ out' = a
      /\ buffer' \in [bSendCmd : BOOLEAN, part : Seq(Cells), data : Seq(Cells)]
  BY <1>1, <1>5, <1>6 DEF Command
<1>10. hasRead' \in 0..fileLen'
  BY <1>1, <1>3, <1>4
<1>11. TypeOK'
  BY <1>1, <1>5, <1>9, <1>10 DEF TypeOK
<1>12. BufferOK' /\ Started' /\ Fits'
  BY <1>1, <1>2, <1>8, <1>9 DEF BufferOK, Started, Fits
<1>13. Unsent' = a \o b
  BY <1>1, <1>2, <1>9 DEF Unsent
<1>14. hasRead + got \in Nat /\ hasRead <= hasRead + got
  BY <1>3, <1>4
<1>15. PipeOK'
  BY <1>1, <1>2, <1>7, <1>13, <1>14, Added
<1> QED
  BY <1>11, <1>12, <1>15

(* The rest of a packet.                                                     *)
LEMMA WriteRestKeeps ==
  ASSUME IInv, FileTransferAssumption, WriteRest PROVE IInv'
<1> USE DEF IInv
<1>1. /\ Writes /\ call' = "write" /\ out' = buffer.part /\ writing' = 0
      /\ UNCHANGED <<disk, task, fileLen, hasRead, buffer, awaited, toServer, toClient, client>>
  BY DEF WriteRest, Begin
<1>a. task = "sending" /\ call = "none" /\ disk \in Nat /\ Unsent = buffer.part \o buffer.data
  BY <1>1, AtWrite
<1>2. task = "sending" /\ call = "none" /\ disk # NoFile /\ Unsent = buffer.part \o buffer.data
  BY <1>a DEF NoFile
<1>3. TypeOK'
  BY <1>1 DEF TypeOK
<1>4. BufferOK' /\ Started' /\ Fits'
  BY <1>1, <1>2 DEF BufferOK, Started, Fits
<1>5. Unsent' = Unsent
  BY <1>1, <1>2 DEF Unsent
<1>6. Pipeline' = Pipeline
  BY <1>1, <1>5 DEF Pipeline
<1>7. PipeOK'
  BY <1>1, <1>2, <1>6, Moved
<1> QED
  BY <1>3, <1>4, <1>7

(* The end.                                                                  *)
LEMMA WriteEndKeeps ==
  ASSUME IInv, FileTransferAssumption, WriteEnd PROVE IInv'
<1> USE DEF IInv
<1> DEFINE a == <<Head_("DATAEND", 0)>>
<1>1. /\ Writes /\ buffer.part = <<>> /\ hasRead >= fileLen
      /\ buffer' = Command(a, <<>>) /\ call' = "exit" /\ out' = buffer'.part /\ writing' = 0
      /\ UNCHANGED <<disk, task, fileLen, hasRead, awaited, toServer, toClient, client>>
  BY DEF WriteEnd, Begin, Command
<1>2. task = "sending" /\ call = "none" /\ disk \in Nat /\ Unsent = <<>> /\ disk # NoFile
  BY <1>1, AtWrite DEF NoFile
<1>3. hasRead \in Nat /\ fileLen \in Nat
  BY Typed
<1>4. hasRead = fileLen
  BY <1>1, <1>3 DEF TypeOK
<1>5. a \in Seq(Cells) /\ a # <<>> /\ <<>> \in Seq(Cells)
  <2>1. 0 \in 0..(ChunkLen + 1)
    BY DEF FileTransferAssumption
  <2>2. Head_("DATAEND", 0) \in Cells
    BY <2>1 DEF Cells
  <2> QED
    BY <2>2
<1>6. a \in Seq(Cell) /\ Framed(a) /\ Carries(a, hasRead + 1, hasRead)
  BY <1>3, EndPacket
<1> HIDE DEF a
<1>7. /\ buffer'.part = a /\ buffer'.data = <<>> /\ buffer'.bSendCmd = TRUE /\ out' = a
      /\ buffer' \in [bSendCmd : BOOLEAN, part : Seq(Cells), data : Seq(Cells)]
  BY <1>1, <1>5 DEF Command
<1>8. TypeOK'
  BY <1>1, <1>5, <1>7 DEF TypeOK
<1>9. BufferOK' /\ Started' /\ Fits'
  BY <1>1, <1>2, <1>5, <1>7 DEF BufferOK, Started, Fits
<1>10. Unsent' = a
  <2>1. Unsent' = a \o <<>>
    BY <1>1, <1>2, <1>7 DEF Unsent
  <2> QED
    BY <1>6, <2>1, Regroup
<1>11. PipeOK'
  BY <1>1, <1>2, <1>3, <1>4, <1>6, <1>10, Added
<1> QED
  BY <1>8, <1>9, <1>11

(* The reading steps that move no cells.                                     *)
LEMMA ReadingKeeps ==
  ASSUME IInv, FileTransferAssumption,
         ReadHead \/ ReadNoFile \/ ReadStart \/ ReadEof \/ WriteTimeout \/ Truncate
  PROVE  IInv'
<1> USE DEF IInv
<1>1. CASE ReadHead
  <2>1. /\ toServer # <<>> /\ awaited' = Head(toServer) /\ toServer' = Tail(toServer)
        /\ UNCHANGED <<disk, task, fileLen, hasRead, buffer, call, out, writing,
                       toClient, client>>
    BY <1>1 DEF ReadHead
  <2>2. toServer \in Seq({"get", "start"})
    BY DEF TypeOK
  <2>3. awaited' \in {"get", "start"} /\ toServer' \in Seq({"get", "start"})
    BY <2>1, <2>2, HeadTailProperties
  <2>4. TypeOK'
    BY <2>1, <2>3 DEF TypeOK
  <2>5. BufferOK' /\ Started' /\ Fits'
    BY <2>1 DEF BufferOK, Started, Fits
  <2>6. Pipeline' = Pipeline
    BY <2>1 DEF Pipeline, Unsent
  <2>7. PipeOK'
    BY <2>1, <2>6, Moved
  <2> QED
    BY <2>4, <2>5, <2>7
<1>2. CASE ReadNoFile
  <2>1. /\ task = "none" /\ call = "none" /\ disk = NoFile /\ task' = "deleted"
        /\ awaited' = "none"
        /\ UNCHANGED <<disk, fileLen, hasRead, buffer, call, out, writing, toServer,
                       toClient, client>>
    BY <1>2 DEF ReadNoFile, Reads
  <2>2. TypeOK'
    BY <2>1 DEF TypeOK
  <2>3. BufferOK' /\ Started' /\ Fits'
    BY <2>1 DEF BufferOK, Started, Fits
  <2>4. Unsent = <<>> /\ Unsent' = <<>>
    <3>1. Unsent = <<>> \o <<>> /\ Unsent' = <<>>
      BY <2>1 DEF Unsent, BufferOK, Reset
    <3> QED
      BY <3>1, EmptySeq, ConcatEmptySeq
  <2>5. Pipeline' = Pipeline
    BY <2>1, <2>4 DEF Pipeline
  <2>6. PipeOK'
    BY <2>1, <2>5, Moved
  <2> QED
    BY <2>2, <2>3, <2>6
<1>3. CASE ReadStart
  <2>1. /\ awaited' = "none" /\ writing' = 1
        /\ UNCHANGED <<disk, task, fileLen, hasRead, buffer, call, out, toServer,
                       toClient, client>>
    BY <1>3 DEF ReadStart
  <2>2. TypeOK' /\ BufferOK' /\ Started' /\ Fits'
    BY <2>1 DEF TypeOK, BufferOK, Started, Fits
  <2>3. Pipeline' = Pipeline
    BY <2>1 DEF Pipeline, Unsent
  <2>4. PipeOK'
    BY <2>1, <2>3, Moved
  <2> QED
    BY <2>2, <2>4
<1>4. CASE ReadEof
  <2>1. /\ call = "none" /\ Gone /\ task' = "deleted" /\ writing' = 0 /\ awaited' = "none"
        /\ UNCHANGED <<disk, fileLen, hasRead, buffer, call, out, toServer, toClient, client>>
    BY <1>4 DEF ReadEof, Reads
  <2>2. TypeOK'
    BY <2>1 DEF TypeOK
  <2>3. BufferOK' /\ Started' /\ Fits'
    BY <2>1 DEF BufferOK, Started, Fits
  <2>4. PipeOK'
    BY <2>1 DEF PipeOK, Gone
  <2> QED
    BY <2>2, <2>3, <2>4
<1>5. CASE WriteTimeout
  <2>1. /\ writing' = 0
        /\ UNCHANGED <<disk, task, fileLen, hasRead, buffer, call, out, awaited, toServer,
                       toClient, client>>
    BY <1>5 DEF WriteTimeout
  <2>2. TypeOK' /\ BufferOK' /\ Started' /\ Fits'
    BY <2>1 DEF TypeOK, BufferOK, Started, Fits
  <2>3. Pipeline' = Pipeline
    BY <2>1 DEF Pipeline, Unsent
  <2>4. PipeOK'
    BY <2>1, <2>3, Moved
  <2> QED
    BY <2>2, <2>4
<1>6. CASE Truncate
  <2>1. /\ UNCHANGED <<task, fileLen, hasRead, buffer, call, out, writing, awaited,
                       toServer, toClient, client>>
    BY <1>6 DEF Truncate, serverVars
  <2>2. PICK d \in 0..(disk - 1) : disk' = d
    BY <1>6 DEF Truncate
  <2>3. disk' \in NoFile..MaxLength /\ disk' # NoFile /\ disk # NoFile
    BY <2>2 DEF TypeOK, NoFile, FileTransferAssumption
  <2>4. TypeOK' /\ BufferOK' /\ Started' /\ Fits'
    BY <2>1, <2>3 DEF TypeOK, BufferOK, Started, Fits
  <2>5. Pipeline' = Pipeline
    BY <2>1 DEF Pipeline, Unsent
  <2>6. PipeOK'
    BY <2>1, <2>5, Moved
  <2> QED
    BY <2>4, <2>6
<1> QED
  BY <1>1, <1>2, <1>3, <1>4, <1>5, <1>6

(* The file is opened.                                                       *)
LEMMA ReadGetKeeps ==
  ASSUME IInv, FileTransferAssumption, ReadGet
  PROVE  IInv' /\ task = "none" /\ disk # NoFile /\ task' = "sending"
         /\ fileLen' \in 0..MaxLength /\ UNCHANGED <<disk, client>>
<1> USE DEF IInv
<1> DEFINE x == disk % LenMod
           a == <<Head_("LOGINRET", 1), LoginRet(x)>>
<1>1. /\ task = "none" /\ call = "none" /\ disk # NoFile /\ task' = "sending"
      /\ fileLen' = x /\ buffer' = Command(a, <<>>) /\ call' = "login" /\ out' = buffer'.part
      /\ awaited' = "none"
      /\ UNCHANGED <<disk, hasRead, writing, toServer, toClient, client>>
  BY DEF ReadGet, Reads
<1>2. disk \in Nat /\ disk <= MaxLength
  BY <1>1 DEF TypeOK, NoFile, FileTransferAssumption
<1>3. x \in 0..disk /\ x \in 0..(LenMod - 1)
  BY <1>2, ModFits DEF FileTransferAssumption
<1> HIDE DEF x
<1>4. x \in 0..MaxLength /\ x \in Nat
  BY <1>2, <1>3 DEF FileTransferAssumption
<1>5. a \in Seq(Cells) /\ a # <<>> /\ <<>> \in Seq(Cells)
  <2>1. 1 \in 0..(ChunkLen + 1)
    BY DEF FileTransferAssumption
  <2>2. Head_("LOGINRET", 1) \in Cells /\ LoginRet(x) \in Cells
    BY <1>4, <2>1 DEF Cells
  <2> QED
    BY <2>2
<1>6. a \in Seq(Cell) /\ Framed(a) /\ Endless(a) /\ Carries(a, 0 + 1, 0)
  BY <1>4, LoginPacket
<1> HIDE DEF a
<1>7. /\ buffer'.part = a /\ buffer'.data = <<>> /\ buffer'.bSendCmd = TRUE /\ out' = a
      /\ buffer' \in [bSendCmd : BOOLEAN, part : Seq(Cells), data : Seq(Cells)]
  BY <1>1, <1>5 DEF Command
<1>8. hasRead = 0 /\ client.head = <<>> /\ client.body = <<>> /\ client.file = <<>>
      /\ toClient = <<>>
  BY <1>1 DEF Started
<1>9. TypeOK'
  <2>1. hasRead' \in 0..fileLen' /\ fileLen' \in 0..(LenMod' - 1)
    BY <1>1, <1>3, <1>4, <1>8
  <2> QED
    BY <1>1, <1>5, <1>7, <2>1 DEF TypeOK
<1>10. BufferOK' /\ Started' /\ Fits'
  BY <1>1, <1>4, <1>5, <1>7 DEF BufferOK, Started, Fits
<1>11. Pipeline' = a
  <2>1. Unsent' = a \o <<>>
    BY <1>1, <1>7 DEF Unsent
  <2>2. Pipeline' = (<<>> \o <<>>) \o (<<>> \o (a \o <<>>))
    BY <1>1, <1>8, <2>1 DEF Pipeline
  <2>3. <<>> \o <<>> = <<>> /\ a \o <<>> = a /\ <<>> \o a = a
    BY <1>6, Regroup
  <2> QED
    BY <2>2, <2>3
<1>12. PipeOK'
  <2>1. Len(client.file) = 0
    BY <1>8
  <2>2. client' = client /\ hasRead' = 0
    BY <1>1, <1>8
  <2> QED
    BY <1>6, <1>8, <1>11, <2>1, <2>2 DEF PipeOK, Flows, Halfway
<1> QED
  BY <1>1, <1>4, <1>9, <1>10, <1>12

-----------------------------------------------------------------------------
(* The client's steps. *)

ClientType == [ slow : BOOLEAN, status : {"open", "end", "eof", "left"},
                head : {<<>>} \cup {<<c>> : c \in Cells},
                body : Seq(Cells), total : 0..MaxLength,
                file : Seq(1..MaxLength) ]

\* What a step of the client means for the copy.
Grows(c, d) ==
  \/ d.file = c.file
  \/ \E n \in 1..fileLen : n > Len(c.file) /\ d.file = [i \in 1..n |-> i]

(* Brackets around what arrives.                                             *)
LEMMA RegroupFive ==
  ASSUME NEW a \in Seq(Cell), NEW b \in Seq(Cell), NEW x \in Seq(Cell), NEW r \in Seq(Cell),
         NEW u \in Seq(Cell)
  PROVE  (a \o b) \o ((x \o r) \o u) = (a \o (b \o x)) \o (r \o u)
<1>1. a \o b \in Seq(Cell) /\ r \o u \in Seq(Cell)
  BY ConcatProperties
<1>2. (x \o r) \o u = x \o (r \o u)
  BY Reassociate
<1>3. (a \o b) \o x = a \o (b \o x)
  BY Reassociate, SMTT(20)
<1>4. \A k, v \in Seq(Cell) : (k \o x) \o v = k \o (x \o v)
  BY Reassociate
<1>5. \A v \in Seq(Cell) : ((a \o b) \o x) \o v = (a \o b) \o (x \o v)
  BY <1>1, <1>4
<1>6. ((a \o b) \o x) \o (r \o u) = (a \o b) \o (x \o (r \o u))
  BY <1>1, <1>5
<1> QED
  BY <1>2, <1>3, <1>6

(* A body arrives that is whole: the rest flows on.                          *)
LEMMA WholePacket ==
  ASSUME NEW h \in Cell, NEW body \in Seq(Cell), NEW r \in Seq(Cell), NEW w \in Nat,
         h.n = w, Len(body) = w, w >= 1,
         NEW f \in Nat, NEW l \in Nat,
         Framed((<<h>> \o body) \o r), Carries((<<h>> \o body) \o r, f, l)
  PROVE  /\ Framed(r)
         /\ Endless((<<h>> \o body) \o r) => Endless(r)
         /\ \/ /\ h.cmd = "LOGINRET" /\ body[1].kind = "LOGIN_RET"
               /\ Carries(r, f, l)
            \/ /\ h.cmd = "VIDEO"
               /\ \A i \in 1..(w - 1) : body[i + 1].n = f + i - 1
               /\ w >= 2 => f + w - 2 <= l
               /\ Carries(r, f + w - 1, l)
<1> DEFINE q == <<h>> \o body
           s == q \o r
           d == w + 1
<1>1. <<h>> \in Seq(Cell) /\ Len(<<h>>) = 1 /\ <<h>>[1] = h
  OBVIOUS
<1>2. /\ q \in Seq(Cell) /\ Len(q) = Len(<<h>>) + Len(body)
      /\ \A i \in 1..Len(<<h>>) : q[i] = <<h>>[i]
      /\ \A i \in (Len(<<h>>) + 1)..Len(q) : q[i] = body[i - Len(<<h>>)]
  BY <1>1, Joined
<1> HIDE DEF q
<1>3. Len(q) = d /\ q[1] = h /\ \A i \in 2..d : q[i] = body[i - 1]
  <2>1. Len(q) = d
    BY <1>1, <1>2
  <2>2. q[1] = h
    BY <1>1, <1>2
  <2>3. ASSUME NEW i \in 2..d PROVE q[i] = body[i - 1]
    <3>1. i \in (Len(<<h>>) + 1)..Len(q) /\ i - Len(<<h>>) = i - 1
      BY <1>1, <2>1
    <3> QED
      BY <1>2, <3>1
  <2> QED
    BY <2>1, <2>2, <2>3
<1>a. q \in Seq(Cell)
  BY <1>2
<1>4. /\ s \in Seq(Cell) /\ Len(s) = Len(q) + Len(r) /\ Len(r) \in Nat
      /\ \A i \in 1..Len(q) : s[i] = q[i]
      /\ \A i \in (Len(q) + 1)..Len(s) : s[i] = r[i - Len(q)]
  BY <1>a, Joined
<1> HIDE DEF s
<1>5. d \in Nat /\ Len(s) = d + Len(r) /\ Len(r) \in Nat /\ Len(r) = Len(s) - d
  BY <1>3, <1>4
<1>6. s[1] = h /\ s[1].n = w
  <2>1. s[1] = q[1]
    BY <1>3, <1>4
  <2> QED
    BY <1>3, <2>1
<1>7. ASSUME NEW i \in 1..w PROVE s[i + 1] = body[i]
  <2>1. i + 1 \in 2..d /\ (i + 1) - 1 = i /\ i + 1 \in 1..d
    OBVIOUS
  <2>2. s[i + 1] = q[i + 1]
    BY <1>3, <1>4, <2>1
  <2>3. q[i + 1] = body[(i + 1) - 1]
    BY <1>3, <2>1
  <2> QED
    BY <2>1, <2>2, <2>3
<1>8. ASSUME NEW i \in 1..Len(r) PROVE r[i] = s[i + d]
  <2>1. i + d \in (d + 1)..Len(s) /\ (i + d) - d = i
    BY <1>5
  <2> QED
    BY <1>3, <1>4, <2>1
<1>9. Framed(s) /\ Carries(s, f, l) /\ Len(s) > 0
  BY <1>5 DEF s, q
<1>10. Framed(r)
  <2>1. d = w + 1
    OBVIOUS
  <2> HIDE DEF d
  <2> QED
    BY <1>4, <1>5, <1>6, <1>8, <1>9, <2>1, FramedRest
<1>11. Endless(s) => Endless(r)
  <2>1. \A i \in 1..Len(r) : i + d \in 1..Len(s)
    BY <1>5
  <2> QED
    BY <1>8, <2>1 DEF Endless
<1>12. 1 \in 1..Len(s)
  BY <1>5
<1>13. s[1].kind = "NET_CMD" /\ Packet(s, 1)
  BY <1>9, <1>12 DEF Framed
<1>14. h.cmd = "LOGINRET" \/ h.cmd = "VIDEO"
  <2>1. h.cmd \in {"LOGINRET", "VIDEO", "DATAEND"} /\ (h.cmd = "DATAEND" => w = 0)
    BY <1>6, <1>13 DEF Packet
  <2> QED
    BY <2>1
<1>15. CASE h.cmd = "LOGINRET"
  <2>1. w = 1 /\ s[1 + 1].kind = "LOGIN_RET"
    BY <1>6, <1>13, <1>15 DEF Packet
  <2>2. s[2].kind = "LOGIN_RET" /\ s[2] = body[1] /\ d = 2
    BY <1>7, <2>1
  <2>3. \A i \in 1..Len(s) : i <= d /\ s[i].kind = "piece" => s[i].n < f
    <3>1. \A i \in 1..Len(s) : i <= 2 => i = 1 \/ i = 2
      BY <1>5
    <3> QED
      BY <1>13, <2>2, <3>1
  <2>4. \A i \in 1..Len(s) : i > d /\ s[i].kind = "piece" => s[i].n >= f
    <3>1. \A i \in 1..Len(s) : s[i].kind = "piece" => s[i].n \in f..l
      BY <1>9 DEF Carries
    <3> QED
      BY <3>1
  <2> HIDE DEF d
  <2>5. s \in Seq(Cell) /\ d \in Nat /\ Len(r) = Len(s) - d /\ f <= f /\ Carries(s, f, l)
    BY <1>4, <1>5, <1>9
  <2>6. Carries(r, f, l)
    BY <1>8, <2>3, <2>4, <2>5, CarriesRest
  <2> QED
    BY <1>10, <1>11, <1>15, <2>2, <2>6 DEF s, q
<1>16. CASE h.cmd = "VIDEO"
  <2>1. /\ \A i \in 3..(w + 1) : s[i] = Piece(f + i - 3)
        /\ w >= 2 => f + w - 2 <= l
        /\ \A i \in 1..Len(s) : i <= w + 1 /\ s[i].kind = "piece" => s[i].n < f + w - 1
        /\ \A i \in 1..Len(s) : i > w + 1 /\ s[i].kind = "piece" => s[i].n >= f + w - 1
    <3>1. s \in Seq(Cell) /\ Framed(s) /\ Len(s) > 0 /\ s[1].cmd = "VIDEO" /\ w = s[1].n
          /\ Carries(s, f, l)
      BY <1>4, <1>6, <1>9, <1>16
    <3> QED
      BY <3>1, FirstPieces
  <2>2. ASSUME NEW i \in 1..(w - 1) PROVE body[i + 1].n = f + i - 1
    <3>1. i + 1 \in 1..w /\ (i + 1) + 1 \in 3..(w + 1) /\ f + ((i + 1) + 1) - 3 = f + i - 1
      OBVIOUS
    <3>2. s[(i + 1) + 1] = body[i + 1] /\ s[(i + 1) + 1] = Piece(f + ((i + 1) + 1) - 3)
      BY <1>7, <2>1, <3>1
    <3>3. body[i + 1].n = f + ((i + 1) + 1) - 3
      BY <3>2, PieceIs
    <3> QED
      BY <3>1, <3>3
  <2> DEFINE g == f + w - 1
  <2>3. g \in Nat /\ f <= g
    OBVIOUS
  <2>4. /\ \A i \in 1..Len(s) : i <= d /\ s[i].kind = "piece" => s[i].n < g
        /\ \A i \in 1..Len(s) : i > d /\ s[i].kind = "piece" => s[i].n >= g
    BY <2>1
  <2> HIDE DEF d, g
  <2>a. s \in Seq(Cell) /\ d \in Nat /\ Len(r) = Len(s) - d /\ Carries(s, f, l)
    BY <1>4, <1>5, <1>9
  <2>5. Carries(r, g, l)
    BY <1>8, <2>a, <2>3, <2>4, CarriesRest
  <2> QED
    BY <1>10, <1>11, <1>16, <2>1, <2>2, <2>5 DEF s, q, g
<1> QED
  BY <1>14, <1>15, <1>16

(* The client reads of a body what has arrived of it.                        *)
LEMMA ReadBodyKeeps ==
  ASSUME IInv, FileTransferAssumption, ~Gone, task # "none", disk # NoFile,
         NEW c \in ClientType, NEW h \in Cells, c.head = <<h>>, c.status = "open",
         c.file = client.file, Len(c.body) < h.n,
         NEW cells \in Seq(Cells), Len(cells) <= Room,
         Pipeline = (c.head \o c.body) \o (cells \o Unsent),
         ReadBody(c, cells), UNCHANGED <<disk, serverVars>>
  PROVE  IInv' /\ client'.status = "open" /\ Grows(client, client')
<1> USE DEF IInv
<1> DEFINE w    == h.n
           want == w - Len(c.body)
           n    == Min2(want, Len(cells))
           x    == SubSeq(cells, 1, n)
           rest == SubSeq(cells, n + 1, Len(cells))
           body == c.body \o x
<1>1. c.body \in Seq(Cells) /\ c.file \in Seq(1..MaxLength) /\ c.head[1] = h
  BY DEF ClientType
<1>2. h \in Cell /\ w \in Nat /\ Len(c.body) \in Nat /\ Len(cells) \in Nat /\ h.n = w
  BY <1>1, CellsAre, LenProperties DEF Cell
<1>3. want \in Nat /\ want >= 1 /\ n \in 0..Len(cells) /\ (n = want \/ (n < want /\ n = Len(cells)))
  BY <1>2 DEF Min2
<1>4. /\ toClient' = rest
      /\ IF n = want THEN Received(c, body)
         ELSE client' = [c EXCEPT !.body = body] /\ UNCHANGED toServer
  BY <1>1 DEF ReadBody
<1>5. UNCHANGED <<disk, task, fileLen, hasRead, buffer, call, out, writing, awaited>>
  BY DEF serverVars
<1>6. x \in Seq(Cells) /\ Len(x) = n /\ rest \in Seq(Cells) /\ Len(rest) = Len(cells) - n
      /\ x \o rest = cells
  <2>1. n \in 0..Len(cells)
    BY <1>3
  <2> HIDE DEF n
  <2> QED
    BY <2>1, Cut
<1>7. body \in Seq(Cells) /\ Len(body) = Len(c.body) + n
  BY <1>1, <1>6, ConcatProperties
<1>8. Unsent' = Unsent /\ Unsent \in Seq(Cell)
  BY <1>5, Typed DEF Unsent
<1>9. Len(rest) <= Room
  BY <1>2, <1>3, <1>6 DEF FileTransferAssumption
<1>10. BufferOK' /\ Fits' /\ Started'
  BY <1>5 DEF BufferOK, Fits, Started
<1>11. /\ x \in Seq(Cell) /\ rest \in Seq(Cell) /\ body \in Seq(Cell) /\ c.body \in Seq(Cell)
       /\ c.head \in Seq(Cell)
  <2>1. c.head \in Seq(Cell)
    BY <1>2
  <2> QED
    BY <1>1, <1>6, <1>7, <2>1, CellsAre, SeqMonotonic
<1> HIDE DEF n, x, rest
<1>12. Pipeline = (c.head \o body) \o (rest \o Unsent)
  <2> DEFINE hd == c.head
             cb == c.body
             u  == Unsent
  <2>1. hd \in Seq(Cell) /\ cb \in Seq(Cell) /\ u \in Seq(Cell)
        /\ x \in Seq(Cell) /\ rest \in Seq(Cell)
    BY <1>8, <1>11
  <2>2. Pipeline = (hd \o cb) \o ((x \o rest) \o u)
    BY <1>6
  <2>3. body = cb \o x
    OBVIOUS
  <2> HIDE DEF hd, cb, u, body
  <2>4. (hd \o cb) \o ((x \o rest) \o u) = (hd \o (cb \o x)) \o (rest \o u)
    <3>1. \A a1, b1, x1, r1, u1 \in Seq(Cell) :
            (a1 \o b1) \o ((x1 \o r1) \o u1) = (a1 \o (b1 \o x1)) \o (r1 \o u1)
      BY RegroupFive
    <3>2. \A u1 \in Seq(Cell) :
            (hd \o cb) \o ((x \o rest) \o u1) = (hd \o (cb \o x)) \o (rest \o u1)
      <4>1. \A x1, r1, u1 \in Seq(Cell) :
              (hd \o cb) \o ((x1 \o r1) \o u1) = (hd \o (cb \o x1)) \o (r1 \o u1)
        BY <2>1, <3>1
      <4>2. \A r1, u1 \in Seq(Cell) :
              (hd \o cb) \o ((x \o r1) \o u1) = (hd \o (cb \o x)) \o (r1 \o u1)
        BY <2>1, <4>1
      <4> QED
        BY <2>1, <4>2
    <3> QED
      BY <2>1, <3>2
  <2> QED
    BY <2>2, <2>3, <2>4 DEF hd, u
<1> HIDE DEF body
<1>13. Flows(client, Pipeline)
  BY DEF PipeOK
<1>14. CASE n # want
  <2>1. client' = [c EXCEPT !.body = body] /\ toServer' = toServer /\ toClient' = rest
    BY <1>4, <1>14
  <2>2. client' \in ClientType /\ client'.head = c.head /\ client'.body = body
        /\ client'.file = client.file /\ client'.status = "open"
    BY <1>7, <2>1 DEF ClientType
  <2>3. TypeOK'
    BY <1>5, <1>6, <1>9, <2>1, <2>2 DEF TypeOK, ClientType
  <2>4. Pipeline' = Pipeline
    BY <1>8, <1>12, <2>1, <2>2 DEF Pipeline
  <2>5. Len(body) < h.n
    BY <1>2, <1>3, <1>7, <1>14
  <2>6. PipeOK'
    BY <1>1, <1>5, <1>13, <2>2, <2>4, <2>5 DEF PipeOK, Flows, Halfway
  <2> QED
    BY <1>10, <2>2, <2>3, <2>6 DEF Grows
<1>15. CASE n = want
  <2> DEFINE r == rest \o Unsent
             f == Len(client.file) + 1
  <2>1. Len(body) = w /\ w >= 1
    BY <1>2, <1>3, <1>7, <1>15
  <2>2. Received(c, body) /\ toClient' = rest
    BY <1>4, <1>15
  <2>3. Pipeline = (<<h>> \o body) \o r
    BY <1>12
  <2>4. r \in Seq(Cell)
    BY <1>8, <1>11, ConcatProperties
  <2> HIDE DEF r
  <2>5. client.file \in Seq(1..MaxLength) /\ Len(client.file) \in Nat /\ hasRead \in Nat
        /\ hasRead <= MaxLength /\ hasRead <= fileLen /\ MaxLength \in Nat /\ fileLen \in Nat
    <3>1. client.file \in Seq(1..MaxLength)
      BY <1>1
    <3>2. hasRead \in 0..fileLen /\ fileLen \in Nat
      BY Typed DEF TypeOK
    <3>3. Len(client.file) \in Nat
      BY <3>1, LenProperties
    <3> QED
      BY <3>1, <3>2, <3>3 DEF Fits, FileTransferAssumption
  <2>6. f \in Nat /\ Framed((<<h>> \o body) \o r) /\ Carries((<<h>> \o body) \o r, f, hasRead)
        /\ Len(client.file) <= hasRead
        /\ \A i \in 1..Len(client.file) : client.file[i] = i
    <3>1. /\ Framed(Pipeline) /\ Carries(Pipeline, f, hasRead) /\ Len(client.file) <= hasRead
          /\ \A i \in 1..Len(client.file) : client.file[i] = i
      BY <1>13 DEF Flows
    <3>2. f \in Nat
      BY <2>5
    <3> HIDE DEF f
    <3> QED
      BY <2>3, <3>1, <3>2
  <2>7. /\ Framed(r)
        /\ Endless((<<h>> \o body) \o r) => Endless(r)
        /\ \/ /\ h.cmd = "LOGINRET" /\ body[1].kind = "LOGIN_RET"
              /\ Carries(r, f, hasRead)
           \/ /\ h.cmd = "VIDEO"
              /\ \A i \in 1..(w - 1) : body[i + 1].n = f + i - 1
              /\ w >= 2 => f + w - 2 <= hasRead
              /\ Carries(r, f + w - 1, hasRead)
    BY <1>2, <1>11, <2>1, <2>4, <2>5, <2>6, WholePacket
  <2>8. Endless(r) \/ (hasRead = fileLen /\ (call = "exit" \/ task = "deleted"))
    BY <1>13, <2>3, <2>7 DEF Flows
  <2> HIDE DEF want, w
  <2> DEFINE d == [c EXCEPT !.head = <<>>, !.body = <<>>]
  <2>9. d \in ClientType /\ d.head = <<>> /\ d.body = <<>> /\ d.status = "open"
        /\ d.file = client.file
    BY EmptySeq DEF ClientType
  <2>10. CASE h.cmd = "LOGINRET"
    <3>1. /\ client' = [d EXCEPT !.total = body[1].n]
          /\ toServer' = IF task = "deleted" THEN toServer ELSE Append(toServer, "start")
      BY <1>1, <2>2, <2>10 DEF Received
    <3>2. 1 \in 1..Len(body) /\ body[1].kind = "LOGIN_RET" /\ Carries(r, f, hasRead)
      BY <2>1, <2>7, <2>10
    <3>3. body[1] \in Cells
      BY <1>7, <3>2, ElementOfSeq
    <3>4. body[1].n \in 0..MaxLength
      BY <3>2, <3>3 DEF Cells, Head_, LoginRet, FileGet, Piece
    <3> DEFINE e == body[1].n
    <3>5. e \in 0..MaxLength /\ client' = [d EXCEPT !.total = e]
      BY <3>1, <3>4
    <3> HIDE DEF d, e
    <3>6. client' \in ClientType /\ client'.head = <<>> /\ client'.body = <<>>
          /\ client'.file = client.file /\ client'.status = "open"
      BY <2>9, <3>5 DEF ClientType
    <3>7. toServer' \in Seq({"get", "start"})
      <4>1. toServer \in Seq({"get", "start"})
        BY DEF TypeOK
      <4> QED
        BY <3>1, <4>1
    <3>8. TypeOK'
      BY <1>5, <1>6, <1>9, <2>2, <3>6, <3>7 DEF TypeOK, ClientType
    <3>9. Pipeline' = r
      <4>1. Pipeline' = (<<>> \o <<>>) \o (rest \o Unsent)
        BY <1>8, <2>2, <3>6 DEF Pipeline
      <4>2. <<>> \o <<>> = <<>> /\ <<>> \o r = r
        BY <2>4, Regroup
      <4> QED
        BY <4>1, <4>2 DEF r
    <3>10. PipeOK'
      BY <1>5, <2>6, <2>7, <2>8, <3>2, <3>6, <3>9 DEF PipeOK, Flows, Halfway
    <3> QED
      BY <1>10, <3>6, <3>8, <3>10 DEF Grows
  <2>11. CASE h.cmd = "VIDEO"
    <3> DEFINE k   == w - 1
               new == [i \in 1..(Len(body) - 1) |-> body[i + 1].n]
               m   == Len(client.file)
    <3>1. client' = [d EXCEPT !.file = client.file \o new] /\ toServer' = toServer
      BY <1>1, <2>2, <2>9, <2>11 DEF Received
    <3>2. /\ \A i \in 1..(w - 1) : body[i + 1].n = f + i - 1
          /\ w >= 2 => f + w - 2 <= hasRead
          /\ Carries(r, f + w - 1, hasRead)
      BY <2>7, <2>11
    <3>3. f = m + 1 /\ m \in Nat /\ m <= hasRead
      BY <2>5, <2>6
    <3>4. k \in Nat /\ m + k <= hasRead /\ f + w - 1 = m + k + 1 /\ m + k \in Nat
      BY <1>2, <2>1, <2>5, <3>2, <3>3
    <3>5. \A i \in 1..k : f + i - 1 = m + i
      BY <3>3
    <3>6. \A i \in 1..k : body[i + 1].n = m + i
      BY <3>2, <3>5
    <3>7. new = [i \in 1..k |-> m + i]
      BY <2>1, <3>6
    <3> HIDE DEF new, k, m
    <3> DEFINE file == client.file \o new
    <3>8. new \in Seq(1..MaxLength) /\ Len(new) = k /\ \A i \in 1..k : new[i] = m + i
      <4>1. \A i \in 1..k : m + i \in 1..MaxLength
        BY <2>5, <3>3, <3>4
      <4> QED
        BY <3>4, <3>7, <4>1
    <3>9. Len(client.file) = m
      BY DEF m
    <3>10. /\ file \in Seq(1..MaxLength) /\ Len(file) = m + k
           /\ \A i \in 1..(m + k) : file[i] = IF i <= m THEN client.file[i] ELSE new[i - m]
      <4>1. client.file \in Seq(1..MaxLength) /\ new \in Seq(1..MaxLength)
        BY <2>5, <3>8
      <4>2. /\ file \in Seq(1..MaxLength) /\ Len(file) = Len(client.file) + Len(new)
            /\ \A i \in 1..(Len(client.file) + Len(new)) :
                 file[i] = IF i <= Len(client.file) THEN client.file[i]
                           ELSE new[i - Len(client.file)]
        BY <4>1, ConcatProperties
      <4> HIDE DEF file
      <4> QED
        BY <3>8, <3>9, <4>2
    <3> HIDE DEF file
    <3>11. ASSUME NEW i \in 1..(m + k) PROVE file[i] = i
      <4>1. CASE i <= m
        <5>1. i \in 1..Len(client.file)
          BY <3>3, <3>9, <4>1
        <5>2. client.file[i] = i
          BY <2>6, <5>1
        <5>3. file[i] = client.file[i]
          BY <3>10, <4>1
        <5> QED
          BY <5>2, <5>3
      <4>2. CASE i > m
        <5>1. i - m \in 1..k /\ m + (i - m) = i
          BY <3>3, <3>4, <4>2
        <5>2. file[i] = new[i - m]
          <6>1. ~(i <= m)
            BY <3>3, <4>2
          <6> QED
            BY <3>10, <6>1
        <5>3. new[i - m] = m + (i - m)
          BY <3>8, <5>1
        <5> QED
          BY <5>1, <5>2, <5>3
      <4> QED
        BY <3>3, <4>1, <4>2
    <3> HIDE DEF d
    <3>12. client' = [d EXCEPT !.file = file]
      BY <3>1 DEF file
    <3>13. client' \in ClientType /\ client'.head = <<>> /\ client'.body = <<>>
           /\ client'.file = file /\ client'.status = "open"
      BY <2>9, <3>10, <3>12 DEF ClientType
    <3>14. TypeOK'
      BY <1>5, <1>6, <1>9, <2>2, <3>1, <3>13 DEF TypeOK, ClientType
    <3>15. Pipeline' = r
      <4>1. Pipeline' = (<<>> \o <<>>) \o (rest \o Unsent)
        BY <1>8, <2>2, <3>13 DEF Pipeline
      <4>2. <<>> \o <<>> = <<>> /\ <<>> \o r = r
        BY <2>4, Regroup
      <4> QED
        BY <4>1, <4>2 DEF r
    <3>16. Carries(r, Len(file) + 1, hasRead) /\ Len(file) <= hasRead
           /\ \A i \in 1..Len(file) : file[i] = i
      BY <3>2, <3>4, <3>10, <3>11
    <3>17. PipeOK'
      BY <1>5, <2>7, <2>8, <3>13, <3>15, <3>16 DEF PipeOK, Flows, Halfway
    <3>18. Grows(client, client')
      <4>1. CASE k = 0
        <5>1. new = <<>>
          BY <3>8, <4>1, EmptySeq
        <5> QED
          BY <2>5, <3>13, <5>1, ConcatEmptySeq DEF Grows, file
      <4>2. CASE k > 0
        <5>1. m + k \in 1..fileLen /\ m + k > m
          BY <2>5, <3>3, <3>4, <4>2
        <5>2. file = [i \in 1..(m + k) |-> i]
          BY <3>4, <3>10, <3>11
        <5> QED
          BY <3>9, <3>13, <5>1, <5>2 DEF Grows
      <4> QED
        BY <3>4, <4>1, <4>2
    <3> QED
      BY <1>10, <3>13, <3>14, <3>17, <3>18
  <2> QED
    BY <2>7, <2>10, <2>11
<1> QED
  BY <1>3, <1>14, <1>15

(* A command arrives, with or without its body.                              *)
LEMMA ReadsHeadKeeps ==
  ASSUME IInv, FileTransferAssumption, ClientReadsHead
  PROVE  IInv' /\ client'.status = "open" /\ Grows(client, client') /\ toClient # <<>>
<1> DEFINE h == Head(toClient)
           t == Tail(toClient)
           c == [client EXCEPT !.head = <<h>>]
           u == Unsent
<1>1. /\ ~Gone /\ client.head = <<>> /\ toClient # <<>> /\ h.n > 0
      /\ ReadBody(c, t) /\ UNCHANGED <<disk, serverVars>>
  BY DEF ClientReadsHead
<1>2. toClient \in Seq(Cells) /\ Len(toClient) <= Room /\ client \in ClientType
  BY DEF IInv, TypeOK, ClientType
<1>3. client.body = <<>>
  BY <1>1 DEF IInv, PipeOK, Halfway
<1>4. task # "none" /\ disk # NoFile
  BY <1>1 DEF IInv, Started
<1>5. h \in Cells /\ t \in Seq(Cells) /\ Len(t) = Len(toClient) - 1 /\ toClient = <<h>> \o t
  <2>1. h \in Cells /\ t \in Seq(Cells) /\ Len(t) = Len(toClient) - 1
    BY <1>1, <1>2, HeadTailProperties
  <2>2. toClient = <<h>> \o t
    BY <1>1, <1>2
  <2> QED
    BY <2>1, <2>2
<1>6. Len(t) <= Room
  <2>1. Len(toClient) \in Nat /\ Room \in Nat
    BY <1>2, LenProperties DEF FileTransferAssumption
  <2> QED
    BY <1>2, <1>5, <2>1
<1>7. h \in Cell /\ t \in Seq(Cell) /\ u \in Seq(Cell) /\ toClient \in Seq(Cell)
      /\ <<h>> \in Seq(Cell)
  <2>1. h \in Cell /\ t \in Seq(Cell) /\ toClient \in Seq(Cell)
    BY <1>2, <1>5, CellsAre, SeqMonotonic
  <2> QED
    BY <2>1, Typed DEF IInv
<1>8. Pipeline = (<<>> \o <<>>) \o (toClient \o u)
  BY <1>1, <1>3 DEF Pipeline
<1> HIDE DEF h, t, u
<1>9. c \in ClientType /\ c.head = <<h>> /\ c.body = <<>> /\ c.status = "open"
      /\ c.file = client.file
  BY <1>1, <1>2, <1>3, <1>5 DEF ClientType, Gone
<1>10. Pipeline = (c.head \o c.body) \o (t \o u)
  <2>1. (<<>> \o <<>>) \o (toClient \o u) = toClient \o u
    <3>1. toClient \o u \in Seq(Cell)
      BY <1>7, ConcatProperties
    <3>2. <<>> \o <<>> = <<>>
      BY <1>7, Regroup
    <3> QED
      BY <3>1, <3>2, ConcatEmptySeq
  <2>2. (<<h>> \o <<>>) \o (t \o u) = <<h>> \o (t \o u)
    BY <1>7, ConcatEmptySeq
  <2>3. (<<h>> \o t) \o u = <<h>> \o (t \o u)
    BY <1>7, ConcatAssociative, SMTT(30)
  <2> QED
    BY <1>5, <1>8, <1>9, <2>1, <2>2, <2>3
<1>11. Len(c.body) < h.n
  <2>1. Len(<<>>) = 0
    OBVIOUS
  <2> QED
    BY <1>1, <1>7, <1>9, <2>1 DEF Cell, h
<1> HIDE DEF c
<1> QED
  BY <1>1, <1>4, <1>5, <1>6, <1>9, <1>10, <1>11, ReadBodyKeeps DEF u

(* More of a body arrives.                                                   *)
LEMMA ReadsBodyKeeps ==
  ASSUME IInv, FileTransferAssumption, ClientReadsBody
  PROVE  IInv' /\ client'.status = "open" /\ Grows(client, client') /\ toClient # <<>>
<1>1. /\ ~Gone /\ client.head # <<>> /\ toClient # <<>>
      /\ ReadBody(client, toClient) /\ UNCHANGED <<disk, serverVars>>
  BY DEF ClientReadsBody
<1>2. toClient \in Seq(Cells) /\ Len(toClient) <= Room /\ client \in ClientType
  BY DEF IInv, TypeOK, ClientType
<1>3. task # "none" /\ disk # NoFile
  BY <1>1 DEF IInv, Started
<1>4. PICK h \in Cells : client.head = <<h>>
  BY <1>1, <1>2 DEF ClientType
<1>5. Len(client.body) < h.n /\ client.status = "open"
  BY <1>1, <1>4 DEF IInv, PipeOK, Halfway, Gone
<1>6. Pipeline = (client.head \o client.body) \o (toClient \o Unsent)
  BY DEF Pipeline
<1> QED
  BY <1>1, <1>2, <1>3, <1>4, <1>5, <1>6, ReadBodyKeeps

(* When the end arrives, everything else has.                                *)
LEMMA ReadsEndKeeps ==
  ASSUME IInv, FileTransferAssumption, ClientReadsEnd
  PROVE  /\ IInv' /\ client'.status = "end" /\ client'.file = client.file
         /\ client.status = "open" /\ client.file = [i \in 1..fileLen |-> i]
         /\ task # "none" /\ disk # NoFile
<1>1. /\ ~Gone /\ client.head = <<>> /\ toClient # <<>> /\ Head(toClient).n = 0
      /\ client' = [client EXCEPT !.status = "end"] /\ toClient' = <<>>
      /\ UNCHANGED <<disk, serverVars, toServer>>
  BY DEF ClientReadsEnd
<1>2. toClient \in Seq(Cells) /\ client \in ClientType
  BY DEF IInv, TypeOK, ClientType
<1>3. client' \in ClientType /\ client'.status = "end" /\ client'.file = client.file
      /\ client.status = "open"
  BY <1>1, <1>2 DEF ClientType, Gone
<1>4. task # "none" /\ disk # NoFile
  BY <1>1 DEF IInv, Started
<1>5. UNCHANGED <<disk, task, fileLen, hasRead, buffer, call, out, writing, awaited, toServer>>
  BY <1>1 DEF serverVars
<1>6. TypeOK'
  <2>1. toClient' \in Seq(Cells) /\ Len(toClient') <= Room
    <3>1. Len(<<>>) = 0 /\ 0 <= Room /\ <<>> \in Seq(Cells)
      BY EmptySeq DEF FileTransferAssumption
    <3> QED
      BY <1>1, <3>1
  <2> QED
    BY <1>3, <1>5, <2>1 DEF IInv, TypeOK, ClientType
<1>7. BufferOK' /\ Fits' /\ Started'
  BY <1>4, <1>5 DEF IInv, BufferOK, Fits, Started
<1>8. PipeOK'
  BY <1>3 DEF PipeOK, Gone
<1>9. client.file = [i \in 1..fileLen |-> i]
  <2>1. Flows(client, Pipeline) /\ client.body = <<>>
    BY <1>1 DEF IInv, PipeOK, Halfway
  <2> DEFINE s == Pipeline
             u == Unsent
  <2>2. s = (<<>> \o <<>>) \o (toClient \o u) /\ s \in Seq(Cell) /\ u \in Seq(Cell)
        /\ toClient \in Seq(Cell)
    BY <1>1, <2>1, Typed DEF Pipeline, IInv
  <2> HIDE DEF u
  <2>3. s = toClient \o u
    <3>1. toClient \o u \in Seq(Cell) /\ <<>> \o <<>> = <<>>
      BY <2>2, Regroup
    <3> QED
      BY <2>2, <3>1, ConcatEmptySeq
  <2>4. 1 \in 1..Len(toClient) /\ toClient[1] = Head(toClient)
    BY <1>1, <1>2
  <2>5. Len(s) = Len(toClient) + Len(u) /\ Len(toClient) \in Nat /\ Len(u) \in Nat
        /\ s[1] = toClient[1]
    BY <2>2, <2>3, <2>4, Joined
  <2> HIDE DEF s
  <2>6. Len(s) > 0 /\ 1 \in 1..Len(s) /\ s[1].n = 0
    BY <1>1, <2>4, <2>5
  <2>7. Framed(s) /\ Carries(s, Len(client.file) + 1, hasRead) /\ Len(client.file) <= hasRead
        /\ (\A i \in 1..Len(client.file) : client.file[i] = i)
        /\ (Endless(s) \/ hasRead = fileLen)
    BY <2>1 DEF Flows, s
  <2>8. s[1].kind = "NET_CMD" /\ Packet(s, 1)
    BY <2>6, <2>7 DEF Framed
  <2>9. s[1].cmd = "DATAEND"
    BY <2>6, <2>8 DEF Packet
  <2>10. Len(s) = 1
    BY <2>8, <2>9 DEF Packet
  <2>11. hasRead = fileLen
    BY <2>6, <2>7, <2>9 DEF Endless
  <2>12. client.file \in Seq(1..MaxLength) /\ hasRead \in Nat
    BY <1>2, Typed DEF ClientType, IInv
  <2>13. Len(client.file) \in Nat
    BY <2>12, LenProperties
  <2>14. Len(client.file) = hasRead
    <3>1. ASSUME Len(client.file) < hasRead PROVE FALSE
      <4>1. hasRead \in (Len(client.file) + 1)..hasRead
        BY <2>12, <2>13, <3>1
      <4>2. PICK i \in 1..Len(s) : s[i] = Piece(hasRead)
        BY <2>7, <4>1 DEF Carries
      <4>3. i = 1
        BY <2>10
      <4>4. s[1].kind = "piece"
        BY <4>2, <4>3, PieceIs
      <4> QED
        BY <2>8, <4>4
    <3> QED
      BY <2>7, <2>12, <2>13, <3>1
  <2> DEFINE file == client.file
  <2>15. file \in Seq(1..MaxLength) /\ Len(file) = fileLen /\ \A i \in 1..Len(file) : file[i] = i
    BY <2>7, <2>11, <2>12, <2>14
  <2> HIDE DEF file
  <2>16. file = [i \in 1..fileLen |-> i]
    <3>1. file = [i \in 1..Len(file) |-> file[i]]
      BY <2>15
    <3> QED
      BY <2>15, <3>1
  <2> QED
    BY <2>16 DEF file
<1> QED
  BY <1>3, <1>4, <1>6, <1>7, <1>8, <1>9 DEF IInv

(* The connection ends without the end, or the client leaves.                *)
LEMMA BreaksKeep ==
  ASSUME IInv, FileTransferAssumption, ClientReadsEof \/ ClientLeaves
  PROVE  /\ IInv' /\ client'.status \in {"eof", "left"} /\ client'.file = client.file
         /\ client.status = "open" /\ UNCHANGED <<disk, serverVars>>
<1>1. PICK z \in {"eof", "left"} :
        /\ ~Gone /\ client' = [client EXCEPT !.status = z] /\ toClient' = <<>>
        /\ UNCHANGED <<disk, serverVars, toServer>>
  BY DEF ClientReadsEof, ClientLeaves
<1>2. client \in ClientType
  BY DEF IInv, TypeOK, ClientType
<1>3. /\ client' \in ClientType /\ client'.status = z /\ client'.file = client.file
      /\ client'.head = client.head /\ client'.body = client.body /\ client.status = "open"
  BY <1>1, <1>2 DEF ClientType, Gone
<1>4. UNCHANGED <<disk, task, fileLen, hasRead, buffer, call, out, writing, awaited, toServer>>
  BY <1>1 DEF serverVars
<1>5. TypeOK'
  <2>1. toClient' \in Seq(Cells) /\ Len(toClient') <= Room
    <3>1. Len(<<>>) = 0 /\ 0 <= Room /\ <<>> \in Seq(Cells)
      BY EmptySeq DEF FileTransferAssumption
    <3> QED
      BY <1>1, <3>1
  <2> QED
    BY <1>3, <1>4, <2>1 DEF IInv, TypeOK, ClientType
<1>6. BufferOK' /\ Fits' /\ Started'
  BY <1>1, <1>3, <1>4 DEF IInv, BufferOK, Fits, Started
<1>7. PipeOK'
  BY <1>3 DEF PipeOK, Gone
<1> QED
  BY <1>1, <1>3, <1>5, <1>6, <1>7 DEF IInv

-----------------------------------------------------------------------------
(* The theorems. *)

(* At first nothing is under way.                                            *)
LEMMA InitIInv ==
  ASSUME Init, FileTransferAssumption PROVE IInv
<1>1. PICK slow \in BOOLEAN :
        client = [ slow |-> slow, status |-> "open", head |-> <<>>, body |-> <<>>,
                   total |-> 0, file |-> <<>> ]
  BY DEF Init
<1>2. /\ disk \in NoFile..MaxLength /\ task = "none" /\ fileLen = 0 /\ hasRead = 0
      /\ buffer = Reset /\ call = "none" /\ out = <<>> /\ writing = 0 /\ awaited = "none"
      /\ toServer = <<"get">> /\ toClient = <<>>
  BY DEF Init
<1>3. MaxLength \in Nat /\ LenMod \in Nat \ {0} /\ Room \in Nat
  BY DEF FileTransferAssumption
<1>4. <<>> \in Seq(Cells) /\ <<>> \in Seq(1..MaxLength) /\ Len(<<>>) = 0
  BY EmptySeq
<1>5. client \in ClientType /\ client.head = <<>> /\ client.body = <<>> /\ client.file = <<>>
  BY <1>1, <1>3, <1>4 DEF ClientType
<1>6. TypeOK
  BY <1>2, <1>3, <1>4, <1>5 DEF TypeOK, ClientType, Reset
<1>7. Fits /\ BufferOK /\ Started
  BY <1>2, <1>3, <1>5 DEF Fits, BufferOK, Started, Reset
<1>8. Pipeline = <<>>
  <2>1. <<>> \o <<>> = <<>>
    BY <1>4, ConcatEmptySeq
  <2> QED
    BY <1>2, <1>5, <2>1 DEF Pipeline, Unsent, Reset
<1>9. Flows(client, Pipeline) /\ Halfway(client)
  BY <1>2, <1>4, <1>5, <1>8 DEF Flows, Halfway, Framed, Carries, Endless
<1> QED
  BY <1>6, <1>7, <1>9 DEF IInv, PipeOK

(* Every step keeps the invariant.                                           *)
LEMMA NextIInv ==
  ASSUME IInv, FileTransferAssumption, [Next]_vars PROVE IInv'
<1>1. CASE UNCHANGED vars
  BY <1>1 DEF vars, serverVars, IInv, TypeOK, Fits, BufferOK, Started, PipeOK, Gone, Flows,
              Halfway, Pipeline, Unsent
<1>2. CASE Sending
  BY <1>2, SendSomeKeeps, SentKeeps, SendFailsKeeps, ExitKeeps DEF Sending
<1>3. CASE Writing
  BY <1>3, WritePacketKeeps, WriteRestKeeps, WriteEndKeeps DEF Writing
<1>4. CASE Reading \/ WriteTimeout \/ Truncate
  BY <1>4, ReadingKeeps, ReadGetKeeps DEF Reading
<1>5. CASE ClientReads \/ ClientLeaves
  BY <1>5, ReadsHeadKeeps, ReadsBodyKeeps, ReadsEndKeeps, BreaksKeep DEF ClientReads
<1> QED
  BY <1>1, <1>2, <1>3, <1>4, <1>5 DEF Next, Server

(* The invariant holds.                                                      *)
LEMMA Invariant == Spec => []IInv
<1>1. Init => IInv
  BY InitIInv, FileTransferAssumption
<1>2. IInv /\ [Next]_vars => IInv'
  BY NextIInv, FileTransferAssumption
<1> QED
  BY <1>1, <1>2, PTL DEF Spec

(* Every field of the tasks, their buffers and their messages keeps its type,*)
(* and no length exceeds the file's.                                         *)
THEOREM TypeCorrect == Spec => []TypeOK
<1>1. IInv => TypeOK
  BY DEF IInv
<1> QED
  BY <1>1, Invariant, PTL

(* Nothing is lost, doubled or reordered between the disk and the client, for*)
(* every file, packet length and socket: what writeBuffer has read of the    *)
(* file is in the client's file, in the packet it is receiving, in the socket*)
(* or in mSendBuffer, in order.                                              *)
THEOREM NoPieceIsLost == Spec => []EveryPieceIsSomewhere
<1>1. IInv => EveryPieceIsSomewhere
  BY DEF IInv, PipeOK, Flows, EveryPieceIsSomewhere
<1> QED
  BY <1>1, Invariant, PTL

(* The length the copy is of.                                                *)
Length == IF task = "none" \/ disk = NoFile THEN -1 ELSE fileLen
Status == CASE client.status = "open" -> "copying"
            [] client.status = "end"  -> "done"
            [] OTHER                  -> "broken"

(* A step that leaves the client alone leaves the copy alone.                *)
LEMMA ServerStutters ==
  ASSUME UNCHANGED <<client, Length>> PROVE UNCHANGED Copy!fileCopyVars
BY DEF Copy!fileCopyVars, Length

(* The server's steps are steps of the copy: ReadGet and ReadEof may fix the *)
(* length, the others change nothing.                                        *)
LEMMA ServerCopies ==
  ASSUME IInv, FileTransferAssumption, Server \/ WriteTimeout \/ Truncate
  PROVE  [Copy!Next]_Copy!fileCopyVars
<1>1. CASE ReadGet
  <2>1. task = "none" /\ task' = "sending" /\ fileLen' \in 0..MaxLength
        /\ disk' = disk /\ disk # NoFile /\ client' = client
    BY <1>1, ReadGetKeeps
  <2>2. Length = -1 /\ Length' = fileLen'
    BY <2>1 DEF Length, NoFile
  <2>3. Copy!Open
    BY <2>1, <2>2 DEF Copy!Open, Copy!Unknown, Length
  <2> QED
    BY <2>3 DEF Copy!Next
<1>2. CASE ReadEof
  <2>1. task' = "deleted" /\ UNCHANGED <<disk, fileLen, client>>
    BY <1>2 DEF ReadEof
  <2>2. CASE task = "none" /\ disk # NoFile
    <3>1. fileLen = 0
      BY <2>2 DEF IInv, Started
    <3>2. Length = -1 /\ Length' = 0
      BY <2>1, <2>2, <3>1 DEF Length, NoFile
    <3>3. Copy!Open
      BY <2>1, <3>2 DEF Copy!Open, Copy!Unknown, Length, FileTransferAssumption
    <3> QED
      BY <3>3 DEF Copy!Next
  <2>3. CASE ~(task = "none" /\ disk # NoFile)
    <3>1. Length' = Length
      BY <2>1, <2>3 DEF Length
    <3> QED
      BY <2>1, <3>1, ServerStutters
  <2> QED
    BY <2>2, <2>3
<1>3. CASE ReadNoFile
  BY <1>3, ServerStutters DEF ReadNoFile, Length
<1>4. CASE Truncate
  <2>1. disk # NoFile /\ disk' # NoFile
    BY <1>4 DEF Truncate, NoFile, IInv, TypeOK, FileTransferAssumption
  <2> QED
    BY <1>4, <2>1, ServerStutters DEF Truncate, serverVars, Length
<1>5. CASE Exit
  <2>1. task # "none" /\ task' # "none" /\ UNCHANGED <<disk, fileLen, client>>
    BY <1>5 DEF Exit, IInv, BufferOK
  <2> QED
    BY <2>1, ServerStutters DEF Length
<1>6. CASE SendSome \/ Sent \/ SendFails \/ Writing \/ ReadHead \/ ReadStart \/ WriteTimeout
  <2>1. UNCHANGED <<task, disk, fileLen, client>>
    BY <1>6 DEF SendSome, Sent, SendFails, Writing, WritePacket, WriteRest, WriteEnd, Begin,
                ReadHead, ReadStart, WriteTimeout
  <2> QED
    BY <2>1, ServerStutters DEF Length
<1> QED
  BY <1>1, <1>2, <1>3, <1>4, <1>5, <1>6 DEF Server, Sending, Reading

(* The client's steps are: a packet extends the copy, DATAEND finishes it.   *)
LEMMA ClientCopies ==
  ASSUME IInv, FileTransferAssumption, ClientReads \/ ClientLeaves
  PROVE  [Copy!Next]_Copy!fileCopyVars
<1>1. UNCHANGED <<disk, task, fileLen>>
  BY DEF ClientReads, ClientReadsHead, ClientReadsEnd, ClientReadsBody, ClientReadsEof,
         ClientLeaves, serverVars
<1>2. Length' = Length
  BY <1>1 DEF Length
<1>3. CASE ClientReadsHead \/ ClientReadsBody
  <2>1. /\ client'.status = "open" /\ Grows(client, client') /\ toClient # <<>>
        /\ client.status = "open"
    BY <1>3, ReadsHeadKeeps, ReadsBodyKeeps DEF ClientReadsHead, ClientReadsBody, Gone
  <2>2. Length = fileLen
    BY <2>1 DEF IInv, Started, Length
  <2>3. Status = "copying" /\ Status' = "copying"
    BY <2>1 DEF Status
  <2>4. CASE client'.file = client.file
    BY <1>2, <2>3, <2>4 DEF Copy!fileCopyVars, Length, Status
  <2>5. CASE \E n \in 1..fileLen :
               n > Len(client.file) /\ client'.file = [i \in 1..n |-> i]
    <3>1. Copy!Extend
      BY <1>2, <2>2, <2>3, <2>5 DEF Copy!Extend, Copy!Prefix, Length, Status
    <3> QED
      BY <3>1 DEF Copy!Next
  <2> QED
    BY <2>1, <2>4, <2>5 DEF Grows
<1>4. CASE ClientReadsEnd
  <2>1. /\ client'.status = "end" /\ client'.file = client.file /\ client.status = "open"
        /\ client.file = [i \in 1..fileLen |-> i] /\ task # "none" /\ disk # NoFile
    BY <1>4, ReadsEndKeeps
  <2>2. Length = fileLen /\ fileLen \in Nat /\ Status = "copying" /\ Status' = "done"
    BY <2>1, Typed DEF Length, Status, IInv
  <2>3. Copy!Finish
    BY <1>2, <2>1, <2>2 DEF Copy!Finish, Copy!Prefix, Copy!Unknown, Length, Status
  <2> QED
    BY <2>3 DEF Copy!Next
<1>5. CASE ClientReadsEof \/ ClientLeaves
  <2>1. /\ client'.status \in {"eof", "left"} /\ client'.file = client.file
        /\ client.status = "open"
    BY <1>5, BreaksKeep
  <2>2. Status = "copying" /\ Status' = "broken"
    BY <2>1 DEF Status
  <2>3. Copy!Break
    BY <1>2, <2>1, <2>2 DEF Copy!Break, Length, Status
  <2> QED
    BY <2>3 DEF Copy!Next
<1> QED
  BY <1>3, <1>4, <1>5 DEF ClientReads

(* The transfer of TaskFileSend and TaskFileRecv is a FileCopy: for every     *)
(* file and every way its packets are cut, the client's file is a prefix of  *)
(* what the server announced, and DATAEND ends it only when it is whole.     *)
THEOREM TransferIsCopy == Spec => CopiesTheFile
<1>1. Init => Copy!Init
  BY DEF Init, Copy!Init, Copy!Unknown, NoFile
<1>2. IInv /\ [Next]_vars => [Copy!Next]_Copy!fileCopyVars
  <2> SUFFICES ASSUME IInv, [Next]_vars PROVE [Copy!Next]_Copy!fileCopyVars
    OBVIOUS
  <2>1. CASE UNCHANGED vars
    BY <2>1 DEF vars, serverVars, Copy!fileCopyVars
  <2>2. CASE Server \/ WriteTimeout \/ Truncate
    BY <2>2, ServerCopies, FileTransferAssumption
  <2>3. CASE ClientReads \/ ClientLeaves
    BY <2>3, ClientCopies, FileTransferAssumption
  <2> QED
    BY <2>1, <2>2, <2>3 DEF Next
<1> QED
  BY <1>1, <1>2, Invariant, PTL DEF Spec, CopiesTheFile, Copy!Spec
=============================================================================
