-------------------------------- MODULE Annexb --------------------------------
(***************************************************************************)
(* How the sender cuts an H.264 file into NAL units: GetAnnexbNALU of        *)
(* common/NalBareflow/NALDecoder.cpp, called in the loop of                  *)
(* EventClient/TcpSender.cpp.  A unit follows a start code, 00 00 01 or      *)
(* 00 00 00 01, and ends where the next one begins; the function reads a     *)
(* start code too far and moves back.                                        *)
(***************************************************************************)
EXTENDS Integers, FiniteSetsExt, SequencesExt

CONSTANTS
  Bytes,   \* the values of a byte: 0, 1 and the others
  MaxLen   \* the longest file

\* Assumed of the constants; the module that gives them values states it.
AnnexbRange == {0, 1} \subseteq Bytes /\ MaxLen \in Nat

VARIABLES
  file,  \* the bytes of the file
  pos,   \* the bytes before its position
  eof,   \* feof(file)
  sent,  \* the units sent
  done   \* the loop is left

vars == <<file, pos, eof, sent, done>>

Init ==
  /\ file \in UNION {[1..n -> Bytes] : n \in 0..MaxLen}
  /\ pos = 0 /\ eof = FALSE /\ sent = <<>> /\ done = FALSE
-----------------------------------------------------------------------------
\* FindStartCode2 and FindStartCode3, for the bytes that end at p.
StartCode2(f, p) == p \in 3..Len(f) /\ SubSeq(f, p - 2, p) = <<0, 0, 1>>
StartCode3(f, p) == p \in 4..Len(f) /\ SubSeq(f, p - 3, p) = <<0, 0, 0, 1>>

\* The length of the start code that begins after position p, 0 if none does.
CodeLength(f, p) == IF StartCode2(f, p + 3) THEN 3
                    ELSE IF StartCode3(f, p + 4) THEN 4 ELSE 0

\* Where the start codes after s end: each byte from s + 1 on is read and the
\* last bytes of the unit's buffer are compared.
Ends(f, s) == {p \in (s + 1)..Len(f) : StartCode3(f, p) \/ StartCode2(f, p)}

\* The value returned, the length of the code, the unit and the new position.
NALU(size, unit, p, atEnd) == [size |-> size, unit |-> unit, pos |-> p, eof |-> atEnd]

\* Mutant of GetAnnexbNALU: it always moves back by three bytes.
GetAnnexbNALUBack3(f, p) ==
  LET code == CodeLength(f, p)
      s    == p + code
  IN  IF Len(f) - p < 3 \/ (code # 3 /\ Len(f) - p < 4)
      THEN NALU(0, <<>>, Len(f), TRUE)
      ELSE IF code = 0 THEN NALU(-1, <<>>, p + 4, FALSE)
      ELSE IF Ends(f, s) = {}
           THEN NALU(Len(f) - p, SubSeq(f, s + 1, Len(f)), Len(f), TRUE)
           ELSE LET e == Min(Ends(f, s)) - 3
                IN  NALU(e - p, SubSeq(f, s + 1, e), e, FALSE)

\* Mutant of GetAnnexbNALU: the bytes of a short read are given back.
GetAnnexbNALUGivesBack(f, p) ==
  LET code == CodeLength(f, p)
      s    == p + code
  IN  IF Len(f) - p < 3 \/ (code # 3 /\ Len(f) - p < 4)
      THEN NALU(0, <<>>, p, FALSE)
      ELSE IF code = 0 THEN NALU(-1, <<>>, p + 4, FALSE)
      ELSE IF Ends(f, s) = {}
           THEN NALU(Len(f) - p, SubSeq(f, s + 1, Len(f)), Len(f), TRUE)
           ELSE LET e == Min(Ends(f, s)) - (IF StartCode3(f, Min(Ends(f, s))) THEN 4 ELSE 3)
                IN  NALU(e - p, SubSeq(f, s + 1, e), e, FALSE)

\* At a position p that is not at the end: no bytes for a code (0), no code
\* (-1, its four bytes are skipped), the last unit, or a unit and the next code.
GetAnnexbNALU(f, p) ==
  LET code == CodeLength(f, p)
      s    == p + code
  IN  IF Len(f) - p < 3 \/ (code # 3 /\ Len(f) - p < 4)
      THEN NALU(0, <<>>, Len(f), TRUE)
      ELSE IF code = 0 THEN NALU(-1, <<>>, p + 4, FALSE)
      ELSE IF Ends(f, s) = {}
           THEN NALU(Len(f) - p, SubSeq(f, s + 1, Len(f)), Len(f), TRUE)
           ELSE LET last == Min(Ends(f, s))
                    e    == last - (IF StartCode3(f, last) THEN 4 ELSE 3)
                IN  NALU(e - p, SubSeq(f, s + 1, e), e, FALSE)

\* One turn of the loop of TcpSender::Thread: a result below four is not sent.
SendNALU ==
  LET n == GetAnnexbNALU(file, pos) IN
    /\ ~done /\ ~eof
    /\ pos' = n.pos /\ eof' = n.eof
    /\ sent' = IF n.size < 4 THEN sent ELSE Append(sent, n.unit)
    /\ UNCHANGED <<file, done>>

EndOfFile ==
  /\ ~done /\ eof
  /\ done' = TRUE
  /\ UNCHANGED <<file, pos, eof, sent>>

Next == SendNALU \/ EndOfFile

Spec == Init /\ [][Next]_vars /\ WF_vars(Next)
-----------------------------------------------------------------------------
(* The reference: the units of a file are what lies between its start codes; *)
(* a zero byte before 00 00 01 belongs to the code.                          *)
Codes(f) == {p \in 1..Len(f) : StartCode2(f, p)}
UnitAfter(f, p) ==
  LET later == {q \in Codes(f) : q > p}
      next  == Min(later)
      zero  == next - 3 > p /\ f[next - 3] = 0
  IN  SubSeq(f, p + 1, IF later = {} THEN Len(f)
                       ELSE IF zero THEN next - 4 ELSE next - 3)
Long(f, p) == p > 3 /\ f[p - 3] = 0
\* The loop drops an empty unit after a code of three bytes.
Kept(f, p) == UnitAfter(f, p) # <<>> \/ Long(f, p)
KeptCodes(f) == {p \in Codes(f) : Kept(f, p)}
\* How many of the numbers in S are at most p.
Rank(S, p) == Cardinality({q \in S : q <= p})
Units(f) ==
  [i \in 1..Cardinality(KeptCodes(f)) |->
     UnitAfter(f, CHOOSE p \in KeptCodes(f) : Rank(KeptCodes(f), p) = i)]

Starts(f) == CodeLength(f, 0) > 0

(* A file that begins with a start code is cut into its units: each is sent  *)
(* once, whole, in order and without its code; moving back after the next    *)
(* code never loses, doubles or joins units.                                 *)
SendsTheUnits ==
  Starts(file) => IF done THEN sent = Units(file) ELSE IsPrefix(sent, Units(file))

(* The loop of TcpSender::Thread, which goes on after a result below four,   *)
(* comes to the end of every file, also of one that has no start code.       *)
ReachesTheEnd == <>done
=============================================================================
