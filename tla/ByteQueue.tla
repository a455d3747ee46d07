------------------------------- MODULE ByteQueue -------------------------------
(***************************************************************************)
(* What event buffers promise: each is a queue of bytes, and a call answers *)
(* with bytes from the front of it, or with a place in it.                  *)
(***************************************************************************)
EXTENDS Naturals, Sequences

CONSTANTS
  Caches,   \* the buffers
  CR, LF,   \* the bytes that end a line
  Input,    \* the sequences of bytes a call may add
  Failed    \* the answer of a call that returns none

VARIABLES
  bytes,   \* the bytes of each buffer
  answer   \* what the last call returned

queueVars == <<bytes, answer>>

Init == bytes = [c \in Caches |-> <<>>] /\ answer = Failed

Prefix(s, n) == SubSeq(s, 1, n)
Rest(s, n) == SubSeq(s, n + 1, Len(s))

Put(c) == \E s \in Input : bytes' = [bytes EXCEPT ![c] = @ \o s] /\ answer' = [length |-> Len(s)]

\* The first n bytes leave the buffer.
Get(c) == \E n \in 0..Len(bytes[c]) :
            /\ bytes' = [bytes EXCEPT ![c] = Rest(@, n)]
            /\ answer' = [data |-> Prefix(bytes[c], n)]

\* The bytes before the first end of line, which leaves the buffer with them;
\* CR LF and LF CR are one end.
Line(c) ==
  \E n \in 1..Len(bytes[c]) :
    LET more == /\ n < Len(bytes[c])
                /\ {bytes[c][n], bytes[c][n + 1]} = {CR, LF}
    IN  /\ bytes[c][n] \in {CR, LF}
        /\ \A i \in 1..(n - 1) : bytes[c][i] \notin {CR, LF}
        /\ bytes' = [bytes EXCEPT ![c] = Rest(@, IF more THEN n + 1 ELSE n)]
        /\ answer' = [data |-> Prefix(bytes[c], n - 1)]

Peek(c) == answer' = [data |-> bytes[c]] /\ UNCHANGED bytes

\* Where what occurs first in s, 0 when it does not.
FirstOccurrence(what, s) ==
  LET places == { p \in 1..Len(s) : p + Len(what) - 1 <= Len(s)
                                    /\ SubSeq(s, p, p + Len(what) - 1) = what }
  IN  IF places = {} THEN 0 ELSE CHOOSE p \in places : \A q \in places : p <= q

Find(c) == \E what \in Input \ {<<>>} :
             answer' = [place |-> FirstOccurrence(what, bytes[c])] /\ UNCHANGED bytes

Move(from, to) ==
  /\ bytes' = [bytes EXCEPT ![to] = @ \o bytes[from], ![from] = <<>>]
  /\ answer' = [moved |-> TRUE]

Copy(from, to) ==
  /\ bytes' = [bytes EXCEPT ![to] = @ \o bytes[from]]
  /\ answer' = [length |-> Len(bytes[from])]

Replace(from, to) ==
  /\ bytes' = [bytes EXCEPT ![to] = bytes[from], ![from] = <<>>]
  /\ answer' = [moved |-> TRUE]

Fail == answer' = Failed /\ UNCHANGED bytes

\* A call that fails may still lose bytes from the front.
Lose(c) == \E n \in 0..Len(bytes[c]) :
             bytes' = [bytes EXCEPT ![c] = Rest(@, n)] /\ answer' = Failed

Next == \/ \E c \in Caches : Put(c) \/ Get(c) \/ Line(c) \/ Peek(c) \/ Find(c) \/ Lose(c)
        \/ \E c, d \in Caches : c # d /\ (Move(c, d) \/ Copy(c, d) \/ Replace(c, d))
        \/ Fail

Spec == Init /\ [][Next]_queueVars
=============================================================================
