------------------------------- MODULE FileCopy -------------------------------
(***************************************************************************)
(* What a file transfer promises, whatever its messages: the copy is a      *)
(* prefix of the source at every moment, it only grows, and the transfer is *)
(* reported done only when the copy is whole.  The source is fixed by its   *)
(* length when it is opened; a piece of a file is its position.             *)
(***************************************************************************)
EXTENDS Integers, Sequences

CONSTANT MaxLength

VARIABLES
  length,  \* of the source, Unknown until it is opened
  copy,    \* the pieces that have arrived
  status   \* "copying", "done" or "broken"

fileCopyVars == <<length, copy, status>>

Unknown == -1
Prefix(n) == [i \in 1..n |-> i]

Init == length = Unknown /\ copy = <<>> /\ status = "copying"

Open ==
  /\ length = Unknown
  /\ length' \in 0..MaxLength
  /\ UNCHANGED <<copy, status>>

Extend ==
  /\ status = "copying"
  /\ \E n \in 1..length : n > Len(copy) /\ copy' = Prefix(n)
  /\ UNCHANGED <<length, status>>

Finish ==
  /\ status = "copying" /\ length # Unknown /\ copy = Prefix(length)
  /\ status' = "done"
  /\ UNCHANGED <<length, copy>>

Break ==
  /\ status = "copying" /\ status' = "broken"
  /\ UNCHANGED <<length, copy>>

Next == Open \/ Extend \/ Finish \/ Break

Spec == Init /\ [][Next]_fileCopyVars
=============================================================================
