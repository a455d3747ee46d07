-------------------------------- MODULE MCBytes --------------------------------
(***************************************************************************)
(* Model checking of the two components that work on single bytes: the cut  *)
(* of a file into NAL units (Annexb) and the event buffers (EvBuffer).       *)
(* They share no state.  One instance checks both: the buffers are used in   *)
(* the behaviours whose file is empty, once its loop is left.                *)
(***************************************************************************)
EXTENDS EvBuffer

CONSTANTS
  FileBytes,  \* the bytes of the files
  MaxFile     \* the longest file

VARIABLES file, pos, eof, sent, done

A == INSTANCE Annexb WITH Bytes <- FileBytes, MaxLen <- MaxFile

\* Annexb's assumption, for the values given here.
ASSUME FileAssumption == A!AnnexbRange

fileVars == <<file, pos, eof, sent, done>>

MCInit == A!Init /\ Init

MCNext ==
  \/ A!Next /\ UNCHANGED vars
  \/ file = <<>> /\ done /\ Next /\ UNCHANGED fileVars

MCSpec == MCInit /\ [][MCNext]_<<fileVars, vars>> /\ WF_fileVars(A!Next /\ UNCHANGED vars)

\* The units of a file and the end of its loop, as Annexb states them.
SendsTheUnits == A!SendsTheUnits
ReachesTheEnd == A!ReachesTheEnd
=============================================================================
