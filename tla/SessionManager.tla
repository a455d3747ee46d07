---------------------------- MODULE SessionManager ----------------------------
(***************************************************************************)
(* SessionManager of EventServer/Session.cpp: the table that maps the      *)
(* descriptor of a connection to its Session, and counts the sessions.     *)
(* Descriptors are cut to a uint16_t key; rows of the table are allocated  *)
(* by the first put; the sequence number of an entry wraps.                *)
(***************************************************************************)
EXTENDS Integers

CONSTANTS
  Sessions,   \* addresses of Session objects
  NoSession,  \* a null Session pointer
  KeySpace,   \* number of keys, 2^16 in the code
  RowSize,    \* entries per row, 1024 in the code
  SeqMod      \* number of sequence numbers, 2^16 in the code

ASSUME ManagerAssumption ==
  /\ NoSession \notin Sessions
  /\ KeySpace \in Nat \ {0}
  /\ RowSize \in Nat \ {0}
  /\ SeqMod \in Nat \ {0, 1}

Keys == 0..(KeySpace - 1)
Rows == 0..((KeySpace - 1) \div RowSize)

KeyOf(f) == f % KeySpace
RowOf(k) == k \div RowSize

ManagerType ==
  [ session : [Keys -> Sessions \cup {NoSession}],
    seq     : [Keys -> 0..(SeqMod - 1)],
    rows    : SUBSET Rows,
    count   : Int ]

EmptyManager ==
  [ session |-> [k \in Keys |-> NoSession],
    seq     |-> [k \in Keys |-> 0],
    rows    |-> {},
    count   |-> 0 ]

put(m, k, s) ==
  [m EXCEPT !.session[k] = s, !.rows = @ \cup {RowOf(k)}, !.count = @ + 1]

\* The sequence number put and get hand out: 0 while the row is missing.
get_seq(m, k) == IF RowOf(k) \in m.rows THEN m.seq[k] ELSE 0

\* Mutant of remove: the number is kept in a wider integer.
remove_wide_seq(m, k) ==
  IF RowOf(k) \in m.rows
  THEN [m EXCEPT !.session[k] = NoSession, !.seq[k] = @ + 1, !.count = @ - 1]
  ELSE m

\* Mutant of remove: mCount is not counted down.
remove_no_count(m, k) ==
  IF RowOf(k) \in m.rows
  THEN [m EXCEPT !.session[k] = NoSession, !.seq[k] = (@ + 1) % SeqMod]
  ELSE m

\* remove counts down and advances the number even when the entry is empty.
remove(m, k) ==
  IF RowOf(k) \in m.rows
  THEN [m EXCEPT !.session[k] = NoSession,
                 !.seq[k]     = (@ + 1) % SeqMod,
                 !.count      = @ - 1]
  ELSE m
=============================================================================
