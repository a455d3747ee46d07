------------------------------- MODULE EvBuffer -------------------------------
(***************************************************************************)
(* The event buffers (EventServer/net/buffer.c) and the BufferCache made of *)
(* one (EventServer/BufferCache.cpp): a block of memory whose bytes in use  *)
(* start after the misalign bytes that were drained and are off long.  One  *)
(* thread uses a buffer; the callback cb of a buffer is not set by its      *)
(* users.  realloc, malloc, read and write may fail.                        *)
(***************************************************************************)
EXTENDS Integers, Sequences, FiniteSetsExt

CONSTANTS
  Caches,   \* the buffers
  Bytes,    \* the bytes that are added
  MinLen,   \* the least memory of a buffer, 256 in the code
  MaxRead,  \* EVBUFFER_MAX_READ
  MaxLen,   \* bound: the memory of all buffers
  MaxAdd    \* bound: bytes added, or waiting to be read, at once

ASSUME EvBufferAssumption ==
  /\ Bytes \subseteq 2..255
  /\ MinLen \in Nat \ {0} /\ MaxRead \in Nat \ {0}
  /\ MaxLen \in Nat /\ MaxAdd \in Nat

VARIABLES
  buf,     \* the evbuffer of each cache; Len(mem) is its totallen
  answer   \* what the last call returned, for ByteQueue

vars == <<buf, answer>>

NUL == 0        \* the byte getBuffer writes
Junk == 1       \* what malloc leaves in memory; neither is in Bytes
CR == 13
LF == 10
Failed == [failed |-> TRUE]
Input == UNION { [1..n -> Bytes] : n \in 0..MaxAdd }
-----------------------------------------------------------------------------
(* The operations, as functions of the buffer *)

evbuffer_new == [mem |-> <<>>, misalign |-> 0, off |-> 0]

Data(b) == SubSeq(b.mem, b.misalign + 1, b.misalign + b.off)

evbuffer_align(b) ==
  [b EXCEPT !.mem = [i \in 1..Len(b.mem) |-> IF i <= b.off THEN b.mem[b.misalign + i] ELSE b.mem[i]],
            !.misalign = 0]

\* The shortest of length, 2 length, 4 length, ... that is at least need.
Doubled(length, need) ==
  LET grown[l \in Nat \ {0}] == IF l >= need THEN l ELSE grown[2 * l] IN grown[length]

Larger(b, length) ==
  [b EXCEPT !.mem = [i \in 1..length |-> IF i <= Len(b.mem) THEN b.mem[i] ELSE Junk]]

NeedsRealloc(b, datlen) ==
  b.misalign + b.off + datlen > Len(b.mem) /\ b.misalign < datlen

\* Mutant of evbuffer_expand: an alignment is taken to be enough.
evbuffer_expandAligns(b, datlen) ==
  LET need == b.misalign + b.off + datlen IN
    IF Len(b.mem) >= need THEN b
    ELSE IF b.misalign > 0 THEN evbuffer_align(b)
    ELSE Larger(evbuffer_align(b), Doubled(IF Len(b.mem) < MinLen THEN MinLen ELSE Len(b.mem), need))

evbuffer_expand(b, datlen) ==
  LET need == b.misalign + b.off + datlen IN
    IF Len(b.mem) >= need THEN b
    ELSE IF b.misalign >= datlen THEN evbuffer_align(b)
    ELSE Larger(evbuffer_align(b), Doubled(IF Len(b.mem) < MinLen THEN MinLen ELSE Len(b.mem), need))

Appended(b, s) ==
  LET at == b.misalign + b.off IN
    [b EXCEPT !.mem = [i \in 1..Len(b.mem) |-> IF i \in (at + 1)..(at + Len(s)) THEN s[i - at] ELSE b.mem[i]],
              !.off = @ + Len(s)]

evbuffer_add(b, s) == Appended(evbuffer_expand(b, Len(s)), s)

evbuffer_drain(b, len) ==
  IF len >= b.off THEN [b EXCEPT !.off = 0, !.misalign = 0]
                  ELSE [b EXCEPT !.off = @ - len, !.misalign = @ + len]

LineEnds(d) == { i \in 1..Len(d) : d[i] \in {CR, LF} }
FirstEnd(d) == CHOOSE i \in LineEnds(d) : \A j \in LineEnds(d) : i <= j
LineLength(d) ==
  LET i == FirstEnd(d) IN
    IF i < Len(d) /\ d[i + 1] \in {CR, LF} /\ d[i + 1] # d[i] THEN i + 1 ELSE i

\* How much a read of howmuch bytes (-1: any number) asks for when n are waiting.
Asked(b, howmuch, n) ==
  LET limit == IF n > Len(b.mem) * 4 THEN Len(b.mem) * 4 ELSE n
      most  == IF n = 0 THEN MaxRead
               ELSE IF n <= MaxRead \/ n <= howmuch THEN n
               ELSE IF limit < MaxRead THEN MaxRead ELSE limit
  IN  IF howmuch < 0 \/ howmuch > most THEN most ELSE howmuch

\* Mutant of Place: evbuffer_find's search, which compares what lies behind
\* the data as well.
PlaceBeyond(b, what) ==
  LET at(i)  == b.mem[b.misalign + i]
      fits(p) == b.misalign + p + Len(what) - 1 <= Len(b.mem)
      find[start \in 1..(b.off + 1)] ==
        LET remain == b.off - (start - 1)
            heads  == { p \in start..b.off : at(p) = what[1] }
            p      == CHOOSE q \in heads : \A r \in heads : q <= r
        IN  IF heads = {} \/ remain < Len(what) THEN 0
            ELSE IF fits(p) /\ \A i \in 1..Len(what) : at(p + i - 1) = what[i] THEN p
            ELSE find[p + 1]
  IN  find[1]

\* The search of BufferCache::find: the next byte like the first one of what,
\* in the places from which what would still be inside the data.
Place(b, what) ==
  LET at(i) == b.mem[b.misalign + i]
      find[start \in 1..(b.off + 1)] ==
        LET remain == b.off - (start - 1)
            heads  == { p \in start..(start + remain - Len(what)) : at(p) = what[1] }
            p      == CHOOSE q \in heads : \A r \in heads : q <= r
        IN  IF remain < Len(what) \/ heads = {} THEN 0
            ELSE IF \A i \in 1..Len(what) : at(p + i - 1) = what[i] THEN p
            ELSE find[p + 1]
  IN  find[1]

\* The NUL that getBuffer writes after the data.  When the data end with the
\* block, it is written behind the block, where this module has no memory.
Terminated(b) ==
  LET at == b.misalign + b.off + 1 IN
    IF at <= Len(b.mem) THEN [b EXCEPT !.mem[at] = NUL] ELSE b
-----------------------------------------------------------------------------
(* The calls *)

Init == /\ buf = [c \in Caches |-> evbuffer_new]
        /\ answer = Failed

Bounded(bs) == MapThenSumSet(LAMBDA c : Len(bs[c].mem), Caches) <= MaxLen

Becomes(c, b) == buf' = [buf EXCEPT ![c] = b] /\ Bounded(buf')

append(c) == \E s \in Input :
               /\ Becomes(c, evbuffer_add(buf[c], s))
               /\ answer' = [length |-> Len(s)]

\* realloc fails, after the data were moved to the front.
appendFails(c) == \E n \in 1..MaxAdd :
                    /\ NeedsRealloc(buf[c], n)
                    /\ Becomes(c, evbuffer_align(buf[c]))
                    /\ answer' = Failed

erase(c) == \E n \in 0..MaxAdd :
              /\ Becomes(c, evbuffer_drain(buf[c], n))
              /\ answer' = Failed

reset(c) == /\ Becomes(c, evbuffer_drain(buf[c], buf[c].off))
            /\ answer' = Failed

evbuffer_remove(c) ==
  \E n \in 0..MaxAdd :
    LET nread == IF n >= buf[c].off THEN buf[c].off ELSE n IN
      /\ Becomes(c, evbuffer_drain(buf[c], nread))
      /\ answer' = [data |-> SubSeq(Data(buf[c]), 1, nread)]

getBuffer(c) == /\ Becomes(c, Terminated(buf[c]))
                /\ answer' = [data |-> Data(buf[c])]

getLine(c) ==
  LET d == Data(buf[c]) IN
    /\ LineEnds(d) # {}
    /\ Becomes(c, evbuffer_drain(buf[c], LineLength(d)))
    /\ answer' = [data |-> SubSeq(d, 1, FirstEnd(d) - 1)]

getLineNone(c) == LineEnds(Data(buf[c])) = {} /\ answer' = Failed /\ UNCHANGED buf

\* malloc fails: the line is drained, its end stays.
getLineFails(c) ==
  LET d == Data(buf[c]) IN
    /\ LineEnds(d) # {}
    /\ Becomes(c, evbuffer_drain(buf[c], FirstEnd(d) - 1))
    /\ answer' = Failed

find(c) == \E what \in Input \ {<<>>} :
             /\ answer' = [place |-> Place(buf[c], what)]
             /\ UNCHANGED buf

evbuffer_read(c) ==
  \E howmuch \in -1..MaxAdd, n \in 0..MaxAdd :
    LET asked == Asked(buf[c], howmuch, n) IN
      \E s \in Input :
        /\ Len(s) <= asked
        /\ Becomes(c, Appended(evbuffer_expand(buf[c], asked), s))
        /\ answer' = [length |-> Len(s)]

\* read returned -1.
evbuffer_readFails(c) ==
  \E howmuch \in -1..MaxAdd, n \in 0..MaxAdd :
    /\ Becomes(c, evbuffer_expand(buf[c], Asked(buf[c], howmuch, n)))
    /\ answer' = Failed

evbuffer_write(c) ==
  \E n \in 1..buf[c].off :
    /\ Becomes(c, evbuffer_drain(buf[c], n))
    /\ answer' = [data |-> SubSeq(Data(buf[c]), 1, n)]

evbuffer_writeFails == answer' = Failed /\ UNCHANGED buf

\* An empty buffer is given the other one's block, and that one its own.
add_bufferSwap(out, in) ==
  /\ buf[out].off = 0
  /\ buf' = [buf EXCEPT ![out] = buf[in], ![in] = buf[out]]
  /\ answer' = [moved |-> TRUE]

add_bufferAdd(out, in) ==
  LET to == evbuffer_add(buf[out], Data(buf[in])) IN
    /\ buf[out].off # 0
    /\ buf' = [buf EXCEPT ![out] = to, ![in] = evbuffer_drain(@, @.off)]
    /\ Bounded(buf')
    /\ answer' = [moved |-> TRUE]

add_bufferFails(out, in) ==
  /\ buf[out].off # 0
  /\ NeedsRealloc(buf[out], buf[in].off)
  /\ Becomes(out, evbuffer_align(buf[out]))
  /\ answer' = Failed

\* BufferCache::append of another cache: getBuffer terminates it first.
appendCache(c, other) ==
  LET from == Terminated(buf[other])
      to   == evbuffer_add(buf[c], Data(from))
  IN  /\ from.off > 0
      /\ buf' = [buf EXCEPT ![c] = to, ![other] = from]
      /\ Bounded(buf')
      /\ answer' = [length |-> from.off]

\* BufferCache::take: a cache that was deleted before is made again, with c's
\* buffer, and c gets a new one.
take(c, ret) ==
  /\ buf' = [buf EXCEPT ![ret] = buf[c], ![c] = evbuffer_new]
  /\ answer' = [moved |-> TRUE]

Next == \/ \E c \in Caches :
              \/ append(c) \/ appendFails(c) \/ erase(c) \/ reset(c)
              \/ evbuffer_remove(c) \/ getBuffer(c)
              \/ getLine(c) \/ getLineNone(c) \/ getLineFails(c) \/ find(c)
              \/ evbuffer_read(c) \/ evbuffer_readFails(c) \/ evbuffer_write(c)
        \/ evbuffer_writeFails
        \/ \E c, d \in Caches :
              /\ c # d
              /\ \/ add_bufferSwap(c, d) \/ add_bufferAdd(c, d) \/ add_bufferFails(c, d)
                 \/ appendCache(c, d) \/ take(c, d)

Spec == Init /\ [][Next]_vars
-----------------------------------------------------------------------------
(* Properties *)

\* The bytes in use are inside the block after any sequence of calls
\* (evbuffer_expand and evbuffer_drain, buffer.c lines 250-327).
InsideBlock == \A c \in Caches : buf[c].misalign + buf[c].off <= Len(buf[c].mem)

\* Every call does to the bytes what it would do to a queue of bytes, and
\* answers what the queue answers: no byte is lost, doubled or taken from
\* outside the data, however the block is moved, grown and swapped.
Queue == INSTANCE ByteQueue WITH bytes <- [c \in Caches |-> Data(buf[c])]

IsQueue == Queue!Spec
=============================================================================
