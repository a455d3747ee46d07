# GreatEvent: TLA+ models, checks and proofs

GreatEvent is a media server and its clients: an event loop (a fork of
libevent 1.1b) accepts TCP connections and calls a *task* for each of them,
which streams a video file to a player, or sends a file. Clients send a file
with a thread of their own, receive a file in an event loop of theirs, or play a
stream. This directory holds TLA+ modules of the parts that decide how
the program behaves, TLC configurations that check them, and proofs for TLAPS.

    tlc -workers 2 -config MCEventCall_one.cfg MCEventCall.tla
    tlapm --threads 2 EventCallProofs.tla

Paths below are those of the repository (`EventServer/...`, `common/...`).

## 1. Inventory

### The server's loop: `EventServer/net/event.c`, `epoll.c`
*State*: for every `struct event` its `ev_flags`, descriptor and result; the
timer tree, the list of inserted events and the active queue of the base; the
table `epollop.fds` (one read and one write event per descriptor); the kernel's
interest set, which the code does not see. *Operations*: `event_set`,
`event_add`, `event_del`, `event_active`, `epoll_add`, `epoll_del`,
`epoll_dispatch`, `timeout_process`, `event_process_active`,
`event_base_loop`. *Hard*: `event_set` resets the flags of an event that may be
linked; deleting one of two directions keeps the other; one batch activates
several events and the first callback may free the others; `close` drops the
kernel's registration and not the table's, and the number comes back with the
next `accept`. *Correct when*: flags and lists agree, table, lists and kernel
agree, nothing refers to freed memory.

### Callbacks, sessions and their manager: `EventCall.cpp`, `Session.cpp`, `TcpServer.cpp`
*State*: `Session` (`mSid`, `mReading`, `mWriting`, `mStatus`, `mTaskBase`) with
three events (read, write, timer); `SessionManager` (a table from a 16-bit key to
session and sequence number, `mCount`). *Operations*: `onAccept`, `onRead`,
`onWrite`, `onTimer`, `addEvent`; `put`, `get`, `remove`. *Hard*: `mReading` and
`mWriting` are the program's own shadow of what is linked; every path must arm
again what the loop has deleted; any path may end with the session deleted
while its other events are still in the batch. *Correct when*: no session is
deaf, none is forgotten, the manager counts what exists, heartbeats go on.

### Playback: `TaskPlayback.cpp`, `common/h264.h`; `PlayerClient/NetDataClient.cpp`
*State*: position in the file, `mFrameCount`, `mbSendingData`, `mSendBuffer`
(a half-sent packet), `mMsgQueue`; on the client the receive loop's parser.
*Operations*: login, `start`, `setpause`, `seek`, the heartbeat, `writeBuffer`;
reading a header and its payload. *Hard*: commands, heartbeats and
writes interleave; a packet takes two write events; the stream stops at every
`SEG_FRAME_COUNT` frames until the client asks for more; a resume does not arm
the write event. *Correct when*: frames are in order, stops are
announced, seeks are answered, framing survives, a resumed stream goes on.

### The player's threads: `PlayerClient/NetDataClient.cpp`, `PlayBackClient.cpp`
*State*: `m_mapWait` (index to the frame of a waiting call), `m_nIndex`, `m_cs`,
the event `m_evtQuit`, `m_bSignal`, `m_bSend`, `m_bPause`. *Operations*: `StartWork`,
`Seek` (`ExecCmd`), `SetPlayPause`, `CloseClient`, and the thread of `Work`, which
reads, waits four seconds, and reconnects. *Hard*: the map holds pointers to stack frames
of users' threads; a failed send erases its entry without the mutex; `Wait` is called
without the mutex it waits with; a close races with a reconnection. *Correct
when*: no waiter dangles, a close stops the reconnections, calls return.

### File transfer: `TaskFileSend.cpp`, `TaskFileRecv.cpp`, `TcpClient.cpp`
*State*: `mFileLen`, `mHasReadLen`, `mSendBuffer`; on the other side
`mRecvBuffer`, `mTotalLen`, the written file. *Hard*: partial reads and
writes, the file shortened while it is sent, a client that leaves or
stops reading. *Correct when*: the copy is always a prefix of the
source, and is whole when the end is announced; a transfer ends.

### The life of the server: `ActorStation.cpp`, `EventCall.cpp` (`EventArg`), `NativeApi.cpp`
*State*: `mIsRunning`, `mIsShutdown`, `mEventBase`, the global `current_base`, the
timer of `event_loopexit`, signal events. *Operations*: `StartNetWork`,
`StartServer`, `StopServer`, `StopNetWork`, the loop's thread `start()`, SIGINT
and SIGTERM. *Hard*: two threads and a signal handler over plain
variables; `mIsRunning`, which only the new thread sets, so that a start in between is
not noticed; a base that is freed and not reset; a loop that only a timer wakes.
*Correct when*: no loop runs beside another, or on a freed base; a stop ends the loop.

### Threads: `common/gthread/gthread.cpp`, `gthreadpool.cpp`; `EventClient/TcpSender.cpp`
*State*: pool: `mTotal`, `mThreadList`, `mIsShutdown`, three conditions and
one per thread; GThread: `running`, `continuemutex`, `continuemutex2`; sender:
`mRunning`, `mFile`, `mSockId`. *Operations*: `dispatch`, `wrapperFunc`, `saveThread`, the
destructor; `Start`, `Kill`, `TheThread`; `connect`, `startFileSend`, `stopFileSend`,
`Thread`. *Hard*: signals sent before the wait, conditions tested
with `if`, a destructor that waits for threads, killed threads that are still at
work, results of `sendEx` that nobody looks at. *Correct when*: a task runs once, none is lost, the pool keeps its limit,
the destructor returns and nobody uses what it freed; the handshake of
`Start` holds; each unit of a file goes to the socket once.

### Data: `net/buffer.c`, `BufferCache.cpp`; `common/NalBareflow/NALDecoder.cpp`
Event buffers (a block with a misaligned window of data that grows, moves and
is swapped) and the cutter of an H.264 file into NAL units, which reads a start
code too far and moves back. *Correct when*: a buffer is a queue of bytes inside its
block; the units are those of the file.

### Interactions
The station owns the loop's thread, which calls the callbacks; a callback
calls the base (it arms, deletes), the manager, and the task's
`readBuffer`/`writeBuffer`, whose *result* tells the callback what to arm. Tasks
talk to clients only through sockets. A client's user thread and its receiving
or sending thread share flags. The pool is used by the decoders
(`FfmpegContext`, `FileDeCodec`), each of which dispatches from one thread.

### Not modelled
`udt/`, `PlayerClient/wise_rec` and other third-party code; the decoders and
Android codecs (`Mcndk/`: calls into a library); `net/evbuffer.c` (bufferevents,
called by nothing); `net/net_protocol.c` (formatting of text); logging; `DataUtils`
queues (declared, never made); `TaskVideoSend` and `TaskVideoRecv` (nothing constructs
the one, nothing starts the other); `event_once`, priorities and the growth of
the epoll table (`epoll_recalc`: the table is made for the limit of descriptors).
`TcpClient::disConnect`, called by another thread than the loop's, works on a session
that `onRead` may have deleted at DATAEND, and no text says when it may be
called: it has no defined states to model. In the player, `Work` calls none of the
`DefNetMessage` (the calls are commented out): `DataBuffer.cpp`, the dispatch of
EXERET, `m_bDataEnd` and the flags of SECTION_END are dead, and so is everything
that they would do to a waiting `ExecCmd`.

The greater part of the repository's lines is third-party code: ffmpeg's headers, UDT,
two copies of MPEG4Writer. The code of the program itself is about ten thousand lines.
`PROJECT.json` lists every component with its status, and under `hazards`
what is hard to test, at its line.

## 2. Modules

| Module | Code | State and actions |
|---|---|---|
| `EventBase` | `net/event.c`, `net/epoll.c` | the base as one record; each C function an operator from base to base, so that a callback that makes several calls is one action |
| `SessionManager` | `Session.cpp:40-120` | the table as a record; `put`, `get_seq`, `remove` |
| `EventCall` | `EventCall.cpp`, `Session.cpp`, `TcpServer.cpp` | extends the two; the loop's phases (`EpollWait`, `Report`, `Expire`, then callbacks), one action per callback and outcome, the clients |
| `MCEventCall` | | events built from addresses, symmetry |
| `Playback` | `TaskPlayback.cpp`, the parser of `NetDataClient.cpp` | one connection; an action per branch of `writeBuffer` and of `recvPackData`, the heartbeat, the client |
| `PlayerClient` | `NetDataClient.cpp`, `PlayBackClient.cpp`, `stdafx.h` | users and `Work` with the mutex, the event and the map; the server reduced to the requests it acts upon |
| `FileCopy` | | abstract: a copy that is a prefix of its source |
| `FileTransfer` | `TaskFileSend.cpp`, `TaskFileRecv.cpp` | both tasks over one socket, send by send; implements `FileCopy` |
| `Station` | `ActorStation.cpp`, `EventArg`, `event_loopexit`, `signal.c` | user thread, which calls at any moment, loop threads, signals |
| `GThreadPool` | `gthreadpool.cpp` | a critical section is a step, cut at every wait |
| `TcpSender` | `TcpSender.cpp`, `gthread.cpp` | user's thread and sender's threads, the two mutexes, the peer; `sendEx` by its outcomes |
| `Annexb` | `NALDecoder.cpp` | `GetAnnexbNALU` as an operator, the loop that calls it, a reference cutter |
| `ByteQueue` | | abstract: a queue of bytes and its answers |
| `EvBuffer` | `net/buffer.c`, `BufferCache.cpp` | block, misalignment and length; implements `ByteQueue` |
| `MCBytes` | | one instance of `Annexb` and `EvBuffer` |
| `EventCallProofs`, `BytesProofs`, `PlaybackProofs`, `PlayerClientProofs`, `FileTransferProofs`, `StationProofs`, `GThreadPoolProofs`, `TcpSenderProofs` | | theorems about the module they are named after; `BytesProofs` about `Annexb`, `EvBuffer` and their composition `MCBytes` |

The base and the manager are records and pure operators because callbacks call
them several times before the loop goes on; EventCall composes them
(`CloseSession` is `remove`, three `event_del`, the frees and `close`, in one step).
What a task does with its bytes is abstracted in EventCall to what decides its
result: `play`, `get`, `start`, `seek`, or a message (`bad`) that has no body or
names no file. Playback and FileTransfer are what is behind those results.

### Abstractions, all of them on purpose
- The active queue is a set: epoll reports descriptors in any order, so every
  order of the callbacks of a batch is allowed. `ev_ncalls` is always 1.
- At most one message of a connection is unread in EventCall, and it is
  read whole; FileTransfer has the partial reads. Backlog, queued requests and
  pings are bounded (`MaxBacklog`, `MaxRequests`, `MaxPings`); the code's ping queue
  is not.
- A key is the descriptor modulo 2^16. `EventCallAssumption` says that open
  descriptors have distinct keys, which default limits guarantee.
- `sendEx` spins on EAGAIN inside the callback: in EventCall and Playback a
  callback finishes only when there is room or the peer is gone; in FileTransfer
  each `send` is a step, and the server takes no other while it is in one.
- Durations are left out: an armed timer may expire at any time. So is the
  ten-millisecond wait of `stopFileSend`.
- The pool's list is the set of its members; spurious wakeups of a
  condition are left out; `pthread_create` may fail.
- What a data race does to memory (two threads in one timer tree, in
  `event_loopexit`; two loops on one base) is not modelled: the call is one step in Station, and
  each step of a loop there is one on an intact base.
- In TcpSender, `sendEx` for a unit either sends it, or fails in `select` (then the unit
  is lost, and the transfer goes on), or fails in `send` (then it repeats the call with
  a length one too large, for ever if the peer is gone). A unit is lost as well if it goes out after
  a failed `send`, with a byte more than it has. What of a lost unit the peer gets is not modelled, nor are `SIGPIPE`,
  which the process is taken to ignore, and `disConnect`, after which the client deletes the
  sender.
- `FileTransfer` counts lengths in cells; `LenMod` stands for 2^32 and is *less* than
  the longest file, so that the truncation of `mFileLen` happens.
- PlayerClient: `m_bDataEnd` stays FALSE and no answer reaches an `ExecCmd` (see *Not
  modelled*), so a `Seek` waits for its timeout; `Wait` without the mutex does what
  glibc does (it unlocks on sleeping, locks on waking); no spurious wakeups. Nobody
  begins a call once `CloseClient` has begun, nor is inside one then: the code frees the client
  afterwards. `m_hThread` is not reset, hence nothing starts `Work` a second time.
- EvBuffer: the callback of a buffer is not set by any user; there is no
  memory behind the block. `realloc`, `malloc`, `read` and `write` may fail.

## 3. Runs

Every property of a passing run has a mutant: a plausible bug in one mapped
definition with which TLC finds the property violated under the same configuration.

**`server_one`**: one session, two descriptors (the listener's and one more), every
message, heartbeats, timeouts, hang-ups; `MaxConnections = 0` makes the refused path
(`eExit`, write event armed at once) the one taken. Sequence numbers wrap at 2, keys
at 4, so wrapping happens in a few connections. The types,
`QueuesConsistent` (no event is set, added or deleted against the list it is on),
`NeverDeaf`, and as liveness
`ClosedClientIsReaped`, `WaitingClientIsAccepted`, `HeartbeatGoesOn`.

**`server_two`**: two sessions, three descriptors, symmetric addresses, safety only
(symmetry is not sound for liveness): `EpollConsistent`, `NoDanglingEvent` (no
list refers to an event of a deleted session, inside a batch too), `ManagerAgrees`.
Two is enough for what these
relate: a descriptor closed by one callback and accepted by
another of the same batch, one session freed while the other is active. Here
`MaxConnections = 1`: a connection accepted while the other lives is the refused one
(`m.count > MaxConnections`), one alone is not, so both kinds occur, in one batch too.

**`playback`**: three packets, sections of two, key frames 1 and 3: a full
section, a section cut by the end of the file, and seeks back and forth; two seeks (an
answer may meet the next one), two commands on their way, a
send buffer of two items. `FramesInOrder`, `StopsAreAnnounced`,
`FramingOutlivesAllButSeek`, `SeeksAreAnswered`, `StreamGoesOn`.

**`pool`**: up to two dispatchers (which of the callers ever call is chosen in
`Init`), a limit of two threads, four tasks (reuse, waiting for a thread, creation,
and a third thread that finds no room on the list), the destructor at any moment
between dispatches. `RunsOnce`, `IdleThreadsAreIdle`, `NoUseAfterFree` and
`DispatchedIsRun` hold for both numbers. `AtMostMaxThreads` and `DestructorReturns`
are of one dispatcher, as in `FfmpegContext` and `FileDeCodec`: with two, the
condition of `dispatch` is tested with `if`, so that who is woken may find the idle
thread taken and creates one too many; it ends without being subtracted from
`mTotal`, and the destructor waits for ever. Nothing in the repository dispatches
from two threads. For this reason deadlock is not checked in this run.

**`file`**: files of 0 to 7 pieces, packets of two, a socket of three cells (no
packet fits whole), `LenMod = 6`; the file may be truncated and the client may
leave at any time, and may be slow; or there is no file. `EveryPieceIsSomewhere`,
`CopiesTheFile` (refinement of `FileCopy`), `TransferEnds`.

**`station`**: three starts, one signal, a user who calls at any moment. `isRunning()` does
not notice a thread that is created and has not reached its first line: a start that comes
then is counted in `hurried`. `ExtraLoopsAreHurried`: there is at most one loop more than
such starts (the bound is reached: three loops with two of them). `BaseOutlivesLoop` and
`StopEndsLoop` exclude runs with such a start, and with reason: a second loop frees
the base under the first, and a start that has passed `isRunning()` resets the
`mIsShutdown` of a stop, also of a signal's, so that the stop is lost. Three starts are two hurried
ones and one that finds the loop at work or at its end; one signal may meet each of them.

**`sender`**: three starts, two units, threads that are killed while at
work, a peer that closes, `select`, `send` and `pthread_create` failing at any time.
`StartMeansStarted`, `BodyAfterHandshake`; and as long as the user has let
transfers end (`~early`): `RunningIsTheThread`, `EachUnitOnce`, `StartEnds`. `EachUnitOnce`
does not say that a transfer is whole, which the code does not see to: it says that each
unit that is not sent failed by itself, and that otherwise none is left out or taken twice.

**`client`**: two users (two calls at once, one that closes while another has just
left), `MaxIndex = 2`, so that both may get the same index or different ones, three
sections (one more than `OneResumeOnly` allows), one unread request. Sends fail,
the server closes, a reconnection fails or succeeds. `WaitersAreSafe`,
`CloseStopsReconnects`, `OneResumeOnly`, `CallsReturn`. The process
dies when a reconnection succeeds, because `ConnectServer(NULL)` uses the null
pointer: the model ends there, and deadlock is not checked.

**`bytes`**: one run for the two components that work on bytes. Every file of up to 8 bytes
over {0, 1, 2}: two start codes of four bytes fit, with zeros before, inside and after
them; `SendsTheUnits` compares with the reference `Units`, `ReachesTheEnd` is the end of
the loop. Two buffers with four bytes of memory between them, additions of up
to two bytes over CR and LF (every line ending): growth, moving to the front,
swapping, and stale bytes behind the data all occur; `InsideBlock`, `IsQueue` (refinement
of `ByteQueue`). The two share no state.

### Findings (runs that expect a violation)
- **`server_writefail`**: `EventCall.cpp:227` says of the result of `writeBuffer`
  `>0 need listen,<=0 not do that`; line 240 tests `ret != 0`, and a failed send
  (negative) arms the write event, which is reported at once, until the read
  event notices the end.
- **`station_close`**: `ActorStation.cpp:103` promises a clean close; line 119 frees the
  base and lines 122-123 call `signal_del` on events of that base.
- **`sender_running`**: `gthread.cpp:92` waits "until 'running' is set"; a thread that
  was killed at its end resets `running` (line 175) after the new thread has set
  it, and `Start` and the new thread wait for each other for ever.

Weaknesses seen while modelling, without a text of the repository to set against them, hence without a
run: a refused session is served like any other (nothing says what it may still do); a seek resets a packet that is
half sent (`FramingOutlivesAllButSeek` shows that nothing else breaks the framing);
`event_loopexit`, documented as not thread safe, is called by another
thread; a start that comes before the first line of the thread of another makes a second
loop, or undoes a stop; a stop that comes then is lost; the file sender's client loses a unit when `select`
fails and goes on, and spins after a failed `send`, or sends the unit with a byte too many; stopping
a transfer closes the file under its reader; a write event of a file sender that timed out is never armed again;
truncated files make packets without pieces for ever; `getBuffer` may write its NUL
one byte behind the block; `evbuffer_readline` splits a CR LF that arrives in two
reads; every successful reconnection of the player ends in a null pointer; every
`Seek` of the player answers FALSE after six seconds; a transfer may end before it begins, if the thread looks at
`mRunning` before `startFileSend` sets it.

No property covers some of these, as `PROJECT.json` says at each hazard, because the
code does what they say and no text of the repository forbids it, or because the model has no
state for it: keys of more than 65536 descriptors, a seek's
answer that is both queued and in the buffer, a client that does not read and stops the loop,
a slow file client, a file of 4 GiB or more, the race of `event_loopexit`, `TcpClient::disConnect`, a
transfer that is empty or loses its file, the NUL of `getBuffer`, a close that waits for a
server, a reconnection that succeeds. Others are covered in part: the pool's thread too many
(with two dispatchers no task is lost to it, and the limit is of one dispatcher), the second loop of the
station (bounded, not excluded), the player's map without its mutex (no waiter dangles; what
happens inside the map is not modelled).

## 4. Fairness and its justification
- *EventCall*: weak fairness of the loop (one thread, never blocked by the model
  but in `sendEx`); strong fairness of each heartbeat's expiry, because an armed
  timer that stays armed does expire although the loop visits its `expire` phase only
  from time to time; weak fairness of clients that drain their sockets, without which
  `sendEx` spins for ever (listed as a hazard).
- *Playback*: the loop and the client's reading weakly; commands and frame writes
  strongly, because the loop serves every reported event, though writes
  time out and heartbeats intervene. `StreamGoesOn` has the premise
  `ClientKeepsUp`: one heartbeat a second, which the client reads in less than that.
- *FileTransfer*: both loops; a reported event is handled although others come.
  Nothing makes a client stay or a file keep its length: the property allows both.
- *GThreadPool*: threads and a caller inside `dispatch` are strongly fair, since they
  compete for a mutex; nothing makes a caller call.
- *Station, TcpSender*: threads are scheduled, timers expire, a call once begun
  goes on. Nothing makes the user start or stop, or, in TcpSender, the peer read or a `sendEx`
  end, so that a sender may stay in one for ever (`OwnStep` is fair, `SendStep` is not).
- *PlayerClient*: `Work` is scheduled and its timeouts come (weakly); it, and a user inside
  `ExecCmd`, get `m_cs` if it is free again and again (strongly: `Work` sleeps four
  seconds between two attempts). Nothing makes the server or the user act; a
  `CloseClient` that waits for a `Work` in its receive loop may wait for ever,
  and `CallsReturn` says so.
- *Annexb*: the loop goes on.

## 5. Proofs

The theorems hold for every value of the constants under the `ASSUME`s of the
modules (events of different sessions are different objects, with a direction
each; keys of open descriptors are distinct; bounds are numbers), and under no other.

**`EventCallProofs`** (its first half: the functions of `EventBase`): `TypeCorrect`, `QueuesAreConsistent`,
`NoEventDangles`, `EpollIsConsistent`, `NoSessionIsDeaf`, `ManagerIsRight`.
The first three follow from

    IInv == TypeOK /\ BaseInv(base) /\ Unlinked /\ NotWriting

`QueuesConsistent` alone is not inductive: `event_set` clears flags, so a step keeps
it only if the event is on no list, which the callbacks know through `mReading` and
`mWriting`. Hence `NotWriting` (an event may be linked only while `mWriting` is set),
and `Unlinked` (the events of a session that does not exist are on no
list, so that `onAccept` may set them). `BaseInv` adds to `FlagsMatchQueues` that a
table entry of epoll names an inserted event of that descriptor and direction, without which a
report could activate a deleted one, and `NoDanglingEvent` would not follow; and
that an active event without EV_PERSIST is on no other list (what a callback may rely on
when it arms its own event again). `KInv` strengthens it for the next two: `Agrees`
(table, queue and kernel, which `close` may break only for a descriptor whose
events are gone), `Placed` (the two events of a session wait on its descriptor, which no
other session has) and `Listens` (a live session is armed, as `mReading` and `mWriting`
say). `MInv` adds the manager: `Entries`, `Numbers`, `Fresh` (a row that is missing
has handed out no number) and `Counted`. Each C
function has a lemma (`EventAddKeeps`, `EventDelKeeps`, `EpollReportKeeps`, ...) that says it keeps
`BaseInv` and touches no other event; each callback has a lemma
(`IInvReadMore`, `IInvTimer`, `IInvClose`, ...); `IInvNext`, `KInvNext` and `MInvNext` join them.

**`GThreadPoolProofs`**: `TypeCorrect` (`mTotal` never becomes negative, for which `TypeInv`
relates it to the threads that live); `TasksRunOnce` (`OnceInv`: who holds
which task, and who is about to run it); `OneCallerLimit` (`LimitInv`: while there is one
dispatcher, who was woken still finds the idle thread); `IdleAreIdle` and
`NothingOutlivesThePool` (`EndInv`: an idle thread is listed or picked, and the
destructor stops waiting only when no thread is left).

**`PlaybackProofs`**: `FramesAreInOrder` (`FramesInOrder` is inductive with the types: it already relates the position in the
file to what is under way); `OnlySeekBreaksFraming`, an action property:
every step but a seek's keeps each header next to its payload (`Followed`);
`StopsAreTheLastWord` (`StopInv`: even after seeks there is at most an EXERET
between a header and its payload, and no answer is left in the queue of an open connection).

**`FileTransferProofs`**: `TypeCorrect`, `NoPieceIsLost`, and `TransferIsCopy`, the
refinement `Spec => CopiesTheFile`. The invariant follows the bytes:

    IInv == TypeOK /\ Fits /\ BufferOK /\ Started /\ PipeOK

`PipeOK` is what the property needs to be inductive. The pipeline (what
the client has of the packet it is receiving, the socket, the rest of the send buffer) is a
sequence of whole packets behind the one the client is in (`Framed`), carries
the pieces after those written, in order and without a gap (`Carries`), and holds DATAEND
only as its last message, when all is read (`Endless`). The lemmas say how
sequences of packets are cut and joined; each action then moves cells from one
stage to the next. For the refinement, every step maps to a step of `FileCopy` or to a stutter.

**`PlayerClientProofs`**: `WaitersStaySafe` (`MutexInv`: who holds `m_cs`, and how many are
inside while `Work` gives back a mutex it does not own), `CloseStops` (`CloseInv`: what `Work`
does next depends on where it was when `m_bSignal` was set), `ResumesOnce` (`ResumeInv`:
`m_bSend` stays set after the first pause, so a second resume is refused).

**`StationProofs`**: `LoopsAreHurried` and `BaseLives`, of a user who calls at any moment. `LoopInv`
counts: a start under way is a loop already, and when `mIsRunning` is 0 and no thread is
before its first line there is one loop less than there may be, which is what a start
needs. `BaseInv`: without a hurried start, for which there is one loop (`OneLoop`), a loop makes its
rounds on the current base, which only a thread that has left resets.

**`TcpSenderProofs`**: `StartIsStarted` and `BodyWaits` (`HandshakeInv`: who holds which of
the two mutexes; killed threads included), `RunningIsOwn` (`AloneInv`) and `UnitsAreTaken`
(`TransferInv`: units sent, lost and unread add up to the file at each line of the thread, and
`mRunning` stays set from the first unit to the end of the file).

**`BytesProofs`**: the two components that the run checks over a handful of bytes, for
any length of block, file, line and search. Recursion over data needs an induction; the
library's induction theorems cannot be instantiated, but well-foundedness of `<` on the
natural numbers gives that every set of them that is not empty has a least element
(`NatMin`), and that is enough: `NatInd` is an induction over a set.

- `BlocksHold` and `BuffersAreQueues`, the refinement `Spec => IsQueue`. The invariant is
  `InsideBlock` with the types of the blocks. One lemma per operation says what it
  does to the bytes a buffer holds (`AlignKeeps`, `LargerKeeps`, `ExpandKeeps`,
  `AppendedIs`, `DrainIs`, `TerminatedKeeps`, `LineIs`), one per call that it is a
  call of the queue. `DoubledIsEnough` shows that the doubling loop of `evbuffer_expand` ends
  and reaches `need`, whatever the block's length before. `PlaceIsFirst` shows that the search of `BufferCache::find`, which goes from one
  byte like the first one to the next, finds the first occurrence and never looks behind the
  data. A length does not wrap here: a buffer of half the address space is not a state of the
  program.
- `UnitsAreSent`. `SendsTheUnits` is not inductive; `UnitsInv` adds where the position
  stands: at a start code that is read with the length it has (`AtCode`: as four bytes exactly
  when a zero precedes 00 00 01), with as many units sent as there are codes before it whose
  units are kept. `CodesAreApart` is what makes moving back right: the 1 of a code is not
  among the zeros of the next, so the next code, of three or of four bytes, begins behind it. The
  reference counts codes (`Rank`); `RankIsUnique` and `RankIsTaken` say that the
  units are numbered without gap.
- `LoopAdvances`, an action property: a turn comes nearer to the end of the file or is the
  last. It is the part of `ReachesTheEnd` that is not about fairness.
- `BothHold` states the three for the composition that TLC runs.

*Model-checked only*: the liveness properties of the runs, which the provers do not reach (fairness is
stated with ENABLED). Every invariant, action property and refinement a passing run
checks is a theorem. Type invariants that no run lists are there for the proofs.

## 6. What is left
The growth of the epoll table (with the pointers into it that the kernel keeps), the
`disConnect` of the file sender, the JNI calls of the file client. An abstract
request-reply specification of `ExecCmd` makes sense when the code dispatches the answers again.
