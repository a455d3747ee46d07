------------------------------ MODULE EventCall ------------------------------
(***************************************************************************)
(* The event server: one thread runs event_base_loop and calls back         *)
(* EventCall::onAccept, onRead, onWrite and onTimer (EventServer/           *)
(* EventCall.cpp) for the listening socket and for the three events of      *)
(* every Session (EventServer/Session.cpp).  A callback runs to its end     *)
(* before the loop goes on, so each one is one action; clients act between  *)
(* any two steps of the loop.                                               *)
(*                                                                          *)
(* What a task does with its bytes is abstracted to what a callback's       *)
(* result depends on: which command a message carries and what readBuffer   *)
(* and writeBuffer return.                                                  *)
(***************************************************************************)
EXTENDS EventBase, SessionManager

CONSTANTS
  ReadEv, WriteEv, TimeEv,  \* mReadEvent, mWriteEvent, mTimeEvent of a session
  AcceptEv,                 \* TcpServer's mEvAccept
  Owner,                    \* the session whose constructor allocated an event
  ListenFd,                 \* the listening socket
  MaxConnections,           \* TcpServer's mMaxConnections
  Msgs,                     \* the kinds of messages the clients send
  MaxBacklog                \* bound: connections waiting to be accepted

MsgKinds == {"play", "get", "start", "seek", "bad"}

ASSUME EventCallAssumption ==
  /\ Fds \subseteq Nat /\ ListenFd \in Fds
  /\ \A f, g \in Fds : KeyOf(f) = KeyOf(g) => f = g
  /\ ReadEv \in [Sessions -> Events]
  /\ WriteEv \in [Sessions -> Events]
  /\ TimeEv \in [Sessions -> Events]
  /\ AcceptEv \in Events
  /\ \A e \in Events \ {AcceptEv} :
       \E s \in Sessions : e \in {ReadEv[s], WriteEv[s], TimeEv[s]}
  /\ \A s \in Sessions :
       /\ Owner[ReadEv[s]] = s /\ What[ReadEv[s]] = {"READ"}
       /\ Owner[WriteEv[s]] = s /\ What[WriteEv[s]] = {"WRITE"}
       /\ Owner[TimeEv[s]] = s /\ What[TimeEv[s]] = {}
  /\ What[AcceptEv] = {"READ", "PERSIST"}
  /\ MaxConnections \in Nat
  /\ Msgs \subseteq MsgKinds
  /\ MaxBacklog \in Nat \ {0}

VARIABLES
  base,     \* the event base (see EventBase)
  phase,    \* where event_base_loop stands
  batch,    \* what epoll_wait reported and epoll_dispatch has not handled yet
  alive,    \* the Session objects that are allocated
  session,  \* the fields of each Session object
  manager,  \* the SessionManager
  net       \* the sockets, as the kernel and the clients leave them

vars == <<base, phase, batch, alive, session, manager, net>>

Tasks == {"none", "playback", "filesend"}

SessionType ==
  [ fd      : Fds \cup {NoFd},           \* mSid.mKey
    seq     : 0..(SeqMod - 1),           \* mSid.mSeq
    reading : {0, 1},                    \* mReading
    writing : {0, 1},                    \* mWriting
    status  : {"eNormal", "eExit"},      \* mStatus
    task    : Tasks ]                    \* mTaskBase

NetType ==
  [ open    : SUBSET Fds,
    inbox   : [Fds -> MsgKinds \cup {"none"}],  \* one unread client message
    eof     : [Fds -> BOOLEAN],                 \* the client closed
    full    : [Fds -> BOOLEAN],                 \* the send buffer is full
    backlog : 0..MaxBacklog ]

NewSession == [ fd |-> NoFd, seq |-> 0, reading |-> 0, writing |-> 0,
                status |-> "eNormal", task |-> "none" ]

NoBatch == [f \in Fds |-> {}]

\* TcpServer::registerEvent has added the accept event, without a timeout.
Init ==
  /\ base = event_add(event_set(EmptyBase, AcceptEv, ListenFd), AcceptEv, FALSE)
  /\ phase = "wait"
  /\ batch = NoBatch
  /\ alive = {}
  /\ session = [s \in Sessions |-> NewSession]
  /\ manager = EmptyManager
  /\ net = [ open |-> {ListenFd}, inbox |-> [f \in Fds |-> "none"],
             eof |-> [f \in Fds |-> FALSE], full |-> [f \in Fds |-> FALSE],
             backlog |-> 0 ]

-----------------------------------------------------------------------------
(* Clients and the kernel *)

Connected(f) == f \in net.open \ {ListenFd} /\ ~net.eof[f]

Connect ==
  /\ net.backlog < MaxBacklog
  /\ net' = [net EXCEPT !.backlog = @ + 1]
  /\ UNCHANGED <<base, phase, batch, alive, session, manager>>

ClientSend(f, m) ==
  /\ Connected(f) /\ net.inbox[f] = "none"
  /\ net' = [net EXCEPT !.inbox[f] = m]
  /\ UNCHANGED <<base, phase, batch, alive, session, manager>>

ClientClose(f) ==
  /\ Connected(f)
  /\ net' = [net EXCEPT !.eof[f] = TRUE]
  /\ UNCHANGED <<base, phase, batch, alive, session, manager>>

\* The client reads: there is room in the send buffer again.
ClientDrain(f) ==
  /\ Connected(f) /\ net.full[f]
  /\ net' = [net EXCEPT !.full[f] = FALSE]
  /\ UNCHANGED <<base, phase, batch, alive, session, manager>>

Readable(f) == \/ f = ListenFd /\ net.backlog > 0
               \/ net.inbox[f] # "none"
               \/ net.eof[f]
Writable(f) == ~net.full[f] \/ net.eof[f]

\* sendEx spins on EAGAIN: it returns once there is room or the peer is gone.
CanSend(f) == Writable(f)

-----------------------------------------------------------------------------
(* event_base_loop: epoll_wait, the reported descriptors, the expired       *)
(* timeouts, then the callbacks until the active queue is empty.            *)

\* A closed peer may be reported as EPOLLHUP or EPOLLERR, which stand for both
\* directions whatever the registered interest is.
EpollWait ==
  /\ phase = "wait"
  /\ \E hup \in SUBSET {f \in Fds : net.eof[f]} :
       batch' = [f \in Fds |->
         IF base.kernel[f] = {} THEN {}
         ELSE IF f \in hup THEN Interests
         ELSE base.kernel[f] \cap ((IF Readable(f) THEN {"IN"} ELSE {})
                                     \cup (IF Writable(f) THEN {"OUT"} ELSE {}))]
  /\ phase' = "report"
  /\ UNCHANGED <<base, alive, session, manager, net>>

Report(f) ==
  /\ phase = "report" /\ batch[f] # {}
  /\ base' = epoll_report(base, f, batch[f])
  /\ batch' = [batch EXCEPT ![f] = {}]
  /\ UNCHANGED <<phase, alive, session, manager, net>>

ReportDone ==
  /\ phase = "report" /\ batch = NoBatch
  /\ phase' = "expire"
  /\ UNCHANGED <<base, batch, alive, session, manager, net>>

\* Time is not modelled: any armed timeout may have expired.
Expire(e) ==
  /\ phase = "expire" /\ e \in base.timetree
  /\ base' = timeout_expire(base, e)
  /\ UNCHANGED <<phase, batch, alive, session, manager, net>>

ExpireDone ==
  /\ phase = "expire"
  /\ phase' = "active"
  /\ UNCHANGED <<base, batch, alive, session, manager, net>>

ActiveDone ==
  /\ phase = "active" /\ base.activequeue = {}
  /\ phase' = "wait"
  /\ UNCHANGED <<base, batch, alive, session, manager, net>>

-----------------------------------------------------------------------------
(* EventCall::addEvent: arms an event unless mReading or mWriting says that  *)
(* it is armed already; either way the flag ends up set.                     *)

addRead(b, s, reading, f) ==
  IF reading = 0
  THEN event_add(event_set(b, ReadEv[s], f), ReadEv[s], TRUE)
  ELSE b

\* Mutant of addWrite: the event is added whatever mWriting says.
addWriteAlways(b, s, writing, f) ==
  event_add(event_set(b, WriteEv[s], f), WriteEv[s], TRUE)

addWrite(b, s, writing, f) ==
  IF writing = 0
  THEN event_add(event_set(b, WriteEv[s], f), WriteEv[s], TRUE)
  ELSE b

\* The descriptor addEvent takes from the write event when it is passed -1.
EventFd(b, s) == b.fd[WriteEv[s]]

\* Mutant of Teardown: the heartbeat is left on the base.
TeardownNoTimer(b, s) == event_del(event_del(b, ReadEv[s]), WriteEv[s])

Teardown(b, s) ==
  event_del(event_del(event_del(b, ReadEv[s]), WriteEv[s]), TimeEv[s])

FreeEvents(b, s) == Free(Free(Free(b, ReadEv[s]), WriteEv[s]), TimeEv[s])

\* remove, three event_del, delete session, close(fd): the end of a connection.
CloseSession(b, s, f) ==
  /\ base' = CloseFd(FreeEvents(Teardown(b, s), s), f)
  /\ manager' = remove(manager, KeyOf(f))
  /\ alive' = alive \ {s}
  /\ session' = [session EXCEPT ![s] = NewSession]
  /\ net' = [net EXCEPT !.open = @ \ {f}, !.inbox[f] = "none",
                        !.eof[f] = FALSE, !.full[f] = FALSE]
  /\ UNCHANGED <<phase, batch>>

\* The loop takes e off the active queue and calls it back.
Callback(e) == phase = "active" /\ e \in base.activequeue

-----------------------------------------------------------------------------
(* onAccept *)

AcceptFails ==
  /\ Callback(AcceptEv)
  /\ net.backlog = 0 \/ Fds \subseteq net.open
  /\ base' = Dequeue(base, AcceptEv)
  /\ UNCHANGED <<phase, batch, alive, session, manager, net>>

\* The events of a new session: read and write set up, read and timer armed.
StartSession(b, s, f) ==
  LET c == addRead(event_set(event_set(b, ReadEv[s], f), WriteEv[s], f), s, 0, f)
  IN  event_add(event_set(c, TimeEv[s], NoFd), TimeEv[s], TRUE)

onAccept(s, f) ==
  LET k == KeyOf(f)
      m == put(manager, k, s)
      busy == m.count > MaxConnections
      b == StartSession(Dequeue(base, AcceptEv), s, f)
  IN  /\ Callback(AcceptEv)
      /\ net.backlog > 0 /\ s \notin alive /\ f \notin net.open
      /\ alive' = alive \cup {s}
      /\ manager' = m
      /\ session' = [session EXCEPT ![s] =
           [ fd |-> f, seq |-> get_seq(manager, k), reading |-> 1,
             writing |-> IF busy THEN 1 ELSE 0,
             status |-> IF busy THEN "eExit" ELSE "eNormal", task |-> "none" ]]
      /\ base' = IF busy THEN addWrite(b, s, 0, f) ELSE b
      /\ net' = [net EXCEPT !.open = @ \cup {f}, !.backlog = @ - 1]
      /\ UNCHANGED <<phase, batch>>

-----------------------------------------------------------------------------
(* onRead *)

\* readBuffer returns 0: the peer closed, a message without a body (recv of no
\* bytes), or a first message that names no existing file.
ReadsZero(s, f) ==
  LET m == net.inbox[f] IN
    \/ m = "none" /\ net.eof[f]
    \/ m = "bad"
    \/ m # "none" /\ session[s].task = "none" /\ m \notin {"play", "get"}

readTask(s, m) ==
  IF session[s].task # "none" THEN session[s].task
  ELSE CASE m = "play" -> "playback"
         [] m = "get"  -> "filesend"
         [] OTHER      -> "none"

\* A login is answered by the constructor of the task, a seek by readBuffer.
Replies(s, m) == \/ session[s].task = "none" /\ m \in {"play", "get"}
                 \/ session[s].task = "playback" /\ m = "seek"

ReadClose(s) ==
  LET f == base.fd[ReadEv[s]] IN
    /\ Callback(ReadEv[s])
    /\ "READ" \in base.res[ReadEv[s]] /\ ReadsZero(s, f)
    /\ CloseSession(Dequeue(base, ReadEv[s]), s, f)

\* Mutant of ReadMore: the read event is not added again.
ReadMoreDeaf(s) ==
  LET f == base.fd[ReadEv[s]]
      m == IF "READ" \in base.res[ReadEv[s]] THEN net.inbox[f] ELSE "none"
  IN  /\ Callback(ReadEv[s])
      /\ ~("READ" \in base.res[ReadEv[s]] /\ ReadsZero(s, f))
      /\ base' = Dequeue(base, ReadEv[s])
      /\ session' = [session EXCEPT ![s].reading = 0, ![s].task = readTask(s, m)]
      /\ net' = [net EXCEPT !.inbox[f] = IF m = "none" THEN @ ELSE "none"]
      /\ UNCHANGED <<phase, batch, alive, manager>>

\* A command "start" (or "send") arms the write event; then the read event is
\* armed again.
ReadMore(s) ==
  LET f == base.fd[ReadEv[s]]
      b == Dequeue(base, ReadEv[s])
      m == IF "READ" \in base.res[ReadEv[s]] THEN net.inbox[f] ELSE "none"
      starts == m = "start" /\ session[s].task # "none"
      c == IF starts THEN addWrite(b, s, session[s].writing, EventFd(b, s)) ELSE b
  IN  /\ Callback(ReadEv[s])
      /\ ~("READ" \in base.res[ReadEv[s]] /\ ReadsZero(s, f))
      /\ Replies(s, m) => CanSend(f)
      /\ base' = addRead(c, s, 0, f)
      /\ session' = [session EXCEPT
           ![s].reading = 1,
           ![s].writing = IF starts THEN 1 ELSE @,
           ![s].task    = readTask(s, m)]
      /\ \E full \in (IF Replies(s, m) THEN BOOLEAN ELSE {net.full[f]}) :
           net' = [net EXCEPT !.inbox[f] = IF m = "none" THEN @ ELSE "none",
                              !.full[f] = full]
      /\ UNCHANGED <<phase, batch, alive, manager>>

onRead(s) == ReadClose(s) \/ ReadMore(s)

-----------------------------------------------------------------------------
(* onWrite: what writeBuffer returns decides.  A task that sent something    *)
(* (or failed to) is called again, a paused one is not, and a file sender    *)
(* that has sent everything closes the connection.                           *)

Writes(s) == Callback(WriteEv[s]) /\ "WRITE" \in base.res[WriteEv[s]]

\* writeBuffer returns 0, or the event timed out: the event is not armed again.
WriteStop(s) ==
  /\ Callback(WriteEv[s])
  /\ "WRITE" \in base.res[WriteEv[s]] => session[s].task # "filesend"
  /\ base' = Dequeue(base, WriteEv[s])
  /\ session' = [session EXCEPT ![s].writing = 0]
  /\ UNCHANGED <<phase, batch, alive, manager, net>>

Rearm(s) ==
  LET f == base.fd[WriteEv[s]] IN
    /\ base' = addWrite(Dequeue(base, WriteEv[s]), s, 0, f)
    /\ session' = [session EXCEPT ![s].writing = 1]
    /\ UNCHANGED <<phase, batch, alive, manager>>

\* A part of the stream was sent; the send buffer may be full now.
WriteMore(s) ==
  LET f == base.fd[WriteEv[s]] IN
    /\ Writes(s) /\ session[s].task # "none" /\ CanSend(f)
    /\ Rearm(s)
    /\ \E full \in BOOLEAN : net' = [net EXCEPT !.full[f] = full]

\* send failed: writeBuffer returns a negative value, which arms the event too.
WriteFails(s) ==
  /\ Writes(s) /\ session[s].task # "none" /\ net.eof[base.fd[WriteEv[s]]]
  /\ Rearm(s)
  /\ UNCHANGED net

\* TaskFileSend returns OWN_SOCK_EXIT after the last chunk.
WriteExit(s) ==
  LET f == base.fd[WriteEv[s]] IN
    /\ Writes(s) /\ session[s].task = "filesend" /\ CanSend(f)
    /\ CloseSession(Dequeue(base, WriteEv[s]), s, f)

onWrite(s) == WriteStop(s) \/ WriteMore(s) \/ WriteFails(s) \/ WriteExit(s)

-----------------------------------------------------------------------------
(* onTimer: the heartbeat of a playback arms its write event; the timer is   *)
(* added again.                                                              *)

\* Mutant of onTimer: evtimer_add is forgotten.
onTimerOnce(s) ==
  LET b == Dequeue(base, TimeEv[s])
      beats == session[s].task = "playback"
  IN  /\ Callback(TimeEv[s])
      /\ base' = IF beats THEN addWrite(b, s, session[s].writing, EventFd(b, s)) ELSE b
      /\ session' = [session EXCEPT ![s].writing = IF beats THEN 1 ELSE @]
      /\ UNCHANGED <<phase, batch, alive, manager, net>>

onTimer(s) ==
  LET b == Dequeue(base, TimeEv[s])
      beats == session[s].task = "playback"
      c == IF beats THEN addWrite(b, s, session[s].writing, EventFd(b, s)) ELSE b
  IN  /\ Callback(TimeEv[s])
      /\ base' = event_add(c, TimeEv[s], TRUE)
      /\ session' = [session EXCEPT ![s].writing = IF beats THEN 1 ELSE @]
      /\ UNCHANGED <<phase, batch, alive, manager, net>>

-----------------------------------------------------------------------------

Callbacks ==
  \/ AcceptFails
  \/ \E s \in Sessions, f \in Fds : onAccept(s, f)
  \/ \E s \in Sessions : onRead(s) \/ onWrite(s) \/ onTimer(s)

Loop ==
  \/ EpollWait
  \/ \E f \in Fds : Report(f)
  \/ ReportDone
  \/ \E e \in Events : Expire(e)
  \/ ExpireDone
  \/ Callbacks
  \/ ActiveDone

Clients ==
  \/ Connect
  \/ \E f \in Fds : \/ \E m \in Msgs : ClientSend(f, m)
                    \/ ClientClose(f)
                    \/ ClientDrain(f)

Next == Loop \/ Clients

Spec == Init /\ [][Next]_vars

\* The loop keeps running and armed timers do expire; clients keep reading,
\* without which one callback spins in sendEx and the loop stands still.
Fairness ==
  /\ WF_vars(Loop)
  /\ \A s \in Sessions : SF_vars(Expire(TimeEv[s]))
  /\ \A f \in Fds : WF_vars(ClientDrain(f))

FairSpec == Spec /\ Fairness
-----------------------------------------------------------------------------
(* Type invariant of the server's state. *)
TypeOK ==
  /\ base \in BaseType
  /\ phase \in {"wait", "report", "expire", "active"}
  /\ batch \in [Fds -> SUBSET Interests]
  /\ alive \in SUBSET Sessions
  /\ session \in [Sessions -> SessionType]
  /\ manager \in ManagerType
  /\ net \in NetType

(* No callback calls event_set on an event that is still linked, adds one    *)
(* twice or leaves one linked that the flags say is not: the flags of every  *)
(* event match the queues it is on, across addEvent's guards and teardown.   *)
QueuesConsistent == FlagsMatchQueues(base)

(* The epoll table, the inserted events and the kernel's interest set agree, *)
(* also when a descriptor number is closed and accepted again at once.       *)
EpollConsistent == EpollAgrees(base)

(* Use after free: neither a queue nor the epoll table ever refers to an     *)
(* event of a session that onRead or onWrite has deleted, even when several  *)
(* events of that session were active in the same batch.                     *)
NoDanglingEvent ==
  \A e \in Referenced(base) \ {NoEvent, AcceptEv} : Owner[e] \in alive

Pending(e) == e \in base.activequeue \/ (e \in base.eventqueue /\ e \in base.timetree)

(* Between two steps of the loop a live session waits for its client (read   *)
(* event pending, mReading set), its heartbeat is armed or due, and mWriting *)
(* says exactly whether its write event is pending: no session goes deaf.    *)
NeverDeaf ==
  \A s \in alive :
    /\ session[s].reading = 1 /\ Pending(ReadEv[s])
    /\ TimeEv[s] \in base.timetree \cup base.activequeue
    /\ (session[s].writing = 1) <=> Pending(WriteEv[s])

(* SessionManager agrees with the connections: the entry of a descriptor is  *)
(* the live session on it, with its current sequence number, no two live     *)
(* sessions share one, every open descriptor but the listening one has one,  *)
(* and mCount counts them.                                                   *)
ManagerAgrees ==
  /\ \A k \in Keys : \A s \in Sessions :
       manager.session[k] = s <=> (s \in alive /\ KeyOf(session[s].fd) = k)
  /\ \A s \in alive : session[s].seq = get_seq(manager, KeyOf(session[s].fd))
  /\ net.open = {ListenFd} \cup {session[s].fd : s \in alive}
  /\ manager.count = Cardinality(alive)

(* A client that closed is noticed: its descriptor is closed and its session *)
(* deleted, whatever the session was doing.                                  *)
ClosedClientIsReaped ==
  \A f \in Fds : (f \in net.open /\ net.eof[f]) ~> (f \notin net.open)

(* A waiting connection is accepted as long as a descriptor is free.         *)
WaitingClientIsAccepted ==
  (net.backlog = MaxBacklog) ~> (net.backlog < MaxBacklog \/ Fds \subseteq net.open)

(* The heartbeat of a live session keeps coming (onTimer adds it again).     *)
HeartbeatGoesOn ==
  \A s \in Sessions :
    []<>(s \in alive => TimeEv[s] \in base.activequeue)

(* EventCall.cpp:227, ">0 need listen,<=0 not do that": onWrite does not arm *)
(* the write event again after writeBuffer failed.                           *)
FailedWriteStops ==
  [][\A s \in Sessions : WriteFails(s) => session'[s].writing = 0]_vars
=============================================================================
