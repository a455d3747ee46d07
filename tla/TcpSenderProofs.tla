--------------------------- MODULE TcpSenderProofs ---------------------------
(***************************************************************************)
(* The handshake of GThread::Start and TheThread, and what a user who lets  *)
(* transfers end can rely on, for every number of units and of transfers.    *)
(***************************************************************************)
EXTENDS TcpSender, TLAPS

Early == {"created", "locked", "running", "body"}
Holds == {"locked", "running", "body"}
Past  == {"message", "loop", "read", "send", "again", "end", "gone"}

-----------------------------------------------------------------------------
(* The handshake *)

\* The thread t has called ThreadStarted.
Started(t) == thread[t] \in Past

(* Every thread but the one that Start waits for has called ThreadStarted;     *)
(* continuemutex is held exactly while Start has not seen running, and         *)
(* continuemutex2 by the thread on its way to ThreadStarted.                   *)
HandshakeInv ==
  /\ threadid \in 0..MaxStarts /\ opens \in 0..MaxStarts
  /\ threadid <= opens /\ (user = "start" => threadid < opens)
  /\ thread \in [Threads -> {"none"} \cup Early \cup Past]
  /\ \A t \in Threads : t > threadid => thread[t] = "none"
  /\ \A t \in Threads : t < threadid => Started(t)
  /\ \A t \in Threads : t = threadid /\ user \notin {"wait", "handshake"} => Started(t)
  /\ user \in {"wait", "handshake", "started"} => threadid # 0
  /\ user = "wait" => /\ cm = Caller
                      /\ thread[threadid] \in {"created", "locked", "running"}
                      /\ running => thread[threadid] = "running"
  /\ user = "handshake" => thread[threadid] \notin {"none", "created", "locked"}
  /\ \A t \in Threads : thread[t] \in Holds => cm2 = t

(* The user's steps keep the handshake of Start.                             *)
LEMMA UserKeepsHandshake ==
  ASSUME HandshakeInv, StartFileSend \/ StopFileSend \/ UserStep PROVE HandshakeInv'
<1> USE TcpSenderAssumption
<1>1. CASE StartFileSend
  <2>1. /\ opens < MaxStarts /\ opens' = opens + 1 /\ user = "idle" /\ user' = "start"
        /\ UNCHANGED <<running, cm, cm2, thread, threadid>>
    BY <1>1 DEF StartFileSend, User, Flags, Mutexes, Thread
  <2>2. opens' \in 0..MaxStarts /\ threadid < opens'
    BY <2>1 DEF HandshakeInv
  <2> QED
    BY <2>1, <2>2 DEF HandshakeInv, Started
<1>2. CASE StartCreates
  <2>1. /\ user = "start" /\ user' = "wait" /\ ~running /\ ~running'
        /\ cm' = Caller /\ cm2' = cm2 /\ opens' = opens /\ threadid' = threadid + 1
        /\ thread' = [thread EXCEPT ![threadid + 1] = "created"]
    BY <1>2 DEF StartCreates, User, Flags, File
  <2>2. threadid + 1 \in Threads /\ threadid \in Nat /\ threadid' <= opens' /\ threadid' # 0
    BY <2>1 DEF HandshakeInv, Threads
  <2>3. \A t \in Threads : thread'[t] = IF t = threadid + 1 THEN "created" ELSE thread[t]
    BY <2>1, <2>2 DEF HandshakeInv
  <2>4. thread' \in [Threads -> {"none"} \cup Early \cup Past]
    BY <2>1 DEF HandshakeInv, Early
  <2>5. threadid' \in 0..MaxStarts /\ opens' \in 0..MaxStarts
    BY <2>1, <2>2 DEF HandshakeInv, Threads
  <2>6. \A t \in Threads : t < threadid' => t < threadid \/ t = threadid
    BY <2>1, <2>2 DEF Threads
  <2>7. \A t \in Threads : t < threadid' => Started(t)'
    <3> SUFFICES ASSUME NEW t \in Threads, t < threadid' PROVE Started(t)'
      OBVIOUS
    <3>1. Started(t)
      BY <2>1, <2>6 DEF HandshakeInv
    <3>2. t # threadid + 1
      BY <2>1, <2>2 DEF Threads
    <3> QED
      BY <2>3, <3>1, <3>2 DEF Started
  <2>8. \A t \in Threads : t > threadid' => thread'[t] = "none"
    BY <2>1, <2>2, <2>3 DEF HandshakeInv, Threads
  <2>9. \A t \in Threads : thread'[t] \in Holds => cm2' = t
    BY <2>1, <2>3 DEF HandshakeInv, Holds
  <2>10. thread'[threadid'] = "created"
    BY <2>1, <2>2, <2>3
  <2> QED
    BY <2>1, <2>2, <2>4, <2>5, <2>7, <2>8, <2>9, <2>10 DEF HandshakeInv
<1>3. ASSUME UNCHANGED <<opens, threadid, thread, cm2>>, user' \notin {"start", "wait"},
             user' = "handshake" => user = "wait" /\ running,
             user' = "started" => user = "handshake",
             user' \notin {"wait", "handshake"} /\ threadid # 0
               => user \notin {"wait", "handshake"} \/ Started(threadid)
      PROVE  HandshakeInv'
  <2>1. user' = "handshake" => thread[threadid] = "running"
    BY <1>3 DEF HandshakeInv
  <2>2. ASSUME NEW t \in Threads, t = threadid, user' \notin {"wait", "handshake"}
        PROVE  Started(t)
    BY <1>3, <2>2 DEF HandshakeInv, Threads
  <2> QED
    BY <1>3, <2>1, <2>2 DEF HandshakeInv, Started
<1>4. CASE \/ StartRefused \/ StartFails \/ SetRunning
           \/ StopFileSend \/ StopSlept \/ StopAsks \/ Kill \/ StopCloses
  <2>1. /\ UNCHANGED <<opens, threadid, thread, cm2>>
        /\ user' \notin {"start", "wait", "handshake", "started"}
        /\ user \notin {"wait", "handshake"}
    BY <1>4 DEF StartRefused, StartFails, SetRunning, StopSlept, StopAsks, Kill, StopCloses,
       StopFileSend, User, Mutexes, File, Thread
  <2> QED
    BY <1>3, <2>1
<1>5. CASE StartSawRunning
  BY <1>3, <1>5 DEF StartSawRunning, User, File, Thread
<1>6. CASE StartReturns
  <2>1. /\ UNCHANGED <<opens, threadid, thread, cm2>> /\ cm2 = Free
        /\ user = "handshake" /\ user' = "started"
    BY <1>6 DEF StartReturns, User, Mutexes, File, Thread
  <2>2. threadid \in Threads
    BY <2>1 DEF HandshakeInv, Threads
  <2>3. thread[threadid] \notin Holds
    BY <2>1, <2>2 DEF HandshakeInv, Threads, Free
  <2>4. Started(threadid)
    BY <2>1, <2>2, <2>3 DEF HandshakeInv, Started, Early, Holds
  <2> QED
    BY <1>3, <2>1, <2>4
<1> QED
  BY <1>1, <1>2, <1>4, <1>5, <1>6 DEF UserStep

(* The steps of a sender thread keep the handshake of Start.                 *)
LEMMA ThreadKeepsHandshake ==
  ASSUME HandshakeInv, NEW t \in Threads, ThreadStep(t) PROVE HandshakeInv'
<1> USE TcpSenderAssumption
<1>0. UNCHANGED <<user, threadid, opens, cm>>
  BY DEF ThreadStep, OwnStep, SendStep, LockSecond, SetsRunning, Continue, ThreadStarted,
     SendMessage, Loop, ReadUnit, ReadNothing, SendUnit, SelectFails, SendFails, SendAgain,
     Cancelled, Ends, UserSide, File, Mutexes
<1>1. thread[t] \notin Past => t = threadid /\ user \in {"wait", "handshake"}
  <2>1. thread[t] # "none"
    BY DEF ThreadStep, OwnStep, SendStep, LockSecond, SetsRunning, Continue, ThreadStarted,
       SendMessage, Loop, ReadUnit, ReadNothing, SendUnit, SelectFails, SendFails, SendAgain,
       Cancelled, Ends, Go
  <2>2. t <= threadid
    BY <2>1 DEF HandshakeInv, Threads
  <2> QED
    BY <2>2 DEF HandshakeInv, Started, Threads
<1>2. ASSUME NEW to \in Past, thread' = [thread EXCEPT ![t] = to], Started(t),
             running' => running, cm2' = cm2
      PROVE  HandshakeInv'
  <2>1. \A u \in Threads : thread'[u] = IF u = t THEN to ELSE thread[u]
    BY <1>2 DEF HandshakeInv
  <2>2. thread' \in [Threads -> {"none"} \cup Early \cup Past]
    BY <1>2 DEF HandshakeInv
  <2>3. /\ user = "wait" => threadid # t
        /\ \A u \in Threads : u > threadid => u # t
    BY <1>2 DEF HandshakeInv, Started, Past
  <2>4. \A u \in Threads : Started(u) => Started(u)'
    BY <1>2, <2>1 DEF Started
  <2>5. user \in {"wait", "handshake"} => threadid \in Threads
    BY DEF HandshakeInv, Threads
  <2>6. \A u \in Threads : thread'[u] \in Holds => cm2' = u
    BY <1>2, <2>1 DEF HandshakeInv, Holds, Past
  <2>7. user = "wait" => thread'[threadid] = thread[threadid]
    BY <2>1, <2>3, <2>5
  <2>8. user = "handshake" => thread'[threadid] \notin {"none", "created", "locked"}
    BY <2>1, <2>5 DEF HandshakeInv, Past
  <2> QED
    BY <1>0, <1>2, <2>1, <2>2, <2>3, <2>4, <2>6, <2>7, <2>8 DEF HandshakeInv
<1>3. ASSUME NEW to \in Holds \cup {"message"}, thread' = [thread EXCEPT ![t] = to],
             t = threadid, user \in {"wait", "handshake"},
             user = "wait" => to \in {"locked", "running"} /\ (running' => to = "running"),
             user = "handshake" => to # "locked",
             cm2' = IF to = "message" THEN Free ELSE t,
             cm2 \in {Free, t}
      PROVE  HandshakeInv'
  <2>1. \A u \in Threads : thread'[u] = IF u = t THEN to ELSE thread[u]
    BY <1>3 DEF HandshakeInv
  <2>2. thread' \in [Threads -> {"none"} \cup Early \cup Past]
    BY <1>3 DEF HandshakeInv, Early, Holds, Past
  <2>3. \A u \in Threads : u # t => u # Free /\ thread[u] \notin Holds
    BY <1>3 DEF HandshakeInv, Threads, Free
  <2>4. \A u \in Threads : thread'[u] \in Holds => cm2' = u
    BY <1>3, <2>1, <2>3 DEF Holds
  <2>5. \A u \in Threads : u # t => (Started(u)' <=> Started(u))
    BY <2>1 DEF Started
  <2> QED
    BY <1>0, <1>3, <2>1, <2>2, <2>4, <2>5 DEF HandshakeInv, Holds, Threads
<1>4. CASE LockSecond(t)
  <2>1. /\ thread[t] = "created" /\ thread' = [thread EXCEPT ![t] = "locked"]
        /\ cm2 = Free /\ cm2' = t /\ running' = running
    BY <1>4 DEF LockSecond, Go, Flags
  <2>2. t = threadid /\ user = "wait" /\ ~running
    BY <1>1, <2>1 DEF HandshakeInv, Past
  <2> QED
    BY <1>3, <2>1, <2>2 DEF Holds
<1>5. CASE SetsRunning(t)
  <2>1. /\ thread[t] = "locked" /\ thread' = [thread EXCEPT ![t] = "running"] /\ cm2' = cm2
    BY <1>5 DEF SetsRunning, Go, Mutexes
  <2>2. t = threadid /\ user \in {"wait", "handshake"} /\ cm2 = t
    BY <1>1, <2>1 DEF HandshakeInv, Past, Holds
  <2> QED
    BY <1>3, <2>1, <2>2 DEF Holds
<1>6. CASE Continue(t)
  <2>1. /\ thread[t] = "running" /\ thread' = [thread EXCEPT ![t] = "body"] /\ cm2' = cm2
        /\ cm = Free
    BY <1>6 DEF Continue, Go, Mutexes
  <2>2. t = threadid /\ user = "handshake" /\ cm2 = t
    BY <1>1, <2>1 DEF HandshakeInv, Past, Holds, Caller, Free
  <2> QED
    BY <1>3, <2>1, <2>2 DEF Holds
<1>7. CASE ThreadStarted(t)
  <2>1. /\ thread[t] = "body" /\ thread' = [thread EXCEPT ![t] = "message"] /\ cm2' = Free
    BY <1>7 DEF ThreadStarted, Go
  <2>2. t = threadid /\ user = "handshake" /\ cm2 = t
    BY <1>1, <2>1 DEF HandshakeInv, Past, Holds
  <2> QED
    BY <1>3, <2>1, <2>2 DEF Holds
<1>8. CASE SendStep(t) \/ Loop(t) \/ ReadUnit(t) \/ ReadNothing(t) \/ Cancelled(t) \/ Ends(t)
  <2>1. /\ thread[t] \in Past /\ \E to \in Past : thread' = [thread EXCEPT ![t] = to]
    BY <1>8 DEF SendStep, SendMessage, Loop, ReadUnit, ReadNothing, SendUnit, SelectFails,
       SendFails, SendAgain, Cancelled, Ends, Go, Past
  <2>2. cm2' = cm2 /\ (running' => running)
    BY <1>8 DEF SendStep, SendMessage, Loop, ReadUnit, ReadNothing, SendUnit, SelectFails,
       SendFails, SendAgain, Cancelled, Ends, Mutexes, Flags
  <2> QED
    BY <1>2, <2>1, <2>2 DEF Started
<1> QED
  BY <1>4, <1>5, <1>6, <1>7, <1>8 DEF ThreadStep, OwnStep, SendStep

(* The handshake of Start and TheThread holds at every step.                 *)
LEMMA Handshake == Spec => []HandshakeInv
<1>1. Init => HandshakeInv
  BY TcpSenderAssumption DEF Init, HandshakeInv, Threads, Early, Past, Holds
<1>2. HandshakeInv /\ [Next]_vars => HandshakeInv'
  <2>1. HandshakeInv /\ UNCHANGED vars => HandshakeInv'
    BY DEF vars, HandshakeInv, Started
  <2>2. HandshakeInv /\ (Connect \/ PeerResets) => HandshakeInv'
    BY DEF Connect, PeerResets, User, Flags, Mutexes, File, Thread, HandshakeInv, Started
  <2> QED
    BY <2>1, <2>2, UserKeepsHandshake, ThreadKeepsHandshake DEF Next
<1> QED
  BY <1>1, <1>2, PTL DEF Spec

(* Start comes back to a thread that has called ThreadStarted.                *)
THEOREM StartIsStarted == Spec => []StartMeansStarted
<1>1. HandshakeInv => StartMeansStarted
  <2> SUFFICES ASSUME HandshakeInv, user = "started"
               PROVE  thread[threadid] \notin {"none", "created", "locked", "running", "body"}
    BY DEF StartMeansStarted
  <2>1. threadid \in Threads
    BY TcpSenderAssumption DEF HandshakeInv, Threads
  <2> QED
    BY <2>1 DEF HandshakeInv, Started, Past
<1> QED
  BY <1>1, Handshake, PTL

(* No thread enters Thread() while Start still waits for running.             *)
THEOREM BodyWaits == Spec => []BodyAfterHandshake
<1>1. HandshakeInv => BodyAfterHandshake
  BY DEF HandshakeInv, BodyAfterHandshake, InBody
<1> QED
  BY <1>1, Handshake, PTL

-----------------------------------------------------------------------------
(* Transfers that end by themselves *)

(* As long as no transfer is stopped or overtaken there is one thread at a     *)
(* time, it has a file, nobody is cancelled, and running is its own.           *)
AloneInv == ~early =>
  /\ cancelled = {}
  /\ user \notin {"sleep", "asked", "kill"}
  /\ \A t \in Threads : Live(t) => t = threadid /\ file = "open" /\ user \notin {"start", "close"}
  /\ user \in {"start", "wait", "handshake", "started"} => file = "open"
  /\ running <=> \E t \in Threads : thread[t] \in {"running", "end"} \/ InBody(t)

\* What the thread t has sent or lost and what is left make up the file.
Transfer(t) ==
  /\ thread[t] \in {"none", "created", "locked", "running", "body", "message"}
       => sent[t] = 0 /\ lost[t] = 0
  /\ thread[t] \in {"created", "locked", "running", "body", "message"} => unread = Units
  /\ thread[t] = "loop" => /\ sent[t] + lost[t] + unread = Units
                           /\ sent[t] + lost[t] # 0 => mRunning
  /\ thread[t] = "read" => sent[t] + lost[t] + unread = Units /\ unread > 0 /\ mRunning
  /\ thread[t] \in {"send", "again"} => sent[t] + lost[t] + unread + 1 = Units /\ mRunning
  /\ thread[t] \in {"end", "gone"} => sent[t] + lost[t] \in {0, Units}

TransferInv ==
  /\ unread \in 0..Units /\ mRunning \in BOOLEAN
  /\ sent \in [Threads -> Nat] /\ lost \in [Threads -> Nat]
  /\ ~early => /\ user = "start" => unread = Units
               /\ \A t \in Threads : Transfer(t)

(* A thread that is started and lives has running set.                       *)
LEMMA LiveRuns ==
  ASSUME HandshakeInv, AloneInv, ~early, ~running, user \notin {"wait", "handshake"}
  PROVE  \A t \in Threads : ~Live(t)
<1> SUFFICES ASSUME NEW t \in Threads, Live(t) PROVE FALSE
  OBVIOUS
<1>1. t = threadid /\ Started(t)
  BY DEF HandshakeInv, AloneInv
<1> QED
  BY <1>1 DEF AloneInv, Started, Past, Live, InBody

(* The user's steps keep one sender thread at work.                          *)
LEMMA UserKeepsAlone ==
  ASSUME HandshakeInv, AloneInv, StartFileSend \/ StopFileSend \/ UserStep PROVE AloneInv'
<1> USE TcpSenderAssumption
<1>1. CASE early'
  BY <1>1 DEF AloneInv
<1>2. ASSUME ~early', ~early, UNCHANGED <<running, thread, threadid, cancelled>>,
             user' \notin {"sleep", "asked", "kill"},
             file' \in {file, "open"} \/ (~running /\ user \notin {"wait", "handshake"}),
             user' \in {"start", "wait", "handshake", "started"}
               => file' = "open" \/ (file' = file /\ user \in {"start", "wait", "handshake", "started"}),
             user' \in {"start", "close"} => ~running /\ user \notin {"wait", "handshake"}
      PROVE  AloneInv'
  <2>1. user' \in {"start", "close"} => \A t \in Threads : ~Live(t)
    BY <1>2, LiveRuns
  <2>2. ~running /\ user \notin {"wait", "handshake"} => \A t \in Threads : ~Live(t)
    BY <1>2, LiveRuns
  <2>3. \A t \in Threads : Live(t)' <=> Live(t)
    BY <1>2 DEF Live
  <2> QED
    BY <1>2, <2>1, <2>2, <2>3 DEF AloneInv, InBody
<1>3. CASE StartFileSend /\ ~early'
  <2>1. /\ UNCHANGED <<running, thread, threadid, cancelled>> /\ file' = "open" /\ ~early
        /\ (\A t \in Threads : ~Live(t)) /\ user = "idle" /\ user' = "start"
    BY <1>3 DEF StartFileSend, User, Flags, Thread
  <2>2. ~running
    BY <2>1 DEF AloneInv, Live, InBody
  <2> QED
    BY <1>2, <1>3, <2>1, <2>2
<1>4. CASE StopFileSend /\ ~early'
  <2>1. /\ UNCHANGED <<running, thread, threadid, cancelled, file>> /\ ~early /\ ~running
        /\ user = "idle" /\ user' = "close"
    BY <1>4 DEF StopFileSend, User, Flags, Thread, File
  <2> QED
    BY <1>2, <1>4, <2>1
<1>5. CASE StartRefused \/ StartFails \/ StartSawRunning \/ StartReturns \/ SetRunning
  <2>1. /\ UNCHANGED <<running, thread, threadid, cancelled, file, early>>
        /\ user' \in {"idle", "handshake", "started"}
        /\ user \in {"start", "wait", "handshake", "started"}
    BY <1>5 DEF StartRefused, StartFails, StartSawRunning, StartReturns, SetRunning, User, Flags,
       Thread, File
  <2> QED
    BY <1>1, <1>2, <2>1
<1>6. CASE StopCloses
  <2>1. /\ UNCHANGED <<running, thread, threadid, cancelled, early>>
        /\ user = "close" /\ user' = "idle"
    BY <1>6 DEF StopCloses, User, Thread
  <2>2. ~early => \A t \in Threads : ~Live(t)
    BY <2>1 DEF AloneInv
  <2>3. ~early => ~running
    BY <2>2 DEF AloneInv, Live, InBody
  <2> QED
    BY <1>1, <1>2, <2>1, <2>3
<1>7. CASE StopSlept \/ StopAsks \/ Kill
  <2>1. user \in {"sleep", "asked", "kill"} /\ early' = early
    BY <1>7 DEF StopSlept, StopAsks, Kill, User
  <2> QED
    BY <1>1, <2>1 DEF AloneInv
<1>8. CASE StartCreates
  <2>1. /\ user = "start" /\ user' = "wait" /\ ~running /\ running' = running
        /\ UNCHANGED <<early, file, cancelled>> /\ threadid' = threadid + 1
        /\ thread' = [thread EXCEPT ![threadid + 1] = "created"]
    BY <1>8 DEF StartCreates, User, Flags, File
  <2>2. \A t \in Threads : thread'[t] = IF t = threadid + 1 THEN "created" ELSE thread[t]
    BY <2>1 DEF HandshakeInv
  <2>3. ~early => \A t \in Threads : ~Live(t)
    BY <2>1, LiveRuns
  <2>4. ~early => \A t \in Threads : Live(t)' => t = threadid'
    BY <2>1, <2>2, <2>3 DEF Live
  <2>5. ~early => \A t \in Threads : ~(thread'[t] \in {"running", "end"} \/ InBody(t)')
    BY <2>2, <2>3 DEF Live, InBody
  <2> QED
    BY <2>1, <2>4, <2>5 DEF AloneInv
<1> QED
  BY <1>1, <1>3, <1>4, <1>5, <1>6, <1>7, <1>8 DEF UserStep

(* The steps of a sender thread keep one of them at work.                    *)
LEMMA ThreadKeepsAlone ==
  ASSUME HandshakeInv, AloneInv, NEW t \in Threads, ThreadStep(t) PROVE AloneInv'
<1>0. UNCHANGED <<user, threadid, early, cancelled, file>>
  BY DEF ThreadStep, OwnStep, SendStep, LockSecond, SetsRunning, Continue, ThreadStarted,
     SendMessage, Loop, ReadUnit, ReadNothing, SendUnit, SelectFails, SendFails, SendAgain,
     Cancelled, Ends, UserSide, File
<1>1. CASE early
  BY <1>0, <1>1 DEF AloneInv
<1>2. ASSUME ~early, Live(t), NEW to, thread' = [thread EXCEPT ![t] = to],
             running' <=> to \in {"running", "end", "body", "message", "loop", "read", "send", "again"}
      PROVE  AloneInv'
  <2>1. \A u \in Threads : thread'[u] = IF u = t THEN to ELSE thread[u]
    BY <1>2 DEF HandshakeInv
  <2>2. \A u \in Threads : u # t => ~Live(u)
    BY <1>2 DEF AloneInv
  <2>3. \A u \in Threads : Live(u)' => Live(u)
    BY <1>2, <2>1 DEF Live
  <2>4. running' <=> \E u \in Threads : thread'[u] \in {"running", "end"} \/ InBody(u)'
    BY <1>2, <2>1, <2>2 DEF Live, InBody
  <2> QED
    BY <1>0, <1>2, <2>3, <2>4 DEF AloneInv
<1>3. ~early => (running <=> thread[t] \in {"running", "end", "body", "message", "loop", "read",
                                            "send", "again"})
  <2>1. ~early => \A u \in Threads : Live(u) => u = threadid
    BY DEF AloneInv
  <2>2. Live(t)
    BY DEF ThreadStep, OwnStep, SendStep, LockSecond, SetsRunning, Continue, ThreadStarted,
       SendMessage, Loop, ReadUnit, ReadNothing, SendUnit, SelectFails, SendFails, SendAgain,
       Cancelled, Ends, Go, Live
  <2> QED
    BY <2>1, <2>2 DEF AloneInv, Live, InBody
<1>4. CASE ~early /\ LockSecond(t)
  BY <1>2, <1>3, <1>4 DEF LockSecond, Go, Flags, Live
<1>5. CASE ~early /\ SetsRunning(t)
  BY <1>2, <1>3, <1>5 DEF SetsRunning, Go, Live
<1>6. CASE ~early /\ (Continue(t) \/ ThreadStarted(t) \/ SendMessage(t))
  BY <1>2, <1>3, <1>6 DEF Continue, ThreadStarted, SendMessage, Go, Flags, Live
<1>7. CASE ~early /\ (Loop(t) \/ ReadNothing(t) \/ SendUnit(t) \/ SelectFails(t)
                      \/ SendFails(t) \/ SendAgain(t))
  BY <1>2, <1>3, <1>7 DEF Loop, ReadNothing, SendUnit, SelectFails, SendFails, SendAgain, Go,
     Flags, Live
<1>8. CASE ~early /\ ReadUnit(t)
  <2>1. t \notin cancelled
    BY <1>8 DEF AloneInv
  <2> QED
    BY <1>2, <1>3, <1>8, <2>1 DEF ReadUnit, Go, Flags, Live
<1>9. CASE ~early /\ Cancelled(t)
  BY <1>9 DEF Cancelled, AloneInv
<1>10. CASE ~early /\ Ends(t)
  BY <1>2, <1>10 DEF Ends, Go, Live
<1> QED
  BY <1>1, <1>4, <1>5, <1>6, <1>7, <1>8, <1>9, <1>10 DEF ThreadStep, OwnStep, SendStep

(* As long as transfers are let end, one sender thread is at work.           *)
LEMMA Alone == Spec => [](HandshakeInv /\ AloneInv)
<1>1. Init => AloneInv
  BY DEF Init, AloneInv, Live, InBody
<1>2. HandshakeInv /\ AloneInv /\ [Next]_vars => AloneInv'
  <2>1. AloneInv /\ UNCHANGED vars => AloneInv'
    BY DEF vars, AloneInv, Live, InBody
  <2>2. AloneInv /\ (Connect \/ PeerResets) => AloneInv'
    BY DEF Connect, PeerResets, User, Flags, File, Thread, AloneInv, Live, InBody
  <2> QED
    BY <2>1, <2>2, UserKeepsAlone, ThreadKeepsAlone DEF Next
<1> QED
  BY <1>1, <1>2, Handshake, PTL DEF Spec

(* running is the thread's own, and no file is closed under its reader.       *)
THEOREM RunningIsOwn == Spec => []RunningIsTheThread
<1>1. HandshakeInv /\ AloneInv => RunningIsTheThread
  BY DEF AloneInv, RunningIsTheThread, Live
<1> QED
  BY <1>1, Alone, PTL

(* The user's steps keep a transfer that is whole or not begun.              *)
LEMMA UserKeepsTransfer ==
  ASSUME HandshakeInv, AloneInv, TransferInv, StartFileSend \/ StopFileSend \/ UserStep
  PROVE  TransferInv'
<1> USE TcpSenderAssumption
<1>1. ASSUME UNCHANGED <<thread, sent, lost>>, unread' \in 0..Units, mRunning' \in BOOLEAN,
             ~early' => /\ ~early
                        /\ user' = "start" => unread' = Units
                        /\ unread' = unread \/ \A t \in Threads : ~Live(t)
                        /\ (mRunning => mRunning') \/ \A t \in Threads : ~Live(t)
      PROVE  TransferInv'
  <2> SUFFICES ASSUME ~early', NEW t \in Threads PROVE Transfer(t)'
    BY <1>1 DEF TransferInv
  <2>1. Transfer(t)
    BY <1>1 DEF TransferInv
  <2>2. CASE ~Live(t)
    BY <1>1, <2>1, <2>2 DEF Transfer, Live
  <2>3. CASE Live(t)
    BY <1>1, <2>1, <2>3 DEF Transfer
  <2> QED
    BY <2>2, <2>3
<1>2. CASE StartFileSend
  <2>1. /\ UNCHANGED <<thread, sent, lost, mRunning>> /\ unread' = Units
        /\ early' = (early \/ \E t \in Threads : Live(t))
    BY <1>2 DEF StartFileSend, Flags, Thread, Counts
  <2>2. ~early' => ~early /\ \A t \in Threads : ~Live(t)
    BY <2>1
  <2> QED
    BY <1>1, <2>1, <2>2 DEF TransferInv
<1>3. CASE StopCloses
  <2>1. /\ UNCHANGED <<thread, sent, lost, unread, early>> /\ mRunning' = FALSE
        /\ user = "close" /\ user' = "idle"
    BY <1>3 DEF StopCloses, User, Thread, Counts
  <2>2. ~early => \A t \in Threads : ~Live(t)
    BY <2>1 DEF AloneInv
  <2> QED
    BY <1>1, <2>1, <2>2 DEF TransferInv
<1>4. CASE SetRunning
  <2>1. /\ UNCHANGED <<thread, sent, lost, unread, early>> /\ mRunning' = TRUE /\ user' = "idle"
    BY <1>4 DEF SetRunning, User, Thread, File, Counts
  <2> QED
    BY <1>1, <2>1 DEF TransferInv
<1>5. CASE StartRefused \/ StartFails \/ StartSawRunning \/ StartReturns \/ StopFileSend \/ StopSlept
           \/ StopAsks \/ Kill
  <2>1. /\ UNCHANGED <<thread, sent, lost, unread, mRunning>> /\ user' # "start"
        /\ early' = early \/ early' = (early \/ running)
    BY <1>5 DEF StartRefused, StartFails, StartSawRunning, StartReturns, StopFileSend, StopSlept,
       StopAsks, Kill, User, Thread, File, Flags, Counts
  <2>2. ~early' => ~early
    BY <2>1
  <2> QED
    BY <1>1, <2>1, <2>2 DEF TransferInv
<1>6. CASE StartCreates
  <2>1. /\ user = "start" /\ user' = "wait" /\ ~running
        /\ UNCHANGED <<early, unread, mRunning, sent, lost>>
        /\ thread' = [thread EXCEPT ![threadid + 1] = "created"]
    BY <1>6 DEF StartCreates, User, Flags, File, Counts
  <2>2. \A t \in Threads : thread'[t] = IF t = threadid + 1 THEN "created" ELSE thread[t]
    BY <2>1 DEF HandshakeInv
  <2> SUFFICES ASSUME ~early, NEW t \in Threads PROVE Transfer(t)'
    BY <2>1 DEF TransferInv
  <2>3. Transfer(t) /\ unread = Units
    BY <2>1 DEF TransferInv
  <2>4. CASE t # threadid + 1
    BY <2>1, <2>2, <2>3, <2>4 DEF Transfer
  <2>5. CASE t = threadid + 1
    <3>1. thread[t] = "none"
      BY <2>5 DEF HandshakeInv, Threads
    <3> QED
      BY <2>1, <2>2, <2>3, <2>5, <3>1 DEF Transfer
  <2> QED
    BY <2>4, <2>5
<1> QED
  BY <1>2, <1>3, <1>4, <1>5, <1>6 DEF UserStep

(* The steps of a sender thread keep a transfer whole or not begun.          *)
LEMMA ThreadKeepsTransfer ==
  ASSUME HandshakeInv, AloneInv, TransferInv, NEW t \in Threads, ThreadStep(t)
  PROVE  TransferInv'
<1> USE TcpSenderAssumption
<1>0. UNCHANGED <<user, threadid, early, cancelled, opens>>
  BY DEF ThreadStep, OwnStep, SendStep, LockSecond, SetsRunning, Continue, ThreadStarted,
     SendMessage, Loop, ReadUnit, ReadNothing, SendUnit, SelectFails, SendFails, SendAgain,
     Cancelled, Ends, UserSide, File
<1>1. ~early => user # "start" /\ \A u \in Threads : u # t => ~Live(u)
  <2>1. Live(t)
    BY DEF ThreadStep, OwnStep, SendStep, LockSecond, SetsRunning, Continue, ThreadStarted,
       SendMessage, Loop, ReadUnit, ReadNothing, SendUnit, SelectFails, SendFails, SendAgain,
       Cancelled, Ends, Go, Live
  <2> QED
    BY <2>1 DEF AloneInv
<1>2. /\ unread \in Nat /\ unread <= Units /\ Units \in Nat /\ sent[t] \in Nat /\ lost[t] \in Nat
      /\ mRunning \in BOOLEAN
  BY DEF TransferInv
<1>3. ASSUME NEW to, thread' = [thread EXCEPT ![t] = to],
             unread' \in 0..Units, mRunning' \in BOOLEAN, sent' \in [Threads -> Nat],
             lost' \in [Threads -> Nat],
             \A u \in Threads \ {t} : sent'[u] = sent[u] /\ lost'[u] = lost[u],
             ~early => Transfer(t)'
      PROVE  TransferInv'
  <2>1. \A u \in Threads : u # t => thread'[u] = thread[u]
    BY <1>3 DEF HandshakeInv
  <2> SUFFICES ASSUME ~early, NEW u \in Threads, u # t PROVE Transfer(u)'
    BY <1>0, <1>1, <1>3 DEF TransferInv
  <2>2. Transfer(u) /\ ~Live(u)
    BY <1>1 DEF TransferInv
  <2> QED
    BY <1>3, <2>1, <2>2 DEF Transfer, Live
<1>4. ~early => Transfer(t)
  BY DEF TransferInv
<1>5. ASSUME NEW to, thread' = [thread EXCEPT ![t] = to] PROVE thread'[t] = to
  BY <1>5 DEF HandshakeInv
<1>6. CASE LockSecond(t) \/ SetsRunning(t) \/ Continue(t) \/ ThreadStarted(t) \/ SendMessage(t)
  <2>1. /\ UNCHANGED <<unread, mRunning, sent, lost>>
        /\ thread[t] \in {"created", "locked", "running", "body", "message"}
        /\ \E to \in {"locked", "running", "body", "message", "loop"} :
             thread' = [thread EXCEPT ![t] = to]
    BY <1>6 DEF LockSecond, SetsRunning, Continue, ThreadStarted, SendMessage, Go, Flags, File,
       Counts
  <2>2. PICK to \in {"locked", "running", "body", "message", "loop"} :
          thread' = [thread EXCEPT ![t] = to]
    BY <2>1
  <2>3. ~early => Transfer(t)'
    BY <1>2, <1>4, <1>5, <2>1, <2>2 DEF Transfer
  <2> QED
    BY <1>3, <2>1, <2>2, <2>3 DEF TransferInv
<1>7. CASE Loop(t)
  <2>1. /\ thread[t] = "loop" /\ UNCHANGED <<unread, sent, lost>>
        /\ thread' = [thread EXCEPT ![t] = IF mRunning /\ unread > 0 THEN "read" ELSE "end"]
        /\ mRunning' = (mRunning /\ unread > 0)
    BY <1>7 DEF Loop, Go, File, Counts
  <2>2. thread'[t] = IF mRunning /\ unread > 0 THEN "read" ELSE "end"
    BY <1>5, <2>1
  <2>3. ~early => Transfer(t)'
    BY <1>2, <1>4, <2>1, <2>2 DEF Transfer
  <2> QED
    BY <1>3, <2>1, <2>3 DEF TransferInv
<1>8. CASE ReadUnit(t)
  <2>1. /\ thread[t] = "read" /\ UNCHANGED <<mRunning, sent, lost>> /\ unread > 0 /\ unread' = unread - 1
        /\ thread' = [thread EXCEPT ![t] = IF t \in cancelled THEN "gone" ELSE "send"]
    BY <1>8 DEF ReadUnit, Go, Flags, Counts
  <2>2. ~early => thread'[t] = "send"
    BY <1>5, <2>1 DEF AloneInv
  <2>3. ~early => Transfer(t)'
    BY <1>2, <1>4, <2>1, <2>2 DEF Transfer
  <2>4. unread' \in 0..Units
    BY <1>2, <2>1
  <2> QED
    BY <1>3, <2>1, <2>3, <2>4 DEF TransferInv
<1>9. CASE ReadNothing(t)
  <2>1. /\ thread[t] = "read" /\ UNCHANGED <<mRunning, sent, lost, unread>> /\ unread = 0
        /\ thread' = [thread EXCEPT ![t] = "loop"]
    BY <1>9 DEF ReadNothing, Go, Flags, File, Counts
  <2>2. ~early => FALSE
    BY <1>4, <2>1 DEF Transfer
  <2> QED
    BY <1>3, <2>1, <2>2 DEF TransferInv
<1>10. ASSUME NEW n \in {"sent", "lost"}, thread[t] \in {"send", "again"},
              thread' = [thread EXCEPT ![t] = "loop"], UNCHANGED <<mRunning, unread>>,
              n = "sent" => sent' = [sent EXCEPT ![t] = @ + 1] /\ lost' = lost,
              n = "lost" => lost' = [lost EXCEPT ![t] = @ + 1] /\ sent' = sent
       PROVE  TransferInv'
  <2>1. sent \in [Threads -> Nat] /\ lost \in [Threads -> Nat]
    BY DEF TransferInv
  <2>2. sent' \in [Threads -> Nat] /\ lost' \in [Threads -> Nat]
    BY <1>2, <1>10, <2>1
  <2>3. sent'[t] + lost'[t] = sent[t] + lost[t] + 1
    <3>1. CASE n = "sent"
      BY <1>2, <1>10, <2>1, <3>1
    <3>2. CASE n = "lost"
      BY <1>2, <1>10, <2>1, <3>2
    <3> QED
      BY <3>1, <3>2
  <2>4. \A u \in Threads \ {t} : sent'[u] = sent[u] /\ lost'[u] = lost[u]
    BY <1>10, <2>1
  <2>5. thread'[t] = "loop"
    BY <1>5, <1>10
  <2>6. ~early => Transfer(t)'
    BY <1>2, <1>4, <1>10, <2>2, <2>3, <2>5 DEF Transfer
  <2> QED
    BY <1>3, <1>10, <2>2, <2>4, <2>6 DEF TransferInv
<1>11. CASE SendUnit(t)
  <2>1. /\ thread[t] = "send" /\ UNCHANGED <<mRunning, unread>>
        /\ thread' = [thread EXCEPT ![t] = "loop"]
        /\ sent' = [sent EXCEPT ![t] = @ + 1] /\ lost' = lost
    BY <1>11 DEF SendUnit, Go, Flags, File
  <2> QED
    BY <1>10, <2>1
<1>12. CASE SelectFails(t) \/ SendAgain(t)
  <2>1. /\ thread[t] \in {"send", "again"} /\ UNCHANGED <<mRunning, unread>>
        /\ thread' = [thread EXCEPT ![t] = "loop"]
        /\ lost' = [lost EXCEPT ![t] = @ + 1] /\ sent' = sent
    BY <1>12 DEF SelectFails, SendAgain, Go, Flags, File
  <2> QED
    BY <1>10, <2>1
<1>13. CASE SendFails(t)
  <2>1. /\ thread[t] = "send" /\ UNCHANGED <<mRunning, unread, sent, lost>>
        /\ thread' = [thread EXCEPT ![t] = "again"]
    BY <1>13 DEF SendFails, Go, Flags, File, Counts
  <2>2. ~early => Transfer(t)'
    BY <1>4, <1>5, <2>1 DEF Transfer
  <2> QED
    BY <1>3, <2>1, <2>2 DEF TransferInv
<1>14. CASE Cancelled(t)
  <2>1. /\ t \in cancelled /\ UNCHANGED <<mRunning, unread, sent, lost>>
        /\ thread' = [thread EXCEPT ![t] = "gone"]
    BY <1>14 DEF Cancelled, Flags, File, Counts
  <2>2. ~early => FALSE
    BY <2>1 DEF AloneInv
  <2> QED
    BY <1>3, <2>1, <2>2 DEF TransferInv
<1>15. CASE Ends(t)
  <2>1. /\ thread[t] = "end" /\ UNCHANGED <<mRunning, unread, sent, lost>>
        /\ thread' = [thread EXCEPT ![t] = "gone"]
    BY <1>15 DEF Ends, Go, File, Counts
  <2>2. ~early => Transfer(t)'
    BY <1>4, <1>5, <2>1 DEF Transfer
  <2> QED
    BY <1>3, <2>1, <2>2 DEF TransferInv
<1> QED
  BY <1>6, <1>7, <1>8, <1>9, <1>11, <1>12, <1>13, <1>14, <1>15 DEF ThreadStep, OwnStep, SendStep

(* A transfer that nobody stops takes each unit of its file to the socket     *)
(* once, or none; those not sent are those whose own select or send failed.   *)
THEOREM UnitsAreTaken == Spec => []EachUnitOnce
<1>1. Init => TransferInv
  <2> SUFFICES ASSUME Init PROVE TransferInv
    OBVIOUS
  <2>1. mRunning \in BOOLEAN /\ user # "start"
    BY DEF Init
  <2>4. unread \in 0..Units
    <3>1. unread = 0 /\ Units \in Nat
      BY TcpSenderAssumption DEF Init
    <3> QED
      BY <3>1
  <2>3. sent \in [Threads -> Nat] /\ lost \in [Threads -> Nat]
    <3>1. sent = [t \in Threads |-> 0] /\ lost = [t \in Threads |-> 0]
      BY DEF Init
    <3> QED
      BY <3>1
  <2>2. ASSUME NEW t \in Threads PROVE Transfer(t)
    <3>1. thread[t] = "none" /\ sent[t] = 0 /\ lost[t] = 0
      BY DEF Init
    <3> QED
      BY <3>1 DEF Transfer
  <2> QED
    BY <2>1, <2>2, <2>3, <2>4 DEF TransferInv
<1>2. HandshakeInv /\ AloneInv /\ TransferInv /\ [Next]_vars => TransferInv'
  <2>1. TransferInv /\ UNCHANGED vars => TransferInv'
    BY DEF vars, TransferInv, Transfer
  <2>2. TransferInv /\ (Connect \/ PeerResets) => TransferInv'
    BY DEF Connect, PeerResets, User, Flags, File, Thread, Counts, TransferInv, Transfer
  <2> QED
    BY <2>1, <2>2, UserKeepsTransfer, ThreadKeepsTransfer DEF Next
<1>3. TransferInv => EachUnitOnce
  BY DEF TransferInv, Transfer, EachUnitOnce
<1> QED
  BY <1>1, <1>2, <1>3, Alone, PTL DEF Spec
=============================================================================
