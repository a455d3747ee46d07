------------------------------- MODULE TcpSender -------------------------------
(***************************************************************************)
(* The sender of EventClient (EventClient/TcpSender.cpp) on its GThread     *)
(* (common/gthread/gthread.cpp): the user's thread starts and stops the     *)
(* transfer of a file, the thread of the GThread reads the file and sends   *)
(* it.  Start and TheThread hand over through two mutexes and the flag      *)
(* running; the user's thread and the sender share mRunning and mFile.      *)
(*                                                                          *)
(* The results of sendEx are not looked at: a unit whose select or send     *)
(* fails is lost and the thread goes on with the next.  A failed send is    *)
(* tried again with a length one too large; the message before the units    *)
(* too, which changes nothing the model tells apart.  The model is of a     *)
(* process that ignores SIGPIPE; another one ends at the second failure.    *)
(***************************************************************************)
EXTENDS Naturals, FiniteSets

CONSTANTS
  Units,     \* NAL units in a file
  MaxStarts, \* bound: calls of startFileSend
  Cancels    \* Kill calls pthread_cancel; if not, a signal the process blocks

ASSUME TcpSenderAssumption ==
  /\ Units \in Nat /\ MaxStarts \in Nat \ {0}
  /\ Cancels \in BOOLEAN

VARIABLES
  running,    \* of the GThread, under runningmutex
  cm,         \* continuemutex: 0 if it is free, else who holds it
  cm2,        \* continuemutex2
  mRunning,   \* of the TcpSender
  file,       \* mFile: "none", "open" or "closed"
  unread,     \* units of mFile not yet read
  opens,      \* files opened so far
  sock,       \* mSockId: "none", "up", or "reset" by the peer
  user,       \* where the user's thread is
  early,      \* the user has stopped a transfer, or started the next, before its end
  thread,     \* where each thread is
  threadid,   \* the thread created last
  cancelled,  \* threads with a pthread_cancel pending
  sent,       \* units each thread has sent
  lost        \* units each thread has read and not sent, or not as they are

vars == <<running, cm, cm2, mRunning, file, unread, opens, sock, user, early, thread,
          threadid, cancelled, sent, lost>>

Threads == 1..MaxStarts
Caller  == MaxStarts + 1   \* the user's thread as the holder of a mutex
Free    == 0

Init ==
  /\ running = FALSE /\ cm = Free /\ cm2 = Free
  /\ mRunning = FALSE /\ file = "none" /\ unread = 0 /\ opens = 0
  /\ sock = "none" /\ user = "idle" /\ early = FALSE
  /\ thread = [t \in Threads |-> "none"] /\ threadid = 0
  /\ cancelled = {} /\ sent = [t \in Threads |-> 0] /\ lost = [t \in Threads |-> 0]
-----------------------------------------------------------------------------
(* startFileSend and GThread::Start *)

User(from, to) == user = from /\ user' = to
Flags    == <<running, mRunning>>
Mutexes  == <<cm, cm2>>
File     == <<file, unread, opens>>
Counts   == <<sent, lost>>
Thread   == <<thread, threadid, cancelled, Counts>>

Live(t) == thread[t] \notin {"none", "gone"}

\* TcpSender::connect; when it fails mSockId stays as it is.
Connect ==
  /\ User("idle", "idle")
  /\ sock' = "up"
  /\ UNCHANGED <<Flags, Mutexes, File, early, Thread>>

\* OpenBitstreamFile comes before IsRunning() is asked: a thread that is at work
\* goes on with the new file.
StartFileSend ==
  /\ opens < MaxStarts
  /\ User("idle", "start")
  /\ early' = (early \/ \E t \in Threads : Live(t))
  /\ file' = "open" /\ unread' = Units /\ opens' = opens + 1
  /\ UNCHANGED <<Flags, Mutexes, sock, Thread>>

StartRefused ==
  /\ User("start", "idle")
  /\ running
  /\ UNCHANGED <<Flags, Mutexes, File, sock, early, Thread>>

\* continuemutex is locked, then pthread_create.
StartCreates ==
  /\ User("start", "wait")
  /\ ~running /\ cm = Free
  /\ cm' = Caller
  /\ threadid' = threadid + 1
  /\ thread' = [thread EXCEPT ![threadid + 1] = "created"]
  /\ UNCHANGED <<Flags, cm2, File, sock, early, cancelled, Counts>>

\* A mutex cannot be made, or pthread_create fails and continuemutex is unlocked.
StartFails ==
  /\ User("start", "idle")
  /\ ~running /\ cm = Free
  /\ UNCHANGED <<Flags, Mutexes, File, sock, early, Thread>>

\* Mutant of StartSawRunning: continuemutex is not unlocked.
StartSawRunningHolds ==
  /\ User("wait", "handshake")
  /\ running
  /\ UNCHANGED <<Flags, Mutexes, File, sock, early, Thread>>

\* while (!running): the thread may go on to its body.
StartSawRunning ==
  /\ User("wait", "handshake")
  /\ running
  /\ cm' = Free
  /\ UNCHANGED <<Flags, cm2, File, sock, early, Thread>>

\* Mutant of StartReturns: continuemutex2 is not asked for.
StartReturnsEarly ==
  /\ User("handshake", "started")
  /\ UNCHANGED <<Flags, Mutexes, File, sock, early, Thread>>

\* continuemutex2.Lock() and Unlock().
StartReturns ==
  /\ User("handshake", "started")
  /\ cm2 = Free
  /\ UNCHANGED <<Flags, Mutexes, File, sock, early, Thread>>

SetRunning ==
  /\ User("started", "idle")
  /\ mRunning' = TRUE
  /\ UNCHANGED <<running, Mutexes, File, sock, early, Thread>>

-----------------------------------------------------------------------------
(* stopFileSend and GThread::Kill *)

StopFileSend ==
  /\ file = "open"
  /\ User("idle", IF running THEN "sleep" ELSE "close")
  /\ early' = (early \/ running)
  /\ UNCHANGED <<Flags, Mutexes, File, sock, Thread>>

\* usleep and done = true: the loop has one turn.
StopSlept ==
  /\ User("sleep", "asked")
  /\ UNCHANGED <<Flags, Mutexes, File, sock, early, Thread>>

StopAsks ==
  /\ User("asked", IF running THEN "kill" ELSE "close")
  /\ UNCHANGED <<Flags, Mutexes, File, sock, early, Thread>>

\* Kill asks again, under runningmutex.
Kill ==
  /\ User("kill", "close")
  /\ running' = FALSE
  /\ cancelled' = IF running /\ Cancels THEN cancelled \cup {threadid} ELSE cancelled
  /\ UNCHANGED <<mRunning, Mutexes, File, sock, early, thread, threadid, Counts>>

StopCloses ==
  /\ User("close", "idle")
  /\ mRunning' = FALSE
  /\ file' = "closed"
  /\ UNCHANGED <<running, Mutexes, unread, opens, sock, early, Thread>>

UserStep == \/ StartRefused \/ StartCreates \/ StartFails \/ StartSawRunning \/ StartReturns
            \/ SetRunning \/ StopSlept \/ StopAsks \/ Kill \/ StopCloses

-----------------------------------------------------------------------------
(* GThread::TheThread and TcpSender::Thread *)

Go(t, from, to) == thread[t] = from /\ thread' = [thread EXCEPT ![t] = to]
UserSide == <<sock, user, early, threadid, cancelled>>

\* continuemutex2.Lock()
LockSecond(t) ==
  /\ Go(t, "created", "locked")
  /\ cm2 = Free /\ cm2' = t
  /\ UNCHANGED <<Flags, cm, File, UserSide, Counts>>

SetsRunning(t) ==
  /\ Go(t, "locked", "running")
  /\ running' = TRUE
  /\ UNCHANGED <<mRunning, Mutexes, File, UserSide, Counts>>

\* Mutant of Continue: continuemutex is not asked for.
ContinueAtOnce(t) ==
  /\ Go(t, "running", "body")
  /\ UNCHANGED <<Flags, Mutexes, File, UserSide, Counts>>

\* continuemutex.Lock() and Unlock(): once Start has seen running.
Continue(t) ==
  /\ Go(t, "running", "body")
  /\ cm = Free
  /\ UNCHANGED <<Flags, Mutexes, File, UserSide, Counts>>

ThreadStarted(t) ==
  /\ Go(t, "body", "message")
  /\ cm2' = Free
  /\ UNCHANGED <<Flags, cm, File, UserSide, Counts>>

\* tpcSendMsg(VIDEO_RECV_MSG) is over: sent or, when select fails, not.
SendMessage(t) ==
  /\ Go(t, "message", "loop")
  /\ UNCHANGED <<Flags, Mutexes, File, UserSide, Counts>>

\* Mutant of Loop: the last unit is taken for the end of the file.
LoopShort(t) ==
  /\ Go(t, "loop", IF mRunning /\ unread > 1 THEN "read" ELSE "end")
  /\ mRunning' = (mRunning /\ unread > 1)
  /\ UNCHANGED <<running, Mutexes, File, UserSide, Counts>>

\* while (mRunning), and feof(mFile), which resets it.
Loop(t) ==
  /\ Go(t, "loop", IF mRunning /\ unread > 0 THEN "read" ELSE "end")
  /\ mRunning' = (mRunning /\ unread > 0)
  /\ UNCHANGED <<running, Mutexes, File, UserSide, Counts>>

\* GetAnnexbNALU; a pending pthread_cancel takes effect in the select after it.
ReadUnit(t) ==
  /\ unread > 0
  /\ Go(t, "read", IF t \in cancelled THEN "gone" ELSE "send")
  /\ unread' = unread - 1
  /\ UNCHANGED <<Flags, Mutexes, file, opens, UserSide, Counts>>

\* Another thread has read the last unit.
ReadNothing(t) ==
  /\ unread = 0
  /\ Go(t, "read", "loop")
  /\ UNCHANGED <<Flags, Mutexes, File, UserSide, Counts>>

\* tcpSendData.  Without a connection, select only times out.
SendUnit(t) ==
  /\ Go(t, "send", "loop")
  /\ sock = "up"
  /\ sent' = [sent EXCEPT ![t] = @ + 1]
  /\ UNCHANGED <<Flags, Mutexes, File, UserSide, lost>>

\* sendEx returns -1, in the head or in the data of the unit.
SelectFails(t) ==
  /\ thread[t] \in {"send", "again"} /\ thread' = [thread EXCEPT ![t] = "loop"]
  /\ lost' = [lost EXCEPT ![t] = @ + 1]
  /\ UNCHANGED <<Flags, Mutexes, File, UserSide, sent>>

\* leftLen -= -1
SendFails(t) ==
  /\ Go(t, "send", "again")
  /\ sock # "none"
  /\ UNCHANGED <<Flags, Mutexes, File, UserSide, Counts>>

\* The unit goes out after a failed send, with a byte more than it has.
SendAgain(t) ==
  /\ Go(t, "again", "loop")
  /\ sock = "up"
  /\ lost' = [lost EXCEPT ![t] = @ + 1]
  /\ UNCHANGED <<Flags, Mutexes, File, UserSide, sent>>

\* pthread_cancel takes effect in the select or send under way.
Cancelled(t) ==
  /\ t \in cancelled /\ thread[t] \in {"message", "send", "again"}
  /\ thread' = [thread EXCEPT ![t] = "gone"]
  /\ UNCHANGED <<Flags, Mutexes, File, UserSide, Counts>>

\* Mutant of Ends: TheThread forgets running.
EndsSilently(t) ==
  /\ Go(t, "end", "gone")
  /\ UNCHANGED <<Flags, Mutexes, File, UserSide, Counts>>

\* The end of TheThread.
Ends(t) ==
  /\ Go(t, "end", "gone")
  /\ running' = FALSE
  /\ UNCHANGED <<mRunning, Mutexes, File, UserSide, Counts>>

\* What a thread does without the peer.
OwnStep(t) ==
  \/ LockSecond(t) \/ SetsRunning(t) \/ Continue(t) \/ ThreadStarted(t)
  \/ Loop(t) \/ ReadUnit(t) \/ ReadNothing(t) \/ Cancelled(t) \/ Ends(t)

\* What it does when the peer, or select, lets it.
SendStep(t) ==
  SendMessage(t) \/ SendUnit(t) \/ SelectFails(t) \/ SendFails(t) \/ SendAgain(t)

ThreadStep(t) == OwnStep(t) \/ SendStep(t)

\* The peer closes the connection.
PeerResets ==
  /\ sock = "up" /\ sock' = "reset"
  /\ UNCHANGED <<Flags, Mutexes, File, user, early, Thread>>

Next ==
  \/ Connect \/ StartFileSend \/ StopFileSend \/ UserStep
  \/ \E t \in Threads : ThreadStep(t)
  \/ PeerResets

Spec == Init /\ [][Next]_vars

\* Both threads are scheduled; nobody makes the user start or stop, or the peer
\* read, or a call fail.
FairSpec == Spec /\ WF_vars(UserStep) /\ \A t \in Threads : WF_vars(OwnStep(t))
-----------------------------------------------------------------------------
(* Type invariant. *)
TypeOK ==
  /\ running \in BOOLEAN /\ mRunning \in BOOLEAN
  /\ cm \in {Free, Caller} /\ cm2 \in {Free} \cup Threads
  /\ file \in {"none", "open", "closed"} /\ unread \in 0..Units
  /\ opens \in 0..MaxStarts
  /\ sock \in {"none", "up", "reset"}
  /\ user \in {"idle", "start", "wait", "handshake", "started",
               "sleep", "asked", "kill", "close"}
  /\ early \in BOOLEAN
  /\ thread \in [Threads -> {"none", "created", "locked", "running", "body",
                             "message", "loop", "read", "send", "again", "end", "gone"}]
  /\ threadid \in 0..MaxStarts
  /\ cancelled \subseteq Threads
  /\ sent \in [Threads -> Nat] /\ lost \in [Threads -> Nat]

InBody(t) == thread[t] \in {"body", "message", "loop", "read", "send", "again"}

(* Start returns only after the thread it created has entered Thread() and   *)
(* called ThreadStarted, also when a killed thread is still at work.         *)
StartMeansStarted ==
  user = "started" =>
    thread[threadid] \notin {"none", "created", "locked", "running", "body"}

(* The thread enters Thread() only when Start has seen that it runs: there   *)
(* is no thread in its body while the user's thread still waits for it.      *)
BodyAfterHandshake == user = "wait" => ~InBody(threadid)

(* running is true exactly as long as a thread is between the two lines of   *)
(* TheThread that write it; a user who lets transfers end never closes the   *)
(* file under its reader, and never has two threads.                         *)
RunningIsTheThread == ~early =>
  /\ running <=> \E t \in Threads : thread[t] \in {"running", "end"} \/ InBody(t)
  /\ \A t \in Threads : thread[t] = "read" => file = "open"

(* A transfer that nobody stops and that has ended took every unit of the    *)
(* file to the socket once, in spite of the failures that no caller looks    *)
(* at: those not sent are those whose own select or send failed.  Or it took *)
(* none, when the thread asked mRunning before startFileSend had set it.     *)
EachUnitOnce == ~early =>
  \A t \in Threads : thread[t] \in {"end", "gone"} => sent[t] + lost[t] \in {0, Units}

(* Start does not wait for ever, if no earlier transfer was stopped or       *)
(* overtaken.                                                                *)
StartEnds == (user = "start" /\ ~early) ~> user = "idle"

(* gthread.cpp:92, "Wait until 'running' is set": once the new thread has    *)
(* set it, Start goes on.                                                    *)
SeesRunning ==
  (user = "wait" /\ thread[threadid] = "running") ~> user # "wait"
=============================================================================
