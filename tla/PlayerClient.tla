----------------------------- MODULE PlayerClient -----------------------------
(***************************************************************************)
(* The threads of the playback client: CNetDataClient::Work, which reads    *)
(* the stream and reconnects, and the users who call CPlayBackClient        *)
(* (PlayerClient/NetDataClient.cpp, PlayBackClient.cpp, stdafx.h).          *)
(* The server is reduced to mbSendingData, the ends of sections, and the    *)
(* requests it acts upon; a message after which Work goes on with its       *)
(* receive loop changes nothing here.                                       *)
(*                                                                          *)
(* Work calls none of the DefNetMessage (their calls are commented out), so *)
(* m_bDataEnd stays FALSE, nothing answers an ExecCmd, and every Seek comes *)
(* back after its timeout with FALSE.                                       *)
(***************************************************************************)
EXTENDS Naturals, Sequences, FiniteSets

CONSTANTS
  Users,        \* threads that call the client
  NoUser,       \* no waiter under an index of m_mapWait
  Free, Work,   \* owners of m_cs that are not users
  MaxIndex,     \* bound: values of m_nIndex
  MaxRequests,  \* bound: requests not yet read by the server
  MaxSections   \* bound: sections the server ends

ASSUME PlayerClientAssumption ==
  /\ NoUser \notin Users /\ Free \notin Users /\ Work \notin Users /\ Free # Work
  /\ MaxIndex \in Nat /\ MaxRequests \in Nat \ {0} /\ MaxSections \in Nat

VARIABLES
  user,     \* where each user is, and nIndex of its ExecCmd
  work,     \* where the thread of Work is
  cs,       \* owner of m_cs
  mapWait,  \* m_mapWait: index -> the user whose WAIT_INFO it points to
  nIndex,   \* m_nIndex
  event,    \* m_evtQuit, and what a close has found
  flags,    \* m_bSend and m_bPause
  net,      \* the connection, and what is on its way in both directions
  server    \* mbSendingData, and what it has done

vars == <<user, work, cs, mapWait, nIndex, event, flags, net, server>>

Indices == 1..MaxIndex

\* pc of a user: "out" of the client; GetIndex ("index"), m_cs before m_mapWait
\* ("lock"), inside it ("insert"), SendCmd ("send"), erasing without m_cs
\* ("bare"), m_cs again ("relock"), in ew.Wait ("wait"), erasing ("erase");
\* SetEvent before m_bSignal = TRUE ("flag"), pthread_join ("join").
InMap    == {"insert", "erase", "bare"}
Waiting  == {"send", "bare", "relock", "wait", "erase"}
UserPCs  == {"out", "index", "lock", "flag", "join"} \cup InMap \cup Waiting

\* pc of Work: not started, the receive loop, m_bSignal read ("test", "enter"),
\* in pthread_cond_timedwait ("sleep"), out of it by a signal ("woken") or by
\* the timeout ("timedout") and without m_cs, ConnectServer, returned, and the
\* process dead of a null pointer.
WorkPCs == {"none", "loop", "test", "enter", "sleep", "woken", "timedout",
            "reconnect", "end", "crashed"}

\* The requests the server acts upon: a pause is only logged, and frames are
\* not told apart here that a start would bring on.
Requests == {"resume", "seek"}

TypeOK ==
  /\ user \in [Users -> [pc : UserPCs, index : Nat]]
  /\ work \in WorkPCs
  /\ cs \in Users \cup {Free, Work}
  /\ mapWait \in [Indices -> Users \cup {NoUser}]
  /\ nIndex \in 0..MaxIndex
  /\ event \in [ signal : BOOLEAN,    \* m_bSignal
                 closing : BOOLEAN,   \* CloseClient has been called
                 inLoop : BOOLEAN,    \* it set m_bSignal while Work was in its loop
                 late : 0..2 ]        \* reconnections begun since then (2: or more)
  /\ flags \in [send : BOOLEAN, pause : BOOLEAN]
  /\ net \in [ conn : {"closed", "open", "eof"},
               requests : Seq(Requests),
               failed : BOOLEAN ]   \* some SendCmd of a user has failed
  /\ server \in [sending : BOOLEAN, sections : 0..MaxSections]

\* sections: those ended since the login or the last seek.
NewSession == [sending |-> TRUE, sections |-> 0]

\* After OpenPlayback: connected and started, or failed with no thread.
Init ==
  /\ user = [u \in Users |-> [pc |-> "out", index |-> 0]]
  /\ cs = Free
  /\ mapWait = [i \in Indices |-> NoUser]
  /\ nIndex = 0
  /\ event = [signal |-> FALSE, closing |-> FALSE, inLoop |-> FALSE, late |-> 0]
  /\ flags = [send |-> FALSE, pause |-> FALSE]
  /\ \E opened \in BOOLEAN :
       /\ work = IF opened THEN "loop" ELSE "none"
       /\ net = [conn |-> IF opened THEN "open" ELSE "closed",
                 requests |-> <<>>, failed |-> FALSE]
  /\ server = NewSession

Alive == work # "crashed"

-----------------------------------------------------------------------------
(* Users *)

At(u, pc)   == Alive /\ user[u].pc = pc
GoTo(u, pc) == user' = [user EXCEPT ![u].pc = pc]

\* A call begins: no user calls a client that is being closed.
Calls(u) == At(u, "out") /\ ~event.closing

\* SendCmd, which m_csSend makes one step.  A client of a peer that has gone
\* may still send; a send that waits too long fails.
SendCmd(req, ok) ==
  /\ ok => net.conn # "closed" /\ Len(net.requests) < MaxRequests
  /\ net' = IF ~ok THEN [net EXCEPT !.failed = TRUE]
            ELSE IF net.conn = "open" /\ req \in Requests
                 THEN [net EXCEPT !.requests = Append(@, req)]
            ELSE net

\* StartWork, when OpenPlayback has failed and its caller goes on (main.cpp).
StartWork(u) ==
  /\ Calls(u) /\ work = "none"
  /\ work' = "loop"
  /\ UNCHANGED <<user, cs, mapWait, nIndex, event, flags, net, server>>

Start(u) ==
  /\ Calls(u)
  /\ \E ok \in BOOLEAN : SendCmd("start", ok)
  /\ UNCHANGED <<user, work, cs, mapWait, nIndex, event, flags, server>>

\* Mutant of SetPlayPause: m_bSend is left alone.
SetPlayPauseOften(u, pause) ==
  /\ Calls(u) /\ flags.pause # pause
  /\ pause => ~flags.send
  /\ \E ok \in BOOLEAN :
       /\ SendCmd(IF pause THEN "pause" ELSE "resume", ok)
       /\ flags' = [flags EXCEPT !.pause = IF ok THEN pause ELSE @]
  /\ UNCHANGED <<user, work, cs, mapWait, nIndex, event, server>>

\* SetPlayPause, under m_csbSend, beyond its early returns.
SetPlayPause(u, pause) ==
  /\ Calls(u) /\ flags.pause # pause
  /\ pause => ~flags.send
  /\ \E ok \in BOOLEAN :
       /\ SendCmd(IF pause THEN "pause" ELSE "resume", ok)
       /\ flags' = [send |-> ok, pause |-> IF ok THEN pause ELSE flags.pause]
  /\ UNCHANGED <<user, work, cs, mapWait, nIndex, event, server>>

\* Seek calls ExecCmd.  The mutex of GetIndex is a local variable and excludes
\* nobody: between the increment and the return another user may increment.
GetIndexCount(u) ==
  /\ Calls(u) /\ nIndex < MaxIndex
  /\ nIndex' = nIndex + 1
  /\ GoTo(u, "index")
  /\ UNCHANGED <<work, cs, mapWait, event, flags, net, server>>

GetIndexReturn(u) ==
  /\ At(u, "index")
  /\ user' = [user EXCEPT ![u] = [pc |-> "lock", index |-> nIndex]]
  /\ UNCHANGED <<work, cs, mapWait, nIndex, event, flags, net, server>>

LockMap(u) ==
  /\ At(u, "lock") /\ cs = Free
  /\ cs' = u
  /\ GoTo(u, "insert")
  /\ UNCHANGED <<work, mapWait, nIndex, event, flags, net, server>>

\* Unlock frees the mutex, whoever holds it by now.
InsertWaiter(u) ==
  /\ At(u, "insert")
  /\ mapWait' = [mapWait EXCEPT ![user[u].index] = u]
  /\ cs' = Free
  /\ GoTo(u, "send")
  /\ UNCHANGED <<work, nIndex, event, flags, net, server>>

SendSeek(u) ==
  /\ At(u, "send")
  /\ \E ok \in BOOLEAN :
       /\ SendCmd("seek", ok)
       /\ GoTo(u, IF ok THEN "relock" ELSE "bare")
  /\ UNCHANGED <<work, cs, mapWait, nIndex, event, flags, server>>

\* Mutant of EraseBare: the waiter is forgotten.
EraseNothing(u) ==
  /\ At(u, "bare")
  /\ GoTo(u, "out")
  /\ UNCHANGED <<work, cs, mapWait, nIndex, event, flags, net, server>>

\* The send has failed: the entry is erased without m_cs.
EraseBare(u) ==
  /\ At(u, "bare")
  /\ mapWait' = [mapWait EXCEPT ![user[u].index] = NoUser]
  /\ GoTo(u, "out")
  /\ UNCHANGED <<work, cs, nIndex, event, flags, net, server>>

\* slock.Lock and the wait that gives the mutex up again.
EnterWait(u) ==
  /\ At(u, "relock") /\ cs = Free
  /\ GoTo(u, "wait")
  /\ UNCHANGED <<work, cs, mapWait, nIndex, event, flags, net, server>>

WaitTimesOut(u) ==
  /\ At(u, "wait") /\ cs = Free
  /\ cs' = u
  /\ GoTo(u, "erase")
  /\ UNCHANGED <<work, mapWait, nIndex, event, flags, net, server>>

\* Mutant of EraseWaiter: m_cs is kept.
EraseLocked(u) ==
  /\ At(u, "erase")
  /\ mapWait' = [mapWait EXCEPT ![user[u].index] = NoUser]
  /\ GoTo(u, "out")
  /\ UNCHANGED <<work, cs, nIndex, event, flags, net, server>>

EraseWaiter(u) ==
  /\ At(u, "erase")
  /\ mapWait' = [mapWait EXCEPT ![user[u].index] = NoUser]
  /\ cs' = Free
  /\ GoTo(u, "out")
  /\ UNCHANGED <<work, nIndex, event, flags, net, server>>

-----------------------------------------------------------------------------
(* CloseClient: m_evtQuit.SetEvent, pthread_join, Close.  Its caller has no   *)
(* other call under way: the destructor comes next.                           *)

CloseSignal(u) ==
  /\ Calls(u) /\ \A v \in Users : user[v].pc = "out"
  /\ event' = [event EXCEPT !.closing = TRUE]
  /\ work' = IF work = "sleep" THEN "woken" ELSE work
  /\ GoTo(u, "flag")
  /\ UNCHANGED <<cs, mapWait, nIndex, flags, net, server>>

\* Mutant of CloseFlag: the event is signalled and not set.
CloseUnset(u) ==
  /\ At(u, "flag")
  /\ event' = [event EXCEPT !.inLoop = work = "loop"]
  /\ GoTo(u, "join")
  /\ UNCHANGED <<work, cs, mapWait, nIndex, flags, net, server>>

CloseFlag(u) ==
  /\ At(u, "flag")
  /\ event' = [event EXCEPT !.signal = TRUE, !.inLoop = work = "loop"]
  /\ GoTo(u, "join")
  /\ UNCHANGED <<work, cs, mapWait, nIndex, flags, net, server>>

CloseJoin(u) ==
  /\ At(u, "join") /\ work \in {"none", "end"}
  /\ net' = [net EXCEPT !.conn = "closed"]
  /\ GoTo(u, "out")
  /\ UNCHANGED <<work, cs, mapWait, nIndex, event, flags, server>>

-----------------------------------------------------------------------------
(* Work *)

WorkGoesTo(pc) == work' = pc /\ UNCHANGED <<user, mapWait, nIndex, flags, server>>

\* RecvData reads DATAEND, something that is no header (after a seek that found
\* a packet half sent), or a message that does not come in time.
WorkLeavesLoop ==
  /\ work = "loop" /\ net.conn = "open"
  /\ WorkGoesTo("test")
  /\ UNCHANGED <<cs, event, net>>

\* A socket that is not connected is readable, and its recv fails.
WorkLosesPeer ==
  /\ work = "loop" /\ net.conn # "open"
  /\ WorkGoesTo("test")
  /\ UNCHANGED <<cs, event, net>>

\* m_evtQuit.Wait looks at m_bSignal ...
WorkTests ==
  /\ work = "test"
  /\ WorkGoesTo(IF event.signal THEN "end" ELSE "enter")
  /\ UNCHANGED <<cs, event, net>>

\* ... and sleeps on m_cs, which Work has not locked the first time: the mutex
\* is freed, whoever holds it, and locked when the wait is over.
WorkSleeps ==
  /\ work = "enter"
  /\ WorkGoesTo("sleep")
  /\ cs' = Free
  /\ UNCHANGED <<event, net>>

WorkTimesOut ==
  /\ work = "sleep"
  /\ WorkGoesTo("timedout")
  /\ UNCHANGED <<cs, event, net>>

\* Woken, Work returns and takes m_cs with it.
WorkQuits ==
  /\ work = "woken" /\ cs = Free
  /\ WorkGoesTo("end")
  /\ cs' = Work
  /\ UNCHANGED <<event, net>>

\* Connect closes the old socket first.
WorkReconnects ==
  /\ work = "timedout" /\ cs = Free
  /\ WorkGoesTo("reconnect")
  /\ cs' = Work
  /\ event' = [event EXCEPT !.late = IF event.closing /\ @ < 2 /\
                 (\E u \in Users : user[u].pc = "join") THEN @ + 1 ELSE @]
  /\ net' = [net EXCEPT !.conn = "closed", !.requests = <<>>]

\* No connection, or one whose login is not answered in time or refused.
ReconnectFails ==
  /\ work = "reconnect"
  /\ work' = "test"
  /\ \E conn \in {"closed", "open"} :
       /\ net' = [net EXCEPT !.conn = conn]
       /\ server' = IF conn = "open" THEN NewSession ELSE server
  /\ UNCHANGED <<user, cs, mapWait, nIndex, event, flags>>

\* ConnectServer(NULL) reads lpInfo->pi as soon as the login has succeeded.
ReconnectSucceeds ==
  /\ work = "reconnect"
  /\ WorkGoesTo("crashed")
  /\ UNCHANGED <<cs, event, net>>

-----------------------------------------------------------------------------
(* The server (see Playback) *)

Serves == Alive /\ net.conn = "open"

ServerEndsSection ==
  /\ Serves /\ server.sending /\ server.sections < MaxSections
  /\ server' = [server EXCEPT !.sending = FALSE, !.sections = @ + 1]
  /\ UNCHANGED <<user, work, cs, mapWait, nIndex, event, flags, net>>

ServerResumes ==
  /\ Serves /\ net.requests # <<>> /\ Head(net.requests) = "resume"
  /\ server' = [server EXCEPT !.sending = TRUE]
  /\ net' = [net EXCEPT !.requests = Tail(@)]
  /\ UNCHANGED <<user, work, cs, mapWait, nIndex, event, flags>>

ServerSeeks ==
  /\ Serves /\ net.requests # <<>> /\ Head(net.requests) = "seek"
  /\ server' = NewSession
  /\ net' = [net EXCEPT !.requests = Tail(@)]
  /\ UNCHANGED <<user, work, cs, mapWait, nIndex, event, flags>>

ServerCloses ==
  /\ Serves
  /\ net' = [net EXCEPT !.conn = "eof", !.requests = <<>>]
  /\ UNCHANGED <<user, work, cs, mapWait, nIndex, event, flags, server>>

-----------------------------------------------------------------------------

ExecCmd(u) ==
  \/ GetIndexReturn(u) \/ LockMap(u) \/ InsertWaiter(u) \/ SendSeek(u)
  \/ EraseBare(u) \/ EnterWait(u) \/ WaitTimesOut(u) \/ EraseWaiter(u)

CloseClient(u) == CloseFlag(u) \/ CloseJoin(u)

\* What a user may begin.
Call(u) ==
  \/ StartWork(u) \/ Start(u) \/ GetIndexCount(u) \/ CloseSignal(u)
  \/ \E pause \in BOOLEAN : SetPlayPause(u, pause)

WorkStep ==
  \/ WorkLosesPeer \/ WorkTests \/ WorkSleeps \/ WorkTimesOut
  \/ WorkQuits \/ WorkReconnects \/ ReconnectFails \/ ReconnectSucceeds

Server ==
  \/ ServerEndsSection \/ ServerResumes \/ ServerSeeks \/ ServerCloses

Next ==
  \/ WorkStep \/ WorkLeavesLoop \/ Server
  \/ \E u \in Users : Call(u) \/ ExecCmd(u) \/ CloseClient(u)

Spec == Init /\ [][Next]_vars

\* Threads run, timeouts come, and a thread that waits for m_cs gets it when it
\* is free again and again (Work sleeps four seconds between two attempts).
Fairness ==
  /\ WF_vars(WorkStep) /\ SF_vars(WorkQuits) /\ SF_vars(WorkReconnects)
  /\ \A u \in Users : SF_vars(ExecCmd(u)) /\ WF_vars(CloseClient(u))

FairSpec == Spec /\ Fairness

-----------------------------------------------------------------------------
(* No entry of m_mapWait outlives the ExecCmd whose frame it points to, even  *)
(* when two of them got the same index, and it stands under its index; and    *)
(* while Work has not called m_evtQuit.Wait and no send has failed, at most   *)
(* one user is inside the map.                                                *)
NoDanglingWaiter ==
  \A i \in Indices : mapWait[i] # NoUser =>
    user[mapWait[i]].pc \in Waiting /\ user[mapWait[i]].index = i

OneInMap ==
  work \in {"none", "loop", "test", "enter"} /\ ~net.failed =>
    \A u, v \in Users : user[u].pc \in InMap /\ user[v].pc \in InMap => u = v

WaitersAreSafe == NoDanglingWaiter /\ OneInMap

(* CloseClient and Work race: m_bSignal may be set after Wait has read it and  *)
(* its signal sent before Wait sleeps.  Work then reconnects once more, and    *)
(* never twice; closed while the stream is still on, it does not reconnect.    *)
CloseStopsReconnects == event.late <= IF event.inLoop THEN 0 ELSE 1

(* Work does not tell the player that a section has ended, so SetPlayPause     *)
(* refuses a resume until there was a pause, and a pause ever after: unless a  *)
(* send fails, a resume goes out once, and there come no more than two         *)
(* sections after the login or a seek.                                         *)
OneResumeOnly == ~net.failed => server.sections <= 2

(* Every call comes back, or the process dies in a reconnection: a seek after   *)
(* its timeout although Work takes m_cs between the attempts to reconnect, a   *)
(* close once Work has left its receive loop, which never looks at m_evtQuit.  *)
CallsReturn ==
  \A u \in Users :
    (user[u].pc # "out" /\ (user[u].pc = "join" => work # "loop"))
      ~> (user[u].pc = "out" \/ (user[u].pc = "join" /\ work = "loop") \/ ~Alive)
=============================================================================
