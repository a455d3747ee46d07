-------------------------------- MODULE Station --------------------------------
(***************************************************************************)
(* The life of the event server: the thread of the user calls StartNetWork, *)
(* StartServer, StopServer and StopNetWork (EventServer/NativeApi.cpp, or   *)
(* the main functions in the same order), ActorStation starts a detached    *)
(* thread for the loop and asks it to end through mIsShutdown and           *)
(* event_loopexit, SIGINT and SIGTERM do so from within the loop            *)
(* (EventServer/ActorStation.cpp, net/event.c, net/signal.c).               *)
(*                                                                          *)
(* The event base is an object that may be freed while pointers to it are   *)
(* left: "misuse" collects the calls made on a freed base.  event_set reads *)
(* current_base, which is NULL then: that crashes the process.              *)
(***************************************************************************)
EXTENDS Naturals, FiniteSets

CONSTANTS
  MaxStarts,  \* bound: calls of StartNetWork that find isRunning() = 0
  MaxSignals  \* bound: SIGINT or SIGTERM

ASSUME StationAssumption ==
  /\ MaxStarts \in Nat \ {0} /\ MaxSignals \in Nat

VARIABLES
  mIsRunning,  \* of the ActorStation
  mIsShutdown,
  mEventBase,  \* of the EventArg: "null", "live" or "freed"
  currentBase, \* current_base of event.c: whether it points to a base
  once,        \* whether an event_loopexit timer is armed
  gotterm,     \* event_gotterm of the base
  accept,      \* mEvAccept of the TcpServer: "none", "added", "deleted"
  user,        \* what the user's thread is in the middle of
  loop,        \* the loop threads and where each one is
  starts,      \* calls of StartNetWork that found isRunning() = 0
  hurried,     \* those of them that came before an earlier one's thread had run
  sent,        \* signals sent so far
  caught,      \* a signal is caught and not handled yet
  misuse,      \* the calls that were made on a freed base
  crashed      \* a call was made on no base

stationVars == <<mIsRunning, mIsShutdown, mEventBase, currentBase, once, gotterm, accept>>
vars == <<stationVars, user, loop, starts, hurried, sent, caught, misuse, crashed>>

Threads == 1..MaxStarts
Places == {"none",     \* not started
           "created",  \* eventLoop has not run yet
           "start",    \* mIsRunning is set
           "check",    \* before while( 0 == mIsShutdown )
           "wait",     \* in epoll_wait
           "handle",   \* SIGINT's callback, between two statements of shutdown
           "free",     \* the loop is left
           "signals",  \* the base is destroyed
           "end",      \* start() has returned
           "gone"}

Calls == {"event_del", "event_base_loop", "signal_del"}

Init ==
  /\ mIsRunning = 0 /\ mIsShutdown = 0
  /\ mEventBase = "null" /\ currentBase = FALSE
  /\ once = FALSE /\ gotterm = FALSE
  /\ accept = "none"
  /\ user = "idle"
  /\ loop = [t \in Threads |-> "none"]
  /\ starts = 0 /\ hurried = 0 /\ sent = 0 /\ caught = FALSE
  /\ misuse = {} /\ crashed = FALSE

\* A call on the base mEventBase points to.
Uses(call) ==
  /\ misuse' = IF mEventBase = "freed" THEN misuse \cup {call} ELSE misuse
  /\ UNCHANGED crashed

\* event_set, before an event is added.
SetsEvent == crashed' = ~currentBase /\ UNCHANGED misuse

NoUse == UNCHANGED <<misuse, crashed>>

-----------------------------------------------------------------------------
(* The user *)

Running == <<mIsRunning, mIsShutdown>>
Base    == <<mEventBase, currentBase, once, gotterm>>

\* Mutant of StartNetWork: isRunning() is not asked.
StartNetWorkAgain ==
  /\ user = "idle" /\ starts < MaxStarts
  /\ user' = "start" /\ starts' = starts + 1
  /\ hurried' = IF \E t \in Threads : loop[t] = "created" THEN hurried + 1 ELSE hurried
  /\ NoUse
  /\ UNCHANGED <<stationVars, loop, sent, caught>>

\* ActorStation::startup asks isRunning().
StartNetWork ==
  /\ user = "idle" /\ mIsRunning = 0 /\ starts < MaxStarts
  /\ user' = "start" /\ starts' = starts + 1
  /\ hurried' = IF \E t \in Threads : loop[t] = "created" THEN hurried + 1 ELSE hurried
  /\ NoUse
  /\ UNCHANGED <<stationVars, loop, sent, caught>>

\* The rest of startup: EventArg::Create makes a base only if mEventBase is
\* NULL, and Destroy does not reset it; then the thread is created, or, if
\* pthread_create fails, mIsRunning reset and 0 returned all the same.
StartNetWorkRuns ==
  /\ user = "start" /\ user' = "idle"
  /\ mIsShutdown' = 0
  /\ IF mEventBase = "null"
     THEN mEventBase' = "live" /\ currentBase' = TRUE /\ once' = FALSE /\ gotterm' = FALSE
     ELSE UNCHANGED Base
  /\ \/ loop' = [loop EXCEPT ![starts] = "created"] /\ UNCHANGED mIsRunning
     \/ mIsRunning' = 0 /\ UNCHANGED loop
  /\ NoUse
  /\ UNCHANGED <<accept, starts, hurried, sent, caught>>

\* ActorStation::shutdown up to mIsShutdown = 1.
StopNetWork ==
  /\ user = "idle" /\ mIsRunning = 1
  /\ mIsShutdown' = 1
  /\ user' = "loopexit"
  /\ NoUse
  /\ UNCHANGED <<mIsRunning, Base, accept, loop, starts, hurried, sent, caught>>

\* Mutant of LoopExit: shutdown sets mIsShutdown only.
LoopExitNot == UNCHANGED once /\ SetsEvent

\* event_loopexit adds a timer to current_base, which may be NULL by now.
LoopExit ==
  /\ once' = (once \/ currentBase)
  /\ SetsEvent

StopNetWorkExit ==
  /\ user = "loopexit"
  /\ LoopExit
  /\ user' = "idle"
  /\ UNCHANGED <<Running, mEventBase, currentBase, gotterm, accept,
                 loop, starts, hurried, sent, caught>>

\* TcpServer::registerEvent: event_add on the base of getEventArg().
StartServer ==
  /\ user = "idle" /\ accept # "added"
  /\ SetsEvent
  /\ accept' = "added"
  /\ UNCHANGED <<Running, Base, user, loop, starts, hurried, sent, caught>>

\* TcpServer::shutdown: event_del on the base the event was added to.
StopServer ==
  /\ user = "idle" /\ accept = "added"
  /\ Uses("event_del")
  /\ accept' = "deleted"
  /\ UNCHANGED <<Running, Base, user, loop, starts, hurried, sent, caught>>

User == \/ StartNetWork \/ StartNetWorkRuns \/ StopNetWork \/ StopNetWorkExit
        \/ StartServer \/ StopServer

-----------------------------------------------------------------------------
(* The loop thread *)

Go(t, p) == loop' = [loop EXCEPT ![t] = p]
Others   == <<accept, user, starts, hurried, sent>>
OnlyLoop == UNCHANGED <<mEventBase, currentBase, Others>>

Enter(t) ==
  /\ loop[t] = "created"
  /\ mIsRunning' = 1
  /\ Go(t, "start") /\ NoUse /\ OnlyLoop
  /\ UNCHANGED <<mIsShutdown, once, gotterm, caught>>

\* signal_set and signal_add, for SIGINT and SIGTERM.
AddSignals(t) ==
  /\ loop[t] = "start"
  /\ SetsEvent
  /\ Go(t, "check") /\ OnlyLoop
  /\ UNCHANGED <<mIsRunning, mIsShutdown, once, gotterm, caught>>

\* The head of event_base_loop: event_gotterm makes it return at once.
Check(t) ==
  /\ loop[t] = "check"
  /\ IF mIsShutdown = 1 THEN Go(t, "free") /\ NoUse /\ UNCHANGED gotterm
     ELSE /\ Uses("event_base_loop")
          /\ gotterm' = FALSE
          /\ Go(t, IF gotterm THEN "check" ELSE "wait")
  /\ OnlyLoop
  /\ UNCHANGED <<mIsRunning, mIsShutdown, once, caught>>

\* epoll_wait returns after five seconds at the latest and the armed timer is
\* processed: event_loopexit_cb runs and event_base_loop returns.
LoopExitTimer(t) ==
  /\ loop[t] = "wait" /\ once
  /\ once' = FALSE /\ gotterm' = TRUE
  /\ Go(t, "check") /\ Uses("event_base_loop") /\ OnlyLoop
  /\ UNCHANGED <<mIsRunning, mIsShutdown, caught>>

\* A connection, or an event of a session that outlives its server, is handled:
\* with EVLOOP_ONCE the loop returns once something was active.
Activity(t) ==
  /\ loop[t] = "wait" /\ accept # "none"
  /\ Go(t, "check") /\ Uses("event_base_loop") /\ OnlyLoop
  /\ UNCHANGED <<mIsRunning, mIsShutdown, once, gotterm, caught>>

\* evsignal_process activates the signal's event: sigHandler calls shutdown.
SigHandler(t) ==
  /\ loop[t] = "wait" /\ caught
  /\ caught' = FALSE
  /\ IF mIsRunning = 1 THEN mIsShutdown' = 1 /\ Go(t, "handle")
                       ELSE UNCHANGED mIsShutdown /\ Go(t, "check")
  /\ Uses("event_base_loop") /\ OnlyLoop
  /\ UNCHANGED <<mIsRunning, once, gotterm>>

SigHandlerExit(t) ==
  /\ loop[t] = "handle"
  /\ LoopExit
  /\ Go(t, "check") /\ OnlyLoop
  /\ UNCHANGED <<mIsRunning, mIsShutdown, gotterm, caught>>

\* Mutant of Destroy: mIsRunning is reset as soon as the loop is left.
DestroyEarly(t) ==
  /\ loop[t] = "free"
  /\ mIsRunning' = 0
  /\ mEventBase' = IF currentBase THEN "freed" ELSE mEventBase
  /\ currentBase' = FALSE /\ once' = FALSE
  /\ Go(t, "signals") /\ NoUse
  /\ UNCHANGED <<mIsShutdown, gotterm, Others, caught>>

\* EventArg::Destroy: event_destroy frees current_base; mEventBase is left.
Destroy(t) ==
  /\ loop[t] = "free"
  /\ mEventBase' = IF currentBase THEN "freed" ELSE mEventBase
  /\ currentBase' = FALSE /\ once' = FALSE
  /\ Go(t, "signals") /\ NoUse
  /\ UNCHANGED <<mIsRunning, mIsShutdown, gotterm, Others, caught>>

DelSignals(t) ==
  /\ loop[t] = "signals"
  /\ Uses("signal_del")
  /\ Go(t, "end") /\ OnlyLoop
  /\ UNCHANGED <<mIsRunning, mIsShutdown, once, gotterm, caught>>

Leave(t) ==
  /\ loop[t] = "end"
  /\ mIsRunning' = 0
  /\ Go(t, "gone") /\ NoUse /\ OnlyLoop
  /\ UNCHANGED <<mIsShutdown, once, gotterm, caught>>

\* evsignal_handler; before signal_add a signal ends the process.
Signal ==
  /\ sent < MaxSignals
  /\ \E t \in Threads : loop[t] \in {"check", "wait", "handle"}
  /\ sent' = sent + 1 /\ caught' = TRUE
  /\ NoUse
  /\ UNCHANGED <<stationVars, user, loop, starts, hurried>>

Run(t) == \/ Enter(t) \/ AddSignals(t) \/ Check(t) \/ LoopExitTimer(t)
          \/ SigHandler(t) \/ SigHandlerExit(t)
          \/ Destroy(t) \/ DelSignals(t) \/ Leave(t)

Next ==
  /\ ~crashed
  /\ \/ User
     \/ \E t \in Threads : Run(t) \/ Activity(t)
     \/ Signal

Spec == Init /\ [][Next]_vars

\* Threads are scheduled, armed timers expire, the user finishes what it has
\* begun; nothing makes the user, a client or a signal act.
FairSpec ==
  /\ Spec
  /\ \A t \in Threads : WF_vars(~crashed /\ Run(t))
  /\ WF_vars(~crashed /\ (StartNetWorkRuns \/ StopNetWorkExit))
-----------------------------------------------------------------------------
(* Type invariant. *)
TypeOK ==
  /\ mIsRunning \in {0, 1} /\ mIsShutdown \in {0, 1}
  /\ mEventBase \in {"null", "live", "freed"} /\ currentBase \in BOOLEAN
  /\ once \in BOOLEAN /\ gotterm \in BOOLEAN
  /\ accept \in {"none", "added", "deleted"}
  /\ user \in {"idle", "start", "loopexit"}
  /\ loop \in [Threads -> Places]
  /\ starts \in 0..MaxStarts /\ hurried \in 0..starts /\ sent \in 0..MaxSignals
  /\ caught \in BOOLEAN
  /\ misuse \subseteq Calls /\ crashed \in BOOLEAN

Active(t) == loop[t] \notin {"none", "gone"}

(* mIsRunning, which the loop thread sets late and resets last, and a failed *)
(* start too, keeps loops apart but for the time between the creation of a   *)
(* thread and its first line: every loop beside the first needs a start of   *)
(* its own that came in such a time.                                         *)
ExtraLoopsAreHurried ==
  Cardinality({t \in Threads : Active(t)}) <= 1 + hurried

(* Unless a start came in such a time, event_base_loop runs on a base that   *)
(* is not freed under it, whatever else the user calls and whenever.         *)
BaseOutlivesLoop == hurried = 0 =>
  \A t \in Threads : loop[t] \in {"wait", "handle"} => mEventBase = "live"

(* An accepted stop ends the loop, by the user or by a signal, even when no  *)
(* connection ever wakes it: the timer of event_loopexit does.  Only a start *)
(* that has asked isRunning() too early may undo it.                         *)
StopEndsLoop ==
  (mIsShutdown = 1 /\ mIsRunning = 1) ~> (mIsRunning = 0 \/ crashed \/ hurried > 0)

(* ActorStation.cpp:103, "Clean close on SIGINT or SIGTERM.": closing makes  *)
(* no call on the base it has freed.                                         *)
CleanClose == misuse = {}

=============================================================================
