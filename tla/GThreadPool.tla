----------------------------- MODULE GThreadPool -----------------------------
(***************************************************************************)
(* GThreadPool of common/gthread/gthreadpool.cpp.  A critical section of    *)
(* mMainMutex is one step, cut where it waits on a condition or, in         *)
(* dispatch and in the destructor, for the mutex of an idle thread.  The    *)
(* list of idle threads is taken as the set of its members (mIndex of       *)
(* them): which of them dispatch takes makes no difference.                 *)
(***************************************************************************)
EXTENDS Integers, FiniteSets

CONSTANTS
  Threads,     \* GThread_t structures the pool may allocate
  Callers,     \* threads of the program that call dispatch
  Tasks,       \* the dispatched functions with their arguments
  MaxThreads,  \* mMaxThreads
  NoThread, NoTask

ASSUME PoolAssumption ==
  /\ IsFiniteSet(Threads) /\ NoThread \notin Threads /\ NoTask \notin Tasks
  /\ MaxThreads \in Nat \ {0}

VARIABLES
  main,      \* who holds mMainMutex across steps: "free" or "held"
  total,     \* mTotal
  idle,      \* mThreadList
  shutdown,  \* mIsShutdown
  thread,    \* program counter of each pool thread
  func,      \* mFunc and mArg of each GThread_t
  call,      \* where each caller stands in dispatch; "absent": it never calls
  picked,    \* the idle thread a caller is about to signal
  owner,     \* where the destructor stands
  unsignalled, \* idle threads the destructor has still to signal
  given,     \* tasks passed to dispatch
  ran        \* how often each task was run

vars == <<main, total, idle, shutdown, thread, func, call, picked, owner,
          unsignalled, given, ran>>

threadState == <<thread, func, ran>>
callState   == <<call, picked, given>>
ownerState  == <<owner, unsignalled, shutdown>>

Init ==
  /\ main = "free" /\ total = 0 /\ idle = {} /\ shutdown = 0
  /\ thread = [t \in Threads |-> "none"]
  /\ func = [t \in Threads |-> NoTask]
  /\ call \in [Callers -> {"out", "absent"}]
  /\ picked = [c \in Callers |-> NoThread]
  /\ owner = "out" /\ unsignalled = {}
  /\ given = {}
  /\ ran = [k \in Tasks |-> 0]

Free == main = "free"

-----------------------------------------------------------------------------
(* dispatch *)

\* Mutant of MustWait: one thread too many.
MustWaitLate == idle = {} /\ total > MaxThreads

MustWait == idle = {} /\ total >= MaxThreads

\* The task of the next call: tasks are told apart by the order of the calls only.
NextTask == IF Tasks \subseteq given THEN {} ELSE {CHOOSE k \in Tasks \ given : TRUE}

\* A bound: a caller that calls has a task, and so have those that wait.
HasTask == Cardinality({c \in Callers : call[c] \in {"waiting", "woken"}})
             < Cardinality(Tasks \ given)

\* The condition is tested once: who was woken does not look again.
MayProceed(c) == \/ call[c] = "out" /\ owner = "out" /\ HasTask /\ ~MustWait
                 \/ call[c] = "woken"

DispatchWait(c) ==
  /\ call[c] = "out" /\ owner = "out" /\ Free /\ HasTask /\ MustWait
  /\ call' = [call EXCEPT ![c] = "waiting"]
  /\ UNCHANGED <<main, total, idle, threadState, picked, given, ownerState>>

\* Mutant of DispatchCreate: the new thread is not counted.
DispatchUncounted(c) ==
  /\ MayProceed(c) /\ Free /\ idle = {}
  /\ \E t \in Threads, k \in NextTask :
       /\ thread[t] = "none"
       /\ thread' = [thread EXCEPT ![t] = "run"]
       /\ func' = [func EXCEPT ![t] = k]
       /\ given' = given \cup {k}
  /\ call' = [call EXCEPT ![c] = "out"]
  /\ UNCHANGED <<main, total, idle, ran, picked, ownerState>>

DispatchCreate(c) ==
  /\ MayProceed(c) /\ Free /\ idle = {}
  /\ \E t \in Threads, k \in NextTask :
       /\ thread[t] = "none"
       /\ thread' = [thread EXCEPT ![t] = "run"]
       /\ func' = [func EXCEPT ![t] = k]
       /\ given' = given \cup {k}
  /\ total' = total + 1
  /\ call' = [call EXCEPT ![c] = "out"]
  /\ UNCHANGED <<main, idle, ran, picked, ownerState>>

\* pthread_create fails: dispatch returns -1, nothing has changed.
DispatchFails(c) ==
  /\ MayProceed(c) /\ Free /\ idle = {}
  /\ call' = [call EXCEPT ![c] = "out"]
  /\ UNCHANGED <<main, total, idle, threadState, picked, given, ownerState>>

\* Mutant of DispatchReuse: the thread stays on the list.
DispatchShare(c) ==
  /\ MayProceed(c) /\ Free
  /\ \E t \in idle, k \in NextTask :
       /\ func' = [func EXCEPT ![t] = k]
       /\ picked' = [picked EXCEPT ![c] = t]
       /\ given' = given \cup {k}
  /\ main' = "held"
  /\ call' = [call EXCEPT ![c] = "signal"]
  /\ UNCHANGED <<total, idle, thread, ran, ownerState>>

\* mMainMutex stays held until the thread's own mutex is free.
DispatchReuse(c) ==
  /\ MayProceed(c) /\ Free
  /\ \E t \in idle, k \in NextTask :
       /\ idle' = idle \ {t}
       /\ func' = [func EXCEPT ![t] = k]
       /\ picked' = [picked EXCEPT ![c] = t]
       /\ given' = given \cup {k}
  /\ main' = "held"
  /\ call' = [call EXCEPT ![c] = "signal"]
  /\ UNCHANGED <<total, thread, ran, ownerState>>

\* pthread_cond_signal of a thread's mCond: lost when the thread does not wait.
Woken(t) == IF thread[t] = "waiting" THEN [thread EXCEPT ![t] = "run"] ELSE thread

\* Mutant of DispatchSignal: the signal is sent without the thread's mutex.
DispatchSignalEarly(c) ==
  /\ call[c] = "signal"
  /\ thread' = Woken(picked[c])
  /\ main' = "free"
  /\ call' = [call EXCEPT ![c] = "out"]
  /\ picked' = [picked EXCEPT ![c] = NoThread]
  /\ UNCHANGED <<total, idle, func, ran, given, ownerState>>

DispatchSignal(c) ==
  /\ call[c] = "signal" /\ thread[picked[c]] # "saved"
  /\ thread' = Woken(picked[c])
  /\ main' = "free"
  /\ call' = [call EXCEPT ![c] = "out"]
  /\ picked' = [picked EXCEPT ![c] = NoThread]
  /\ UNCHANGED <<total, idle, func, ran, given, ownerState>>

dispatch(c) == \/ DispatchWait(c) \/ DispatchCreate(c) \/ DispatchFails(c)
               \/ DispatchReuse(c) \/ DispatchSignal(c)

-----------------------------------------------------------------------------
(* wrapperFunc and saveThread *)

Run(t) ==
  /\ thread[t] = "run" /\ shutdown = 0
  /\ ran' = [ran EXCEPT ![func[t]] = @ + 1]
  /\ thread' = [thread EXCEPT ![t] = "done"]
  /\ UNCHANGED <<main, total, idle, func, callState, ownerState>>

\* pthread_cond_signal( &mIdleCond ) wakes one waiting caller, if there is one.
SignalIdle ==
  LET waiting == {c \in Callers : call[c] = "waiting"} IN
    IF waiting = {} THEN call' = call
    ELSE \E c \in waiting : call' = [call EXCEPT ![c] = "woken"]

\* Mutant of SaveThread: mFullCond is not signalled.
SaveThreadQuiet(t) ==
  /\ thread[t] = "done" /\ Free /\ Cardinality(idle) < MaxThreads
  /\ idle' = idle \cup {t}
  /\ thread' = [thread EXCEPT ![t] = "saved"]
  /\ SignalIdle
  /\ UNCHANGED <<main, total, func, ran, picked, given, ownerState>>

\* The thread holds its own mutex until it waits.
SaveThread(t) ==
  /\ thread[t] = "done" /\ Free /\ Cardinality(idle) < MaxThreads
  /\ idle' = idle \cup {t}
  /\ thread' = [thread EXCEPT ![t] = "saved"]
  /\ SignalIdle
  /\ owner' = IF owner = "waitFull" /\ Cardinality(idle') >= total
              THEN "wokenFull" ELSE owner
  /\ UNCHANGED <<main, total, func, ran, picked, given, unsignalled, shutdown>>

\* No room on the list: the structure is freed and the thread ends, mTotal
\* still counts it.
Excess(t) ==
  /\ thread[t] = "done" /\ Free /\ Cardinality(idle) >= MaxThreads
  /\ thread' = [thread EXCEPT ![t] = "gone"]
  /\ UNCHANGED <<main, total, idle, func, ran, callState, ownerState>>

\* Mutant of Wait: pthread_cond_wait returns at once.
WaitNot(t) ==
  /\ thread[t] = "saved"
  /\ thread' = [thread EXCEPT ![t] = "run"]
  /\ UNCHANGED <<main, total, idle, func, ran, callState, ownerState>>

Wait(t) ==
  /\ thread[t] = "saved"
  /\ thread' = [thread EXCEPT ![t] = "waiting"]
  /\ UNCHANGED <<main, total, idle, func, ran, callState, ownerState>>

\* Shutting down: the last thread to leave signals mEmptyCond.
Leave(t) ==
  /\ thread[t] = "run" /\ shutdown = 1 /\ Free
  /\ thread' = [thread EXCEPT ![t] = "gone"]
  /\ total' = total - 1
  /\ owner' = IF owner = "waitEmpty" /\ total' <= 0 THEN "wokenEmpty" ELSE owner
  /\ UNCHANGED <<main, idle, func, ran, callState, unsignalled, shutdown>>

wrapperFunc(t) == Run(t) \/ SaveThread(t) \/ Excess(t) \/ Wait(t) \/ Leave(t)

-----------------------------------------------------------------------------
(* ~GThreadPool: called once, after the last dispatch has returned. *)

DestroyEnter ==
  /\ owner = "out" /\ Free /\ \A c \in Callers : call[c] \in {"out", "absent"}
  /\ owner' = IF Cardinality(idle) < total THEN "waitFull" ELSE "wokenFull"
  /\ UNCHANGED <<main, total, idle, threadState, callState, unsignalled, shutdown>>

DestroyShutdown ==
  /\ owner = "wokenFull" /\ Free
  /\ main' = "held"
  /\ shutdown' = 1
  /\ unsignalled' = idle
  /\ owner' = "signal"
  /\ UNCHANGED <<total, idle, threadState, callState>>

DestroySignal(t) ==
  /\ owner = "signal" /\ t \in unsignalled /\ thread[t] # "saved"
  /\ thread' = Woken(t)
  /\ unsignalled' = unsignalled \ {t}
  /\ UNCHANGED <<main, total, idle, func, ran, callState, owner, shutdown>>

\* Mutant of DestroyWait: the threads that leave are not waited for.
DestroyWaitNot ==
  /\ owner = "signal" /\ unsignalled = {}
  /\ owner' = "wokenEmpty"
  /\ main' = "free"
  /\ UNCHANGED <<total, idle, threadState, callState, unsignalled, shutdown>>

DestroyWait ==
  /\ owner = "signal" /\ unsignalled = {}
  /\ owner' = IF total > 0 THEN "waitEmpty" ELSE "wokenEmpty"
  /\ main' = "free"
  /\ UNCHANGED <<total, idle, threadState, callState, unsignalled, shutdown>>

\* Every structure on the list is freed, then the list and the mutex.
DestroyFree ==
  /\ owner = "wokenEmpty" /\ Free
  /\ owner' = "destroyed"
  /\ idle' = {}
  /\ UNCHANGED <<main, total, threadState, callState, unsignalled, shutdown>>

Destroy == \/ DestroyEnter \/ DestroyShutdown \/ DestroyWait \/ DestroyFree
           \/ \E t \in Threads : DestroySignal(t)

-----------------------------------------------------------------------------

Next == \/ \E c \in Callers : dispatch(c)
        \/ \E t \in Threads : wrapperFunc(t)
        \/ Destroy

Spec == Init /\ [][Next]_vars

Fairness ==
  /\ \A c \in Callers : /\ SF_vars(DispatchSignal(c))
                        /\ SF_vars(DispatchCreate(c) \/ DispatchReuse(c))
  /\ \A t \in Threads : SF_vars(wrapperFunc(t))
  /\ SF_vars(owner # "out" /\ Destroy)

FairSpec == Spec /\ Fairness

-----------------------------------------------------------------------------
TypeOK ==
  /\ main \in {"free", "held"}
  /\ total \in Nat
  /\ idle \in SUBSET Threads
  /\ shutdown \in {0, 1}
  /\ thread \in [Threads -> {"none", "run", "done", "saved", "waiting", "gone"}]
  /\ func \in [Threads -> Tasks \cup {NoTask}]
  /\ call \in [Callers -> {"absent", "out", "waiting", "woken", "signal"}]
  /\ picked \in [Callers -> Threads \cup {NoThread}]
  /\ owner \in {"out", "waitFull", "wokenFull", "signal", "waitEmpty", "wokenEmpty",
                "destroyed"}
  /\ unsignalled \in SUBSET Threads
  /\ given \in SUBSET Tasks
  /\ ran \in [Tasks -> Nat]

Live == {t \in Threads : thread[t] \notin {"none", "gone"}}

\* The programs that use a pool dispatch to it from one thread.
OneDispatcher == \A c, d \in Callers : call[c] # "absent" /\ call[d] # "absent" => c = d

(* dispatch never runs more than mMaxThreads threads, if one thread calls it.  *)
AtMostMaxThreads == OneDispatcher => total <= MaxThreads

(* A task is run once and only after it was dispatched: no idle thread runs    *)
(* the function of its previous task again, and no two callers hand their      *)
(* tasks to the same thread.                                                   *)
RunsOnce == \A k \in Tasks : ran[k] <= IF k \in given THEN 1 ELSE 0

(* A listed thread is idle and the task of every other live thread is still to *)
(* be run or just has been: a dispatched task is never dropped by a signal     *)
(* sent before its thread waits.                                               *)
IdleThreadsAreIdle ==
  /\ shutdown = 0 => \A t \in idle : thread[t] \in {"saved", "waiting"}
  /\ \A t \in Threads : thread[t] \in {"saved", "waiting"} =>
       t \in idle \/ \E c \in Callers : picked[c] = t

(* No thread of the pool touches its structure, the list or the mutex after    *)
(* the destructor has freed them.                                              *)
NoUseAfterFree == owner = "destroyed" => Live = {}

(* Every dispatched task is run at last.                                       *)
DispatchedIsRun == \A k \in Tasks : k \in given ~> ran[k] = 1

(* With one dispatcher the destructor returns: neither mFullCond nor           *)
(* mEmptyCond is signalled before it waits for it.                             *)
DestructorReturns == owner # "out" /\ OneDispatcher ~> owner = "destroyed"
=============================================================================
