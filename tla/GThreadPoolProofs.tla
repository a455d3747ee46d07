--------------------------- MODULE GThreadPoolProofs ---------------------------
(***************************************************************************)
(* What holds of GThreadPool for every number of threads, tasks and         *)
(* callers: its types, that a task runs at most once, and, with one caller, *)
(* that the pool never exceeds mMaxThreads.                                 *)
(***************************************************************************)
EXTENDS GThreadPool, FiniteSetTheorems, TLAPS

(* mTotal counts every thread that has not left (and those of Excess).       *)
CountsLive == Cardinality(Live) <= total

TypeInv == TypeOK /\ CountsLive

-----------------------------------------------------------------------------
(* Sets of threads are finite, so that they can be counted. *)
LEMMA LiveFinite == IsFiniteSet(Live) /\ Cardinality(Live) \in Nat
<1>1. IsFiniteSet(Live)
  BY PoolAssumption, FS_Subset DEF Live
<1> QED
  BY <1>1, FS_CardinalityType

(* A step that leaves the program counters of the threads as far as they     *)
(* say who is live, and mTotal, keeps the count.                             *)
LEMMA SameLive ==
  ASSUME CountsLive, total' = total,
         \A t \in Threads : thread'[t] \in {"none", "gone"} <=> thread[t] \in {"none", "gone"}
  PROVE  CountsLive'
<1>1. Live' = Live
  BY DEF Live
<1> QED
  BY <1>1 DEF CountsLive

(* What Woken does to the threads: at most one that waited runs.             *)
LEMMA WokenThread ==
  ASSUME TypeOK, NEW t \in Threads \cup {NoThread}
  PROVE  /\ Woken(t) \in [Threads -> {"none", "run", "done", "saved", "waiting", "gone"}]
         /\ \A u \in Threads : u # t => Woken(t)[u] = thread[u]
         /\ t \in Threads => Woken(t)[t] = IF thread[t] = "waiting" THEN "run" ELSE thread[t]
BY DEF Woken, TypeOK

(* A call passes a task that no call has passed before.                      *)
LEMMA NextIsNew == \A k \in NextTask : k \in Tasks \ given
BY DEF NextTask

(* Initially no thread exists: type correctness holds and none is counted.   *)
LEMMA TypeInvInit == Init => TypeInv
<1> SUFFICES ASSUME Init PROVE TypeInv
  OBVIOUS
<1>1. TypeOK
  BY DEF Init, TypeOK
<1>2. Live = {}
  BY DEF Init, Live
<1> QED
  BY <1>1, <1>2, FS_EmptySet DEF TypeInv, CountsLive, Init

(* Every step of a caller keeps types and count.                             *)
LEMMA TypeInvDispatch ==
  ASSUME TypeInv, NEW c \in Callers, dispatch(c)
  PROVE  TypeInv'
<1> USE DEF TypeInv
<1>1. CASE DispatchWait(c)
  <2>1. TypeOK'
    BY <1>1 DEF DispatchWait, TypeOK, threadState, ownerState
  <2>2. CountsLive'
    BY <1>1, SameLive DEF DispatchWait, threadState
  <2> QED
    BY <2>1, <2>2
<1>2. CASE DispatchCreate(c)
  <2>1. PICK t \in Threads, k \in Tasks \ given :
          /\ thread[t] = "none"
          /\ thread' = [thread EXCEPT ![t] = "run"]
          /\ func' = [func EXCEPT ![t] = k]
          /\ given' = given \cup {k}
    BY <1>2, NextIsNew DEF DispatchCreate
  <2>2. TypeOK'
    BY <1>2, <2>1 DEF DispatchCreate, TypeOK, ownerState
  <2>3. Live' = Live \cup {t} /\ t \notin Live
    BY <2>1 DEF Live, TypeOK
  <2>4. Cardinality(Live') = Cardinality(Live) + 1
    BY <2>3, LiveFinite, FS_AddElement
  <2>5. CountsLive'
    BY <1>2, <2>4, LiveFinite DEF DispatchCreate, CountsLive, TypeOK
  <2> QED
    BY <2>2, <2>5
<1>3. CASE DispatchFails(c)
  <2>1. TypeOK'
    BY <1>3 DEF DispatchFails, TypeOK, threadState, ownerState
  <2>2. CountsLive'
    BY <1>3, SameLive DEF DispatchFails, threadState
  <2> QED
    BY <2>1, <2>2
<1>4. CASE DispatchReuse(c)
  <2>1. TypeOK'
    BY <1>4, NextIsNew DEF DispatchReuse, TypeOK, ownerState
  <2>2. CountsLive'
    BY <1>4, SameLive DEF DispatchReuse
  <2> QED
    BY <2>1, <2>2
<1>5. CASE DispatchSignal(c)
  <2>1. picked[c] \in Threads \cup {NoThread}
    BY DEF TypeOK
  <2>2. TypeOK'
    BY <1>5, <2>1, WokenThread DEF DispatchSignal, TypeOK, ownerState
  <2>3. \A t \in Threads : thread'[t] \in {"none", "gone"} <=> thread[t] \in {"none", "gone"}
    BY <1>5, <2>1, WokenThread DEF DispatchSignal
  <2>4. CountsLive'
    BY <1>5, <2>3, SameLive DEF DispatchSignal
  <2> QED
    BY <2>2, <2>4
<1> QED
  BY <1>1, <1>2, <1>3, <1>4, <1>5 DEF dispatch

(* A thread that leaves is live until then, so mTotal is not yet 0.          *)
LEMMA TypeInvThread ==
  ASSUME TypeInv, NEW t \in Threads, wrapperFunc(t)
  PROVE  TypeInv'
<1> USE DEF TypeInv
<1>1. CASE Run(t)
  <2>1. ran' \in [Tasks -> Nat]
    <3>1. \A k \in Tasks : ran[k] + 1 \in Nat
      BY DEF TypeOK
    <3>2. ran' = [ran EXCEPT ![func[t]] = @ + 1]
      BY <1>1 DEF Run
    <3> QED
      BY <3>1, <3>2, Zenon DEF TypeOK
  <2>2. TypeOK'
    BY <1>1, <2>1 DEF Run, TypeOK, callState, ownerState
  <2>3. CountsLive'
    BY <1>1, SameLive DEF Run, TypeOK
  <2> QED
    BY <2>2, <2>3
<1>2. CASE SaveThread(t)
  <2>1. call' \in [Callers -> {"absent", "out", "waiting", "woken", "signal"}]
    BY <1>2 DEF SaveThread, SignalIdle, TypeOK
  <2>2. owner' \in {owner, "wokenFull"}
    BY <1>2 DEF SaveThread
  <2>3. TypeOK'
    BY <1>2, <2>1, <2>2 DEF SaveThread, TypeOK
  <2>4. CountsLive'
    BY <1>2, SameLive DEF SaveThread, TypeOK
  <2> QED
    BY <2>3, <2>4
<1>3. CASE Excess(t)
  <2>1. TypeOK'
    BY <1>3 DEF Excess, TypeOK, callState, ownerState
  <2>2. Live' \subseteq Live
    BY <1>3 DEF Excess, Live, TypeOK
  <2>3. Cardinality(Live') <= Cardinality(Live) /\ Cardinality(Live') \in Nat
    BY <2>2, LiveFinite, FS_Subset, FS_CardinalityType
  <2>4. CountsLive'
    BY <1>3, <2>3, LiveFinite DEF Excess, CountsLive, TypeOK
  <2> QED
    BY <2>1, <2>4
<1>4. CASE Wait(t)
  <2>1. TypeOK'
    BY <1>4 DEF Wait, TypeOK, callState, ownerState
  <2>2. CountsLive'
    BY <1>4, SameLive DEF Wait, TypeOK
  <2> QED
    BY <2>1, <2>2
<1>5. CASE Leave(t)
  <2>1. Live' = Live \ {t} /\ t \in Live
    BY <1>5 DEF Leave, Live, TypeOK
  <2>2. Cardinality(Live') = Cardinality(Live) - 1 /\ Cardinality(Live) > 0
    BY <2>1, LiveFinite, FS_RemoveElement, FS_EmptySet
  <2>3. CountsLive' /\ total' \in Nat
    BY <1>5, <2>2, LiveFinite DEF Leave, CountsLive, TypeOK
  <2>4. owner' \in {owner, "wokenEmpty"}
    BY <1>5 DEF Leave
  <2>5. TypeOK'
    BY <1>5, <2>3, <2>4 DEF Leave, TypeOK, callState
  <2> QED
    BY <2>3, <2>5
<1> QED
  BY <1>1, <1>2, <1>3, <1>4, <1>5 DEF wrapperFunc

(* The destructor starts no thread and ends none.                            *)
LEMMA TypeInvDestroy ==
  ASSUME TypeInv, Destroy
  PROVE  TypeInv'
<1> USE DEF TypeInv
<1>1. CASE DestroyEnter
  <2>1. TypeOK'
    BY <1>1 DEF DestroyEnter, TypeOK, threadState, callState
  <2> QED
    BY <1>1, <2>1, SameLive DEF DestroyEnter, threadState
<1>2. CASE DestroyShutdown
  <2>1. TypeOK'
    BY <1>2 DEF DestroyShutdown, TypeOK, threadState, callState
  <2> QED
    BY <1>2, <2>1, SameLive DEF DestroyShutdown, threadState
<1>3. ASSUME NEW t \in Threads, DestroySignal(t)
      PROVE  TypeInv'
  <2>1. TypeOK'
    BY <1>3, WokenThread DEF DestroySignal, TypeOK, callState
  <2>2. \A u \in Threads : thread'[u] \in {"none", "gone"} <=> thread[u] \in {"none", "gone"}
    BY <1>3, WokenThread DEF DestroySignal
  <2> QED
    BY <1>3, <2>1, <2>2, SameLive DEF DestroySignal
<1>4. CASE DestroyWait
  <2>1. TypeOK'
    BY <1>4 DEF DestroyWait, TypeOK, threadState, callState
  <2> QED
    BY <1>4, <2>1, SameLive DEF DestroyWait, threadState
<1>5. CASE DestroyFree
  <2>1. TypeOK'
    BY <1>5 DEF DestroyFree, TypeOK, threadState, callState
  <2> QED
    BY <1>5, <2>1, SameLive DEF DestroyFree, threadState
<1> QED
  BY <1>1, <1>2, <1>3, <1>4, <1>5 DEF Destroy

(* Types and count survive every step of the pool.                           *)
LEMMA TypeInvNext == TypeInv /\ [Next]_vars => TypeInv'
<1> SUFFICES ASSUME TypeInv, [Next]_vars PROVE TypeInv'
  OBVIOUS
<1>1. CASE \E c \in Callers : dispatch(c)
  BY <1>1, TypeInvDispatch
<1>2. CASE \E t \in Threads : wrapperFunc(t)
  BY <1>2, TypeInvThread
<1>3. CASE Destroy
  BY <1>3, TypeInvDestroy
<1>4. CASE UNCHANGED vars
  BY <1>4 DEF vars, TypeInv, TypeOK, CountsLive, Live
<1> QED
  BY <1>1, <1>2, <1>3, <1>4 DEF Next

(* The types of the pool's state; mTotal never becomes negative.             *)
THEOREM TypeCorrect == Spec => []TypeOK
<1>1. TypeInv => TypeOK
  BY DEF TypeInv
<1> QED
  BY <1>1, TypeInvInit, TypeInvNext, PTL DEF Spec

-----------------------------------------------------------------------------
(* A task runs at most once. *)

(* The destructor is entered after the last dispatch has returned, and it is *)
(* the destructor that shuts down.                                           *)
CallersOut ==
  /\ IF owner = "out" THEN shutdown = 0 ELSE \A c \in Callers : call[c] \in {"out", "absent"}
  /\ owner \in {"signal", "waitEmpty", "wokenEmpty", "destroyed"} => shutdown = 1

(* A caller that has taken an idle thread holds mMainMutex until it signals. *)
PickedParked ==
  \A c \in Callers :
    /\ call[c] = "signal" => main = "held" /\ picked[c] \in Threads
    /\ picked[c] \in Threads =>
         /\ call[c] = "signal"
         /\ thread[picked[c]] \in {"saved", "waiting"}
         /\ picked[c] \notin idle
    /\ \A d \in Callers : call[c] = "signal" /\ call[d] = "signal" => c = d

(* A listed thread waits for its mCond, or is about to.                      *)
IdleParked == shutdown = 0 => \A t \in idle : thread[t] \in {"saved", "waiting"}

(* t holds a task that it has still to run.                                  *)
Loaded(t) == thread[t] = "run" \/ \E c \in Callers : picked[c] = t

(* The task a thread still has to run was given, has not run, and is in no   *)
(* other thread's hands.                                                     *)
FreshTasks ==
  shutdown = 0 =>
    \A t \in Threads : Loaded(t) =>
      /\ func[t] \in given
      /\ ran[func[t]] = 0
      /\ \A u \in Threads \ {t} : Loaded(u) => func[u] # func[t]

OnceInv == /\ TypeOK /\ CallersOut /\ PickedParked /\ IdleParked
           /\ FreshTasks /\ RunsOnce

(* Initially no task is given and no caller is in dispatch.                  *)
LEMMA OnceInvInit == Init => OnceInv
BY PoolAssumption DEF Init, OnceInv, TypeOK, CallersOut, PickedParked, IdleParked, FreshTasks,
   Loaded, RunsOnce

(* A step that changes no task, no loaded thread and no list keeps the rest. *)
LEMMA OnceInvFrame ==
  ASSUME OnceInv, TypeOK', UNCHANGED <<func, given, ran, picked>>,
         shutdown' = 0 => shutdown = 0,
         \A t \in Threads : thread'[t] = "run" => thread[t] = "run" \/ shutdown' = 1
  PROVE  FreshTasks' /\ RunsOnce'
BY DEF OnceInv, FreshTasks, Loaded, RunsOnce, TypeOK

(* A caller hands a task over that nobody has, to a thread that has none.    *)
LEMMA OnceInvDispatch ==
  ASSUME OnceInv, TypeOK', NEW c \in Callers, dispatch(c)
  PROVE  OnceInv'
<1> USE DEF OnceInv
<1>1. CASE DispatchWait(c)
  <2>1. CallersOut' /\ PickedParked' /\ IdleParked'
    BY <1>1 DEF DispatchWait, CallersOut, PickedParked, IdleParked, threadState, ownerState,
       Free, TypeOK
  <2> QED
    BY <1>1, <2>1, OnceInvFrame DEF DispatchWait, threadState, ownerState
<1>2. CASE DispatchFails(c)
  <2>1. CallersOut' /\ PickedParked' /\ IdleParked'
    BY <1>2 DEF DispatchFails, MayProceed, CallersOut, PickedParked, IdleParked, threadState,
       ownerState, Free, TypeOK
  <2> QED
    BY <1>2, <2>1, OnceInvFrame DEF DispatchFails, threadState, ownerState
<1>3. CASE DispatchCreate(c)
  <2>1. PICK t \in Threads, k \in Tasks \ given :
          /\ thread[t] = "none"
          /\ thread' = [thread EXCEPT ![t] = "run"]
          /\ func' = [func EXCEPT ![t] = k]
          /\ given' = given \cup {k}
    BY <1>3, NextIsNew DEF DispatchCreate
  <2>2. CallersOut' /\ PickedParked' /\ IdleParked'
    BY <1>3, <2>1 DEF DispatchCreate, MayProceed, CallersOut, PickedParked, IdleParked,
       ownerState, Free, TypeOK
  <2>3. ran[k] = 0 /\ RunsOnce'
    BY <1>3, <2>1 DEF DispatchCreate, RunsOnce, TypeOK
  <2>4. \A u \in Threads : Loaded(u)' <=> Loaded(u) \/ u = t
    BY <1>3, <2>1 DEF DispatchCreate, Loaded, TypeOK
  <2>5. FreshTasks'
    BY <1>3, <2>1, <2>3, <2>4 DEF DispatchCreate, FreshTasks, ownerState, TypeOK
  <2> QED
    BY <2>2, <2>3, <2>5
<1>4. CASE DispatchReuse(c)
  <2>1. PICK t \in idle, k \in Tasks \ given :
          /\ idle' = idle \ {t}
          /\ func' = [func EXCEPT ![t] = k]
          /\ picked' = [picked EXCEPT ![c] = t]
          /\ given' = given \cup {k}
    BY <1>4, NextIsNew DEF DispatchReuse
  <2>2. owner = "out" /\ \A d \in Callers : call[d] # "signal"
    BY <1>4 DEF DispatchReuse, MayProceed, CallersOut, PickedParked, Free
  <2>3. t \in Threads /\ thread[t] \in {"saved", "waiting"}
    BY <2>1, <2>2 DEF IdleParked, CallersOut, TypeOK
  <2>4. CallersOut' /\ IdleParked'
    BY <1>4, <2>1, <2>2 DEF DispatchReuse, CallersOut, IdleParked, ownerState
  <2>5. PickedParked'
    BY <1>4, <2>1, <2>2, <2>3 DEF DispatchReuse, PickedParked, TypeOK
  <2>6. ran[k] = 0 /\ RunsOnce'
    BY <1>4, <2>1 DEF DispatchReuse, RunsOnce, TypeOK
  <2>7. \A u \in Threads : Loaded(u)' <=> Loaded(u) \/ u = t
    BY <1>4, <2>1, <2>2 DEF DispatchReuse, Loaded, PickedParked, TypeOK
  <2>8. FreshTasks'
    BY <1>4, <2>1, <2>3, <2>6, <2>7 DEF DispatchReuse, FreshTasks, ownerState, TypeOK
  <2> QED
    BY <2>4, <2>5, <2>6, <2>8
<1>5. CASE DispatchSignal(c)
  <2>1. picked[c] \in Threads /\ thread[picked[c]] = "waiting" /\ picked[c] \notin idle
    BY <1>5 DEF DispatchSignal, PickedParked
  <2>2. thread' = [thread EXCEPT ![picked[c]] = "run"]
    BY <1>5, <2>1 DEF DispatchSignal, Woken
  <2>3. CallersOut' /\ IdleParked'
    BY <1>5, <2>1, <2>2 DEF DispatchSignal, CallersOut, IdleParked, ownerState, TypeOK
  <2>4. \A d \in Callers \ {c} : call[d] # "signal" /\ picked[d] \notin Threads
    BY <1>5 DEF DispatchSignal, PickedParked
  <2>5. PickedParked'
    BY <1>5, <2>4, PoolAssumption DEF DispatchSignal, PickedParked, TypeOK
  <2>6. \A u \in Threads : Loaded(u)' <=> Loaded(u)
    BY <1>5, <2>1, <2>2, <2>4, PoolAssumption DEF DispatchSignal, Loaded, TypeOK
  <2>7. FreshTasks' /\ RunsOnce'
    BY <1>5, <2>6 DEF DispatchSignal, FreshTasks, RunsOnce, ownerState
  <2> QED
    BY <2>3, <2>5, <2>7
<1> QED
  BY <1>1, <1>2, <1>3, <1>4, <1>5 DEF dispatch

(* The thread that runs its task is done with it; it runs another one only   *)
(* after a caller has signalled it.                                          *)
LEMMA OnceInvThread ==
  ASSUME OnceInv, TypeOK', NEW t \in Threads, wrapperFunc(t)
  PROVE  OnceInv'
<1> USE DEF OnceInv
<1>1. CASE Run(t)
  <2>1. t \notin idle /\ \A c \in Callers : picked[c] # t
    BY <1>1 DEF Run, IdleParked, PickedParked
  <2>2. func[t] \in given /\ func[t] \in Tasks /\ ran[func[t]] = 0
    BY <1>1 DEF Run, FreshTasks, Loaded, TypeOK
  <2>3. CallersOut' /\ PickedParked' /\ IdleParked'
    BY <1>1, <2>1 DEF Run, CallersOut, PickedParked, IdleParked, callState, ownerState, TypeOK
  <2>4. \A u \in Threads : Loaded(u)' <=> Loaded(u) /\ u # t
    BY <1>1, <2>1 DEF Run, Loaded, callState, TypeOK
  <2>5. FreshTasks'
    BY <1>1, <2>2, <2>4 DEF Run, FreshTasks, Loaded, callState, ownerState, TypeOK
  <2>6. RunsOnce'
    BY <1>1, <2>2 DEF Run, RunsOnce, callState, TypeOK
  <2> QED
    BY <2>3, <2>5, <2>6
<1>2. CASE SaveThread(t)
  <2>1. \A c \in Callers : call'[c] # call[c] => call[c] = "waiting" /\ call'[c] = "woken"
    BY <1>2 DEF SaveThread, SignalIdle, TypeOK
  <2>2. CallersOut'
    BY <1>2, <2>1 DEF SaveThread, CallersOut
  <2>3. PickedParked' /\ IdleParked'
    BY <1>2, <2>1 DEF SaveThread, PickedParked, IdleParked, TypeOK
  <2> QED
    BY <1>2, <2>2, <2>3, OnceInvFrame DEF SaveThread, TypeOK
<1>3. CASE Excess(t)
  <2>1. CallersOut' /\ PickedParked' /\ IdleParked'
    BY <1>3 DEF Excess, CallersOut, PickedParked, IdleParked, callState, ownerState, TypeOK
  <2> QED
    BY <1>3, <2>1, OnceInvFrame DEF Excess, callState, ownerState, TypeOK
<1>4. CASE Wait(t)
  <2>1. CallersOut' /\ PickedParked' /\ IdleParked'
    BY <1>4 DEF Wait, CallersOut, PickedParked, IdleParked, callState, ownerState, TypeOK
  <2> QED
    BY <1>4, <2>1, OnceInvFrame DEF Wait, callState, ownerState, TypeOK
<1>5. CASE Leave(t)
  <2>1. CallersOut' /\ PickedParked' /\ IdleParked'
    BY <1>5 DEF Leave, CallersOut, PickedParked, IdleParked, callState, TypeOK
  <2> QED
    BY <1>5, <2>1, OnceInvFrame DEF Leave, callState, TypeOK
<1> QED
  BY <1>1, <1>2, <1>3, <1>4, <1>5 DEF wrapperFunc

(* The destructor wakes the idle threads only after it has shut down: they   *)
(* leave without running anything.                                           *)
LEMMA OnceInvDestroy ==
  ASSUME OnceInv, TypeOK', Destroy
  PROVE  OnceInv'
<1> USE DEF OnceInv
<1>1. CASE DestroyEnter
  <2>1. CallersOut' /\ PickedParked' /\ IdleParked'
    BY <1>1 DEF DestroyEnter, CallersOut, PickedParked, IdleParked, threadState, callState
  <2> QED
    BY <1>1, <2>1, OnceInvFrame DEF DestroyEnter, threadState, callState
<1>2. CASE DestroyShutdown
  <2>1. CallersOut' /\ PickedParked' /\ IdleParked'
    BY <1>2 DEF DestroyShutdown, CallersOut, PickedParked, IdleParked, threadState, callState
  <2> QED
    BY <1>2, <2>1, OnceInvFrame DEF DestroyShutdown, threadState, callState
<1>3. ASSUME NEW t \in Threads, DestroySignal(t)
      PROVE  OnceInv'
  <2>1. \A c \in Callers : picked[c] \notin Threads
    BY <1>3 DEF DestroySignal, CallersOut, PickedParked
  <2>2. CallersOut' /\ PickedParked'
    BY <1>3, <2>1 DEF DestroySignal, CallersOut, PickedParked, callState
  <2>3. shutdown = 1 /\ shutdown' = 1 /\ idle' = idle
    BY <1>3 DEF DestroySignal, CallersOut
  <2> QED
    BY <1>3, <2>2, <2>3, OnceInvFrame DEF DestroySignal, callState, IdleParked
<1>4. CASE DestroyWait
  <2>1. CallersOut' /\ PickedParked' /\ IdleParked'
    BY <1>4 DEF DestroyWait, CallersOut, PickedParked, IdleParked, threadState, callState
  <2> QED
    BY <1>4, <2>1, OnceInvFrame DEF DestroyWait, threadState, callState
<1>5. CASE DestroyFree
  <2>1. CallersOut' /\ PickedParked' /\ IdleParked'
    BY <1>5 DEF DestroyFree, CallersOut, PickedParked, IdleParked, threadState, callState
  <2> QED
    BY <1>5, <2>1, OnceInvFrame DEF DestroyFree, threadState, callState
<1> QED
  BY <1>1, <1>2, <1>3, <1>4, <1>5 DEF Destroy

(* No step of callers, threads or destructor loses or doubles a task.        *)
LEMMA OnceInvNext == TypeOK' /\ OnceInv /\ [Next]_vars => OnceInv'
<1> SUFFICES ASSUME TypeOK', OnceInv, [Next]_vars PROVE OnceInv'
  OBVIOUS
<1>1. CASE \E c \in Callers : dispatch(c)
  BY <1>1, OnceInvDispatch
<1>2. CASE \E t \in Threads : wrapperFunc(t)
  BY <1>2, OnceInvThread
<1>3. CASE Destroy
  BY <1>3, OnceInvDestroy
<1>4. CASE UNCHANGED vars
  BY <1>4 DEF vars, OnceInv, CallersOut, PickedParked, IdleParked, FreshTasks, Loaded, RunsOnce
<1> QED
  BY <1>1, <1>2, <1>3, <1>4 DEF Next

(* No task is run twice or without having been dispatched, whatever the      *)
(* numbers of callers, threads and tasks: wrapperFunc comes back from its    *)
(* wait only with a new function.                                            *)
THEOREM TasksRunOnce == Spec => []RunsOnce
<1>1. OnceInv => RunsOnce
  BY DEF OnceInv
<1> QED
  BY <1>1, TypeCorrect, OnceInvInit, OnceInvNext, PTL DEF Spec

-----------------------------------------------------------------------------
(* One caller, as in FfmpegContext and FileDeCodec. *)

(* Who was woken for an idle thread still finds it.                          *)
WokenFindsIdle == \A c \in Callers : call[c] = "woken" => idle # {}

LimitInv == /\ TypeOK /\ CallersOut
            /\ OneDispatcher => WokenFindsIdle /\ total <= MaxThreads

(* A caller that never calls is never seen in dispatch: who dispatches alone *)
(* now has always been alone.                                                *)
LEMMA DispatcherStays ==
  ASSUME TypeOK, [Next]_vars
  PROVE  OneDispatcher' => OneDispatcher
<1>1. ASSUME NEW c \in Callers, dispatch(c)
      PROVE  \A d \in Callers : call'[d] = "absent" => call[d] = "absent"
  BY <1>1 DEF dispatch, DispatchWait, DispatchCreate, DispatchFails, DispatchReuse,
     DispatchSignal, TypeOK
<1>2. ASSUME NEW t \in Threads, wrapperFunc(t)
      PROVE  \A d \in Callers : call'[d] = "absent" => call[d] = "absent"
  BY <1>2 DEF wrapperFunc, Run, SaveThread, SignalIdle, Excess, Wait, Leave, callState, TypeOK
<1>3. CASE Destroy \/ UNCHANGED vars
  <2>1. call' = call
    BY <1>3 DEF Destroy, DestroyEnter, DestroyShutdown, DestroySignal, DestroyWait,
       DestroyFree, callState, vars
  <2> QED
    BY <2>1 DEF OneDispatcher
<1> QED
  BY <1>1, <1>2, <1>3 DEF Next, OneDispatcher

(* With one dispatcher every step keeps mTotal within mMaxThreads.           *)
LEMMA LimitInvNext ==
  ASSUME TypeOK', CallersOut', LimitInv, [Next]_vars
  PROVE  LimitInv'
<1> SUFFICES ASSUME OneDispatcher' PROVE WokenFindsIdle' /\ total' <= MaxThreads
  BY DEF LimitInv
<1>0. OneDispatcher /\ WokenFindsIdle /\ total <= MaxThreads /\ TypeOK /\ CallersOut
  BY DispatcherStays DEF LimitInv
<1>1. ASSUME NEW c \in Callers, dispatch(c)
      PROVE  WokenFindsIdle' /\ total' <= MaxThreads
  <2>0. \A d \in Callers \ {c} : call[d] = "absent"
    BY <1>0, <1>1 DEF OneDispatcher, dispatch, DispatchWait, DispatchCreate, DispatchFails,
       DispatchReuse, DispatchSignal, MayProceed
  <2>1. CASE DispatchWait(c)
    BY <1>0, <2>1 DEF DispatchWait, WokenFindsIdle, TypeOK
  <2>2. CASE DispatchCreate(c)
    <3>1. total < MaxThreads
      BY <1>0, <2>2, PoolAssumption DEF DispatchCreate, MayProceed, MustWait, WokenFindsIdle, TypeOK
    <3>2. \A d \in Callers : call'[d] # "woken"
      BY <1>0, <2>0, <2>2 DEF DispatchCreate, TypeOK
    <3> QED
      BY <1>0, <2>2, <3>1, <3>2, PoolAssumption DEF DispatchCreate, WokenFindsIdle, TypeOK
  <2>3. CASE DispatchFails(c)
    BY <1>0, <2>3 DEF DispatchFails, WokenFindsIdle, TypeOK
  <2>4. CASE DispatchReuse(c)
    <3>1. \A d \in Callers : call'[d] # "woken"
      BY <1>0, <2>0, <2>4 DEF DispatchReuse, TypeOK
    <3> QED
      BY <1>0, <2>4, <3>1 DEF DispatchReuse, WokenFindsIdle
  <2>5. CASE DispatchSignal(c)
    BY <1>0, <2>5 DEF DispatchSignal, WokenFindsIdle, TypeOK
  <2> QED
    BY <1>1, <2>1, <2>2, <2>3, <2>4, <2>5 DEF dispatch
<1>2. ASSUME NEW t \in Threads, wrapperFunc(t)
      PROVE  WokenFindsIdle' /\ total' <= MaxThreads
  <2>1. CASE SaveThread(t)
    BY <1>0, <2>1 DEF SaveThread, WokenFindsIdle
  <2>2. CASE Leave(t)
    BY <1>0, <2>2, PoolAssumption DEF Leave, callState, WokenFindsIdle, TypeOK
  <2>3. CASE Run(t) \/ Excess(t) \/ Wait(t)
    BY <1>0, <2>3 DEF Run, Excess, Wait, callState, WokenFindsIdle
  <2> QED
    BY <1>2, <2>1, <2>2, <2>3 DEF wrapperFunc
<1>3. CASE Destroy
  <2>1. CASE DestroyFree
    BY <1>0, <2>1 DEF DestroyFree, CallersOut, callState, WokenFindsIdle
  <2>2. CASE \E t \in Threads : DestroySignal(t)
    BY <1>0, <2>2 DEF DestroySignal, callState, WokenFindsIdle
  <2>3. CASE DestroyEnter \/ DestroyShutdown \/ DestroyWait
    BY <1>0, <2>3 DEF DestroyEnter, DestroyShutdown, DestroyWait, callState, WokenFindsIdle
  <2> QED
    BY <1>3, <2>1, <2>2, <2>3 DEF Destroy
<1>4. CASE UNCHANGED vars
  BY <1>0, <1>4 DEF vars, WokenFindsIdle
<1> QED
  BY <1>1, <1>2, <1>3, <1>4 DEF Next

(* With one thread that dispatches, the pool never counts more threads than  *)
(* mMaxThreads: a caller woken from mIdleCond finds the idle thread still on *)
(* the list and creates none.                                                *)
THEOREM OneCallerLimit == Spec => []AtMostMaxThreads
<1>1. Init => LimitInv /\ OnceInv
  BY OnceInvInit, PoolAssumption DEF Init, LimitInv, OnceInv, WokenFindsIdle
<1>2. TypeOK' /\ LimitInv /\ OnceInv /\ [Next]_vars => LimitInv' /\ OnceInv'
  BY LimitInvNext, OnceInvNext DEF OnceInv
<1>3. LimitInv => AtMostMaxThreads
  BY DEF LimitInv, AtMostMaxThreads
<1> QED
  BY <1>1, <1>2, <1>3, TypeCorrect, PTL DEF Spec

-----------------------------------------------------------------------------
(* The idle threads and the end of the pool. *)

(* A thread that waits for its mCond is on the list, or a caller has taken   *)
(* it and is about to signal it.                                             *)
ParkedKnown ==
  \A t \in Threads : thread[t] \in {"saved", "waiting"} =>
    t \in idle \/ \E c \in Callers : picked[c] = t

(* The destructor stops waiting only when every thread has left.             *)
EmptyAtEnd == owner \in {"wokenEmpty", "destroyed"} => Live = {}

EndInv == TypeInv /\ OnceInv /\ ParkedKnown /\ EmptyAtEnd

(* mTotal at 0 means that no thread lives.                                   *)
LEMMA NoneCounted ==
  ASSUME TypeOK, CountsLive, total <= 0
  PROVE  Live = {}
<1>1. Cardinality(Live) = 0
  BY LiveFinite DEF CountsLive, TypeOK
<1> QED
  BY <1>1, LiveFinite, FS_EmptySet

(* A step of a caller: who takes a thread from the list knows it.            *)
LEMMA EndInvDispatch ==
  ASSUME EndInv, NEW c \in Callers, dispatch(c)
  PROVE  ParkedKnown' /\ EmptyAtEnd'
<1> USE DEF EndInv
<1>0. OnceInv /\ TypeOK /\ CallersOut
  BY DEF OnceInv
<1>1. owner = "out" /\ owner' = "out"
  BY <1>0 DEF dispatch, DispatchWait, DispatchCreate, DispatchFails, DispatchReuse,
     DispatchSignal, MayProceed, ownerState, CallersOut
<1>2. EmptyAtEnd'
  BY <1>1 DEF EmptyAtEnd
<1>3. CASE DispatchWait(c) \/ DispatchFails(c)
  <2>1. ParkedKnown'
    BY <1>3 DEF DispatchWait, DispatchFails, threadState, ParkedKnown
  <2> QED
    BY <1>2, <2>1
<1>4. CASE DispatchCreate(c)
  <2>1. \A t \in Threads : thread'[t] \in {"saved", "waiting"} => thread[t] \in {"saved", "waiting"}
    BY <1>0, <1>4 DEF DispatchCreate, TypeOK
  <2>2. ParkedKnown'
    BY <1>4, <2>1 DEF DispatchCreate, ParkedKnown
  <2> QED
    BY <1>2, <2>2
<1>5. CASE DispatchReuse(c)
  <2>1. \A d \in Callers : picked[d] \notin Threads
    BY <1>0, <1>5 DEF DispatchReuse, Free, OnceInv, PickedParked
  <2>2. PICK t \in idle :
          idle' = idle \ {t} /\ picked' = [picked EXCEPT ![c] = t] /\ thread' = thread
    BY <1>5 DEF DispatchReuse
  <2>3. ParkedKnown'
    BY <1>0, <2>1, <2>2 DEF ParkedKnown, TypeOK
  <2> QED
    BY <1>2, <2>3
<1>6. CASE DispatchSignal(c)
  <2>1. picked[c] \in Threads /\ thread[picked[c]] = "waiting"
    BY <1>0, <1>6 DEF DispatchSignal, OnceInv, PickedParked
  <2>2. thread' = [thread EXCEPT ![picked[c]] = "run"]
    BY <1>6, <2>1 DEF DispatchSignal, Woken
  <2>3. ASSUME NEW u \in Threads, thread'[u] \in {"saved", "waiting"}
        PROVE  u \in idle' \/ \E d \in Callers : picked'[d] = u
    <3>1. u # picked[c] /\ thread[u] \in {"saved", "waiting"}
      BY <1>0, <2>1, <2>2, <2>3 DEF TypeOK
    <3>2. \A d \in Callers \ {c} : picked'[d] = picked[d]
      BY <1>0, <1>6 DEF DispatchSignal, TypeOK
    <3>3. idle' = idle
      BY <1>6 DEF DispatchSignal
    <3> QED
      BY <3>1, <3>2, <3>3 DEF ParkedKnown
  <2>4. ParkedKnown'
    BY <2>3 DEF ParkedKnown
  <2> QED
    BY <1>2, <2>4
<1> QED
  BY <1>3, <1>4, <1>5, <1>6 DEF dispatch

(* A step of a pool thread: it waits only after it is on the list, and the   *)
(* one that wakes the destructor is the last.                                *)
LEMMA EndInvThread ==
  ASSUME EndInv, TypeInv', NEW t \in Threads, wrapperFunc(t)
  PROVE  ParkedKnown' /\ EmptyAtEnd'
<1> USE DEF EndInv, TypeInv
<1>1. t \in Live /\ Live' \subseteq Live
  BY DEF wrapperFunc, Run, SaveThread, Excess, Wait, Leave, Live, TypeOK
<1>2. owner \notin {"wokenEmpty", "destroyed"}
  BY <1>1 DEF EmptyAtEnd
<1>3. CASE Run(t)
  <2>1. ParkedKnown'
    BY <1>3 DEF Run, callState, ParkedKnown, TypeOK
  <2> QED
    BY <1>2, <1>3, <2>1 DEF Run, ownerState, EmptyAtEnd
<1>4. CASE SaveThread(t)
  <2>1. ParkedKnown'
    BY <1>4 DEF SaveThread, ParkedKnown, TypeOK
  <2> QED
    BY <1>2, <1>4, <2>1 DEF SaveThread, EmptyAtEnd
<1>5. CASE Excess(t)
  <2>1. ParkedKnown'
    BY <1>5 DEF Excess, callState, ParkedKnown, TypeOK
  <2> QED
    BY <1>2, <1>5, <2>1 DEF Excess, ownerState, EmptyAtEnd
<1>6. CASE Wait(t)
  <2>1. ParkedKnown'
    BY <1>6 DEF Wait, callState, ParkedKnown, TypeOK
  <2> QED
    BY <1>2, <1>6, <2>1 DEF Wait, ownerState, EmptyAtEnd
<1>7. CASE Leave(t)
  <2>1. ParkedKnown'
    BY <1>7 DEF Leave, callState, ParkedKnown, TypeOK
  <2>2. owner' = "wokenEmpty" => total' <= 0
    BY <1>2, <1>7 DEF Leave
  <2>3. total' <= 0 => Live' = {}
    <3>1. ASSUME total' <= 0 PROVE Live' = {}
      <4>1. IsFiniteSet(Live') /\ Cardinality(Live') \in Nat
        BY <1>1, LiveFinite, FS_Subset, FS_CardinalityType
      <4>2. Cardinality(Live') = 0
        BY <3>1, <4>1 DEF CountsLive, TypeOK
      <4> QED
        BY <4>1, <4>2, FS_EmptySet
    <3> QED
      BY <3>1
  <2>4. owner' # "destroyed"
    BY <1>2, <1>7 DEF Leave
  <2> QED
    BY <2>1, <2>2, <2>3, <2>4 DEF EmptyAtEnd
<1> QED
  BY <1>3, <1>4, <1>5, <1>6, <1>7 DEF wrapperFunc

(* A step of the destructor: it empties the list when nobody is left on it.  *)
LEMMA EndInvDestroy ==
  ASSUME EndInv, Destroy
  PROVE  ParkedKnown' /\ EmptyAtEnd'
<1> USE DEF EndInv, TypeInv
<1>1. CASE DestroyEnter \/ DestroyShutdown
  BY <1>1 DEF DestroyEnter, DestroyShutdown, threadState, callState, ParkedKnown, EmptyAtEnd
<1>2. ASSUME NEW t \in Threads, DestroySignal(t)
      PROVE  ParkedKnown' /\ EmptyAtEnd'
  <2>1. \A u \in Threads : thread'[u] \in {"saved", "waiting"} => thread[u] \in {"saved", "waiting"}
    BY <1>2, WokenThread DEF DestroySignal
  <2> QED
    BY <1>2, <2>1 DEF DestroySignal, callState, ParkedKnown, EmptyAtEnd
<1>3. CASE DestroyWait
  <2>1. Live' = Live
    BY <1>3 DEF DestroyWait, threadState, Live
  <2>2. owner' = "wokenEmpty" => total <= 0
    BY <1>3 DEF DestroyWait, TypeOK
  <2>3. EmptyAtEnd'
    BY <1>3, <2>1, <2>2, NoneCounted DEF DestroyWait, EmptyAtEnd
  <2> QED
    BY <1>3, <2>3 DEF DestroyWait, threadState, callState, ParkedKnown
<1>4. CASE DestroyFree
  <2>1. Live = {} /\ Live' = Live /\ thread' = thread
    BY <1>4 DEF DestroyFree, threadState, Live, EmptyAtEnd
  <2>2. \A t \in Threads : thread'[t] \notin {"saved", "waiting"}
    BY <2>1 DEF Live
  <2> QED
    BY <2>1, <2>2 DEF ParkedKnown, EmptyAtEnd
<1> QED
  BY <1>1, <1>2, <1>3, <1>4 DEF Destroy

(* Initially no thread exists.                                               *)
LEMMA EndInvInit == Init => EndInv
<1> SUFFICES ASSUME Init PROVE ParkedKnown /\ EmptyAtEnd
  BY TypeInvInit, OnceInvInit DEF EndInv
<1> QED
  BY DEF Init, ParkedKnown, EmptyAtEnd

(* Every step keeps the waiting threads known and the end empty.             *)
LEMMA EndInvNext == EndInv /\ [Next]_vars => EndInv'
<1> SUFFICES ASSUME EndInv, [Next]_vars PROVE EndInv'
  OBVIOUS
<1>1. TypeInv' /\ OnceInv'
  BY TypeInvNext, OnceInvNext DEF EndInv, TypeInv
<1>2. ParkedKnown' /\ EmptyAtEnd'
  <2>1. CASE \E c \in Callers : dispatch(c)
    BY <2>1, EndInvDispatch
  <2>2. CASE \E t \in Threads : wrapperFunc(t)
    BY <1>1, <2>2, EndInvThread
  <2>3. CASE Destroy
    BY <2>3, EndInvDestroy
  <2>4. CASE UNCHANGED vars
    BY <2>4 DEF vars, EndInv, ParkedKnown, EmptyAtEnd, Live
  <2> QED
    BY <2>1, <2>2, <2>3, <2>4 DEF Next
<1> QED
  BY <1>1, <1>2 DEF EndInv

(* Whatever the numbers of threads and callers: a listed thread does wait,   *)
(* and a thread that waits is listed or about to be signalled, so saveThread *)
(* and dispatch never lose one.                                              *)
THEOREM IdleAreIdle == Spec => []IdleThreadsAreIdle
<1>1. EndInv => IdleThreadsAreIdle
  BY DEF EndInv, OnceInv, IdleParked, ParkedKnown, IdleThreadsAreIdle
<1> QED
  BY <1>1, EndInvInit, EndInvNext, PTL DEF Spec

(* No thread of the pool lives when the destructor has freed its structures: *)
(* mTotal never counts fewer threads than live, and the destructor frees     *)
(* nothing before it has reached 0.                                          *)
THEOREM NothingOutlivesThePool == Spec => []NoUseAfterFree
<1>1. EndInv => NoUseAfterFree
  BY DEF EndInv, EmptyAtEnd, NoUseAfterFree
<1> QED
  BY <1>1, EndInvInit, EndInvNext, PTL DEF Spec
=============================================================================
