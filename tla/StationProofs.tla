---------------------------- MODULE StationProofs ----------------------------
(***************************************************************************)
(* The life cycle of the server, for every number of calls and signals and  *)
(* a user who calls whenever it likes: how many loops there may be, and     *)
(* when the base of a loop lives.                                           *)
(***************************************************************************)
EXTENDS Station, FiniteSetTheorems, TLAPS

Loops == {t \in Threads : Active(t)}

\* A start has asked isRunning() and not yet created its thread.
Starting == IF user = "start" THEN 1 ELSE 0

(* A start that is under way counts as a loop; when isRunning() says that     *)
(* there is none, and no thread is between its creation and its first line,   *)
(* there is one loop less than there may be.                                 *)
LoopInv ==
  /\ starts \in 0..MaxStarts /\ hurried \in Nat /\ loop \in [Threads -> Places]
  /\ mIsRunning \in {0, 1}
  /\ \A t \in Threads : t > starts => loop[t] = "none"
  /\ user = "start" => starts \in Threads /\ loop[starts] = "none"
  /\ Cardinality(Loops) + Starting <= 1 + hurried
  /\ mIsRunning = 0 /\ user # "start" /\ (\A t \in Threads : loop[t] # "created")
       => Cardinality(Loops) <= hurried

(* Unless a start was hurried, a thread that makes the rounds of its loop does *)
(* so on current_base, or the process has crashed in signal_set: only the     *)
(* thread that has left its loop resets current_base.                        *)
BaseInv ==
  /\ currentBase \in BOOLEAN
  /\ currentBase => mEventBase = "live"
  /\ hurried = 0 =>
       /\ \A t \in Threads : loop[t] \in {"wait", "handle"} => currentBase
       /\ \A t \in Threads : loop[t] = "check" => currentBase \/ crashed

-----------------------------------------------------------------------------
(* Counting loops *)

(* There are finitely many loops.                                            *)
LEMMA LoopsAreFinite == IsFiniteSet(Loops) /\ Cardinality(Loops) \in Nat
<1>1. IsFiniteSet(Threads)
  BY FS_Interval, StationAssumption DEF Threads
<1>2. Loops \in SUBSET Threads
  BY DEF Loops
<1>3. IsFiniteSet(Loops)
  BY <1>1, <1>2, FS_Subset
<1> QED
  BY <1>3, FS_CardinalityType

(* Unless a start was hurried, there is one loop.                            *)
LEMMA OneLoop ==
  ASSUME LoopInv, hurried = 0, NEW t \in Threads, NEW u \in Threads, Active(t), Active(u)
  PROVE  t = u
<1>1. t \in Loops /\ u \in Loops
  BY DEF Loops
<1>2. Cardinality(Loops) <= 1
  BY LoopsAreFinite DEF LoopInv, Starting
<1>3. IsFiniteSet(Loops \ {t}) /\ Cardinality(Loops \ {t}) = Cardinality(Loops) - 1
  BY <1>1, LoopsAreFinite, FS_RemoveElement
<1>4. Cardinality(Loops \ {t}) = 0
  BY <1>2, <1>3, LoopsAreFinite, FS_CardinalityType
<1>5. Loops \ {t} = {}
  BY <1>3, <1>4, FS_EmptySet
<1> QED
  BY <1>1, <1>5

(* The user's steps keep the count of the loops.                             *)
LEMMA UserKeepsLoop ==
  ASSUME LoopInv, User PROVE LoopInv'
<1> USE StationAssumption
<1>0. Cardinality(Loops) \in Nat /\ hurried \in Nat
  BY LoopsAreFinite DEF LoopInv
<1>1. CASE StartNetWork
  <2>1. /\ user = "idle" /\ user' = "start" /\ mIsRunning = 0 /\ mIsRunning' = 0
        /\ starts < MaxStarts /\ starts' = starts + 1 /\ loop' = loop
        /\ hurried' = IF \E t \in Threads : loop[t] = "created" THEN hurried + 1 ELSE hurried
    BY <1>1 DEF StartNetWork, stationVars
  <2>2. starts' \in 0..MaxStarts /\ starts' \in Threads /\ starts' > starts /\ hurried' \in Nat
    BY <2>1, <1>0 DEF LoopInv, Threads
  <2>3. loop'[starts'] = "none" /\ \A t \in Threads : t > starts' => loop'[t] = "none"
    BY <2>1, <2>2 DEF LoopInv, Threads
  <2>4. Loops' = Loops /\ Starting' = 1
    BY <2>1 DEF Loops, Active, Starting
  <2>5. Cardinality(Loops) + 1 <= 1 + hurried'
    <3>1. CASE \E t \in Threads : loop[t] = "created"
      BY <1>0, <2>1, <3>1 DEF LoopInv, Starting
    <3>2. CASE ~ \E t \in Threads : loop[t] = "created"
      BY <1>0, <2>1, <3>2 DEF LoopInv
    <3> QED
      BY <3>1, <3>2
  <2> QED
    BY <2>1, <2>2, <2>3, <2>4, <2>5 DEF LoopInv
<1>2. CASE StartNetWorkRuns
  <2>1. /\ user = "start" /\ user' = "idle" /\ starts' = starts /\ hurried' = hurried
        /\ \/ loop' = [loop EXCEPT ![starts] = "created"] /\ mIsRunning' = mIsRunning
           \/ mIsRunning' = 0 /\ loop' = loop
    BY <1>2 DEF StartNetWorkRuns
  <2>2. Starting = 1 /\ Starting' = 0 /\ Cardinality(Loops) + 1 <= 1 + hurried
    BY <2>1 DEF Starting, LoopInv
  <2>3. starts \in Threads /\ loop[starts] = "none"
    BY <2>1 DEF LoopInv
  <2>4. CASE mIsRunning' = 0 /\ loop' = loop
    <3>1. Loops' = Loops
      BY <2>4 DEF Loops, Active
    <3> QED
      BY <1>0, <2>1, <2>2, <2>4, <3>1 DEF LoopInv
  <2>5. CASE loop' = [loop EXCEPT ![starts] = "created"] /\ mIsRunning' = mIsRunning
    <3>1. \A t \in Threads : loop'[t] = IF t = starts THEN "created" ELSE loop[t]
      BY <2>5 DEF LoopInv
    <3>2. Loops' = Loops \cup {starts} /\ starts \notin Loops
      BY <2>3, <3>1 DEF Loops, Active
    <3>3. Cardinality(Loops') = Cardinality(Loops) + 1
      BY <3>2, LoopsAreFinite, FS_AddElement
    <3>4. loop' \in [Threads -> Places]
      BY <2>5 DEF LoopInv, Places
    <3>5. \A t \in Threads : t > starts => loop'[t] = "none"
      BY <3>1, <2>3 DEF LoopInv, Threads
    <3> QED
      BY <1>0, <2>1, <2>2, <2>3, <2>5, <3>1, <3>3, <3>4, <3>5 DEF LoopInv
  <2> QED
    BY <2>1, <2>4, <2>5
<1>3. CASE StopNetWork \/ StopNetWorkExit \/ StartServer \/ StopServer
  <2>1. UNCHANGED <<mIsRunning, loop, starts, hurried>> /\ (user' = "start" <=> user = "start")
    BY <1>3 DEF StopNetWork, StopNetWorkExit, StartServer, StopServer, Running
  <2>2. Loops' = Loops /\ Starting' = Starting
    BY <2>1 DEF Loops, Active, Starting
  <2> QED
    BY <2>1, <2>2 DEF LoopInv
<1> QED
  BY <1>1, <1>2, <1>3 DEF User

(* A step of a loop thread that stays between its creation and its end.       *)
LEMMA StaysInLoop ==
  ASSUME LoopInv, NEW t \in Threads, NEW p \in Places \ {"none", "created", "gone"},
         Active(t), Go(t, p), UNCHANGED <<user, starts, hurried>>,
         mIsRunning' = 1 \/ (mIsRunning' = mIsRunning /\ loop[t] # "created")
  PROVE  LoopInv'
<1>1. \A u \in Threads : loop'[u] = IF u = t THEN p ELSE loop[u]
  BY DEF Go, LoopInv
<1>2. loop' \in [Threads -> Places]
  BY DEF Go, LoopInv
<1>3. Loops' = Loops /\ Starting' = Starting
  BY <1>1 DEF Loops, Active, Starting
<1>4. ~(user = "start" /\ t = starts) /\ \A u \in Threads : u > starts => u # t
  BY DEF LoopInv, Active
<1>5. mIsRunning' = 0 /\ (\A u \in Threads : loop'[u] # "created")
        => mIsRunning = 0 /\ \A u \in Threads : loop[u] # "created"
  BY <1>1
<1> QED
  BY <1>1, <1>2, <1>3, <1>4, <1>5 DEF LoopInv

(* The steps of a loop's thread keep the count of the loops.                 *)
LEMMA RunKeepsLoop ==
  ASSUME LoopInv, NEW t \in Threads, Run(t) \/ Activity(t) PROVE LoopInv'
<1>0. UNCHANGED <<user, starts, hurried>>
  BY DEF Run, Enter, AddSignals, Check, LoopExitTimer, Activity, SigHandler, SigHandlerExit,
     Destroy, DelSignals, Leave, OnlyLoop, Others
<1>1. CASE Enter(t)
  <2>1. loop[t] = "created" /\ mIsRunning' = 1 /\ Go(t, "start")
    BY <1>1 DEF Enter
  <2> QED
    BY <1>0, <2>1, StaysInLoop DEF Active, Places
<1>2. CASE Leave(t)
  <2>1. loop[t] = "end" /\ mIsRunning' = 0 /\ loop' = [loop EXCEPT ![t] = "gone"]
    BY <1>2 DEF Leave, Go
  <2>2. \A u \in Threads : loop'[u] = IF u = t THEN "gone" ELSE loop[u]
    BY <2>1 DEF LoopInv
  <2>3. loop' \in [Threads -> Places]
    BY <2>1 DEF LoopInv, Places
  <2>4. Loops' = Loops \ {t} /\ t \in Loops /\ Starting' = Starting /\ Starting \in {0, 1}
    BY <1>0, <2>1, <2>2 DEF Loops, Active, Starting
  <2>5. Cardinality(Loops') = Cardinality(Loops) - 1 /\ Cardinality(Loops) \in Nat
    BY <2>4, LoopsAreFinite, FS_RemoveElement
  <2>6. Cardinality(Loops') + Starting' <= 1 + hurried /\ Cardinality(Loops') <= hurried
    BY <2>4, <2>5 DEF LoopInv
  <2>7. ~(user = "start" /\ t = starts) /\ \A u \in Threads : u > starts => u # t
    BY <2>1 DEF LoopInv
  <2> QED
    BY <1>0, <2>1, <2>2, <2>3, <2>6, <2>7 DEF LoopInv
<1>3. ASSUME loop[t] \notin {"none", "created", "gone"}, mIsRunning' = mIsRunning,
             \E p \in {"check", "wait", "handle", "free", "signals", "end"} : Go(t, p)
      PROVE  LoopInv'
  BY <1>0, <1>3, StaysInLoop DEF Places, Active
<1>4. CASE AddSignals(t) \/ Check(t) \/ LoopExitTimer(t) \/ Activity(t)
  <2>1. mIsRunning' = mIsRunning /\ loop[t] \notin {"none", "created", "gone"}
    BY <1>4 DEF AddSignals, Check, LoopExitTimer, Activity
  <2>2. \E p \in {"check", "wait", "handle", "free", "signals", "end"} : Go(t, p)
    BY <1>4 DEF AddSignals, Check, LoopExitTimer, Activity
  <2> QED
    BY <1>3, <2>1, <2>2
<1>5. CASE SigHandler(t) \/ SigHandlerExit(t) \/ Destroy(t) \/ DelSignals(t)
  <2>1. mIsRunning' = mIsRunning /\ loop[t] \notin {"none", "created", "gone"}
    BY <1>5 DEF SigHandler, SigHandlerExit, Destroy, DelSignals
  <2>2. \E p \in {"check", "wait", "handle", "free", "signals", "end"} : Go(t, p)
    BY <1>5 DEF SigHandler, SigHandlerExit, Destroy, DelSignals
  <2> QED
    BY <1>3, <2>1, <2>2
<1> QED
  BY <1>1, <1>2, <1>4, <1>5 DEF Run

(* The count of the loops holds at every step.                               *)
LEMMA LoopsCounted == Spec => []LoopInv
<1>1. Init => LoopInv
  <2> SUFFICES ASSUME Init PROVE LoopInv
    OBVIOUS
  <2>1. Loops = {} /\ Starting = 0
    BY DEF Init, Loops, Active, Starting
  <2>2. Cardinality(Loops) = 0
    BY <2>1, FS_EmptySet
  <2> QED
    BY <2>1, <2>2, StationAssumption DEF Init, LoopInv, Places, Threads
<1>2. LoopInv /\ [Next]_vars => LoopInv'
  <2> SUFFICES ASSUME LoopInv, [Next]_vars PROVE LoopInv'
    OBVIOUS
  <2>1. ASSUME UNCHANGED <<mIsRunning, user, loop, starts, hurried>> PROVE LoopInv'
    <3>1. Loops' = Loops /\ Starting' = Starting
      BY <2>1 DEF Loops, Active, Starting
    <3> QED
      BY <2>1, <3>1 DEF LoopInv
  <2>2. CASE UNCHANGED vars
    BY <2>1, <2>2 DEF vars, stationVars
  <2>3. CASE Signal
    BY <2>1, <2>3 DEF Signal, stationVars
  <2> QED
    BY <2>2, <2>3, UserKeepsLoop, RunKeepsLoop DEF Next
<1> QED
  BY <1>1, <1>2, PTL DEF Spec

(* Two loops at once are due to starts that asked isRunning() between the     *)
(* creation of a thread and its first line, one start for each loop too many, *)
(* whatever the user, the signals and pthread_create do.                     *)
THEOREM LoopsAreHurried == Spec => []ExtraLoopsAreHurried
<1>1. LoopInv => ExtraLoopsAreHurried
  <2> SUFFICES ASSUME LoopInv PROVE Cardinality(Loops) <= 1 + hurried
    BY DEF ExtraLoopsAreHurried, Loops
  <2> QED
    BY LoopsAreFinite DEF LoopInv, Starting
<1> QED
  BY <1>1, LoopsCounted, PTL

-----------------------------------------------------------------------------
(* The base *)

(* The calls that set an event crash the process when there is no base.      *)
LEMMA UserKeepsBase ==
  ASSUME BaseInv, LoopInv, ~crashed, User PROVE BaseInv'
<1>1. CASE StartNetWork
  <2>1. UNCHANGED <<mEventBase, currentBase, loop, crashed>> /\ hurried' \in {hurried, hurried + 1}
    BY <1>1 DEF StartNetWork, stationVars, NoUse
  <2>2. hurried' = 0 => hurried = 0
    BY <2>1 DEF LoopInv
  <2> QED
    BY <2>1, <2>2 DEF BaseInv
<1>2. CASE StartNetWorkRuns
  <2>1. \/ mEventBase' = "live" /\ currentBase' = TRUE
        \/ UNCHANGED <<mEventBase, currentBase>>
    BY <1>2 DEF StartNetWorkRuns, Base
  <2>2. /\ crashed' = crashed /\ hurried' = hurried
        /\ loop' = [loop EXCEPT ![starts] = "created"] \/ loop' = loop
    BY <1>2 DEF StartNetWorkRuns, NoUse
  <2>3. \A t \in Threads : loop'[t] \in {"created", loop[t]}
    BY <2>2 DEF LoopInv
  <2>4. ASSUME hurried = 0, NEW t \in Threads, loop'[t] \in {"wait", "handle", "check"}
        PROVE  currentBase
    BY <2>3, <2>4 DEF BaseInv
  <2>5. (currentBase => currentBase') /\ currentBase' \in BOOLEAN
    BY <2>1 DEF BaseInv
  <2>6. currentBase' => mEventBase' = "live"
    BY <2>1 DEF BaseInv
  <2> QED
    BY <2>2, <2>4, <2>5, <2>6 DEF BaseInv
<1>3. CASE StopNetWork \/ StopNetWorkExit \/ StartServer \/ StopServer
  <2>1. UNCHANGED <<mEventBase, currentBase, loop, hurried>>
    BY <1>3 DEF StopNetWork, StopNetWorkExit, StartServer, StopServer, Base
  <2> QED
    BY <2>1 DEF BaseInv
<1> QED
  BY <1>1, <1>2, <1>3 DEF User

(* The steps of a loop's thread keep its base alive while it uses it.        *)
LEMMA RunKeepsBase ==
  ASSUME BaseInv, LoopInv, ~crashed, NEW t \in Threads, Run(t) \/ Activity(t) PROVE BaseInv'
<1>0. hurried' = hurried
  BY DEF Run, Enter, AddSignals, Check, LoopExitTimer, Activity, SigHandler, SigHandlerExit,
     Destroy, DelSignals, Leave, OnlyLoop, Others
<1>1. ASSUME UNCHANGED <<mEventBase, currentBase>>, NEW p, Go(t, p),
             p \in {"wait", "handle"} => loop[t] \in {"check", "wait", "handle"},
             p = "check" => loop[t] \in {"check", "wait", "handle"} \/ crashed' = ~currentBase
      PROVE  BaseInv'
  <2>1. \A u \in Threads : loop'[u] = IF u = t THEN p ELSE loop[u]
    BY <1>1 DEF Go, LoopInv
  <2> QED
    BY <1>0, <1>1, <2>1 DEF BaseInv
<1>2. CASE Enter(t) \/ DelSignals(t) \/ Leave(t)
  <2>1. UNCHANGED <<mEventBase, currentBase>> /\ \E p \in {"start", "end", "gone"} : Go(t, p)
    BY <1>2 DEF Enter, DelSignals, Leave, OnlyLoop
  <2> QED
    BY <1>1, <2>1
<1>3. CASE AddSignals(t)
  BY <1>1, <1>3 DEF AddSignals, SetsEvent, OnlyLoop
<1>4. CASE Check(t) \/ LoopExitTimer(t) \/ Activity(t) \/ SigHandler(t) \/ SigHandlerExit(t)
  <2>1. /\ UNCHANGED <<mEventBase, currentBase>>
        /\ loop[t] \in {"check", "wait", "handle"}
        /\ \E p \in {"check", "wait", "handle", "free"} : Go(t, p)
    BY <1>4 DEF Check, LoopExitTimer, Activity, SigHandler, SigHandlerExit, OnlyLoop
  <2> QED
    BY <1>1, <2>1
<1>5. CASE Destroy(t)
  <2>1. /\ currentBase' = FALSE /\ loop[t] = "free"
        /\ loop' = [loop EXCEPT ![t] = "signals"]
    BY <1>5 DEF Destroy, Go
  <2>2. ASSUME hurried = 0, NEW u \in Threads PROVE loop'[u] \notin {"wait", "handle", "check"}
    <3>1. CASE u = t
      BY <2>1, <3>1 DEF LoopInv
    <3>2. CASE u # t
      <4>1. loop'[u] = loop[u] /\ ~Active(u)
        BY <2>1, <2>2, <3>2, OneLoop DEF LoopInv, Active
      <4> QED
        BY <4>1 DEF Active
    <3> QED
      BY <3>1, <3>2
  <2> QED
    BY <1>0, <2>1, <2>2 DEF BaseInv
<1> QED
  BY <1>2, <1>3, <1>4, <1>5 DEF Run

(* No base is freed under a loop that runs on it, and none runs without one,  *)
(* unless a start was hurried; the user need not wait for anything else.      *)
THEOREM BaseLives == Spec => []BaseOutlivesLoop
<1>1. Init => BaseInv
  BY DEF Init, BaseInv
<1>2. LoopInv /\ BaseInv /\ [Next]_vars => BaseInv'
  <2> SUFFICES ASSUME LoopInv, BaseInv, [Next]_vars PROVE BaseInv'
    OBVIOUS
  <2>1. CASE UNCHANGED vars
    BY <2>1 DEF vars, stationVars, BaseInv
  <2>2. CASE Signal
    BY <2>2 DEF Signal, NoUse, stationVars, BaseInv
  <2>3. CASE Next
    BY <2>2, <2>3, UserKeepsBase, RunKeepsBase DEF Next
  <2> QED
    BY <2>1, <2>3
<1>3. BaseInv => BaseOutlivesLoop
  BY DEF BaseInv, BaseOutlivesLoop
<1> QED
  BY <1>1, <1>2, <1>3, LoopsCounted, PTL DEF Spec
=============================================================================
