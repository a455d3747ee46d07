-------------------------- MODULE PlayerClientProofs --------------------------
(***************************************************************************)
(* What holds of the playback client for every number of users, indices and *)
(* requests: its types, that no entry of m_mapWait outlives its frame, and  *)
(* that a close is followed by one more reconnection at most.                *)
(***************************************************************************)
EXTENDS PlayerClient, TLAPS

-----------------------------------------------------------------------------
(* Types *)

(* SendCmd keeps the type of the connection.                                 *)
LEMMA SendType ==
  ASSUME TypeOK, NEW req, NEW ok \in BOOLEAN, SendCmd(req, ok)
  PROVE  net' \in [ conn : {"closed", "open", "eof"},
                    requests : Seq(Requests), failed : BOOLEAN ]
<1>1. req \in Requests => Append(net.requests, req) \in Seq(Requests)
  BY DEF TypeOK
<1> QED
  BY <1>1 DEF SendCmd, TypeOK

(* A user who goes to a place of the client stays well typed.                *)
LEMMA GoToType ==
  ASSUME TypeOK, NEW u \in Users, NEW pc \in UserPCs, GoTo(u, pc)
  PROVE  user' \in [Users -> [pc : UserPCs, index : Nat]]
BY DEF GoTo, TypeOK

(* The places of the client, by name.                                        *)
LEMMA Places ==
  {"out", "index", "lock", "insert", "send", "bare", "relock", "wait", "erase",
   "flag", "join"} \subseteq UserPCs
BY DEF UserPCs, InMap, Waiting

(* Every step of a user keeps the types.                                     *)
LEMMA UserType ==
  ASSUME TypeOK, NEW u \in Users, Call(u) \/ ExecCmd(u) \/ CloseClient(u)
  PROVE  TypeOK'
<1> USE PlayerClientAssumption
<1>1. CASE StartWork(u)
  BY <1>1 DEF StartWork, TypeOK, WorkPCs
<1>2. CASE Start(u)
  BY <1>2, SendType DEF Start, TypeOK
<1>3. ASSUME NEW pause \in BOOLEAN, SetPlayPause(u, pause) PROVE TypeOK'
  <2>1. PICK ok \in BOOLEAN :
          /\ SendCmd(IF pause THEN "pause" ELSE "resume", ok)
          /\ flags' = [send |-> ok, pause |-> IF ok THEN pause ELSE flags.pause]
    BY <1>3 DEF SetPlayPause
  <2>2. flags' \in [send : BOOLEAN, pause : BOOLEAN]
    BY <2>1 DEF TypeOK
  <2> QED
    BY <1>3, <2>1, <2>2, SendType DEF SetPlayPause, TypeOK
<1>4. CASE GetIndexCount(u)
  <2>1. nIndex' \in 0..MaxIndex
    <3>1. nIndex \in 0..MaxIndex
      BY DEF TypeOK
    <3>2. nIndex < MaxIndex /\ nIndex' = nIndex + 1
      BY <1>4 DEF GetIndexCount
    <3> QED
      BY <3>1, <3>2
  <2>2. user' \in [Users -> [pc : UserPCs, index : Nat]]
    BY <1>4, GoToType, Places DEF GetIndexCount
  <2> QED
    BY <1>4, <2>1, <2>2 DEF GetIndexCount, TypeOK
<1>5. CASE GetIndexReturn(u)
  <2>1. [pc |-> "lock", index |-> nIndex] \in [pc : UserPCs, index : Nat]
    BY Places DEF TypeOK
  <2>2. user' \in [Users -> [pc : UserPCs, index : Nat]]
    BY <1>5, <2>1 DEF GetIndexReturn, TypeOK
  <2> QED
    BY <1>5, <2>2 DEF GetIndexReturn, TypeOK
<1>6. CASE LockMap(u)
  <2>1. user' \in [Users -> [pc : UserPCs, index : Nat]]
    BY <1>6, GoToType, Places DEF LockMap
  <2> QED
    BY <1>6, <2>1 DEF LockMap, TypeOK
<1>7. CASE InsertWaiter(u)
  <2>1. user' \in [Users -> [pc : UserPCs, index : Nat]]
    BY <1>7, GoToType, Places DEF InsertWaiter
  <2>2. mapWait' \in [Indices -> Users \cup {NoUser}]
    BY <1>7 DEF InsertWaiter, TypeOK
  <2> QED
    BY <1>7, <2>1, <2>2 DEF InsertWaiter, TypeOK
<1>8. CASE SendSeek(u)
  <2>1. PICK ok \in BOOLEAN : SendCmd("seek", ok) /\ GoTo(u, IF ok THEN "relock" ELSE "bare")
    BY <1>8 DEF SendSeek
  <2>2. user' \in [Users -> [pc : UserPCs, index : Nat]]
    BY <2>1, GoToType, Places
  <2> QED
    BY <1>8, <2>1, <2>2, SendType DEF SendSeek, TypeOK
<1>9. CASE EraseBare(u)
  <2>1. user' \in [Users -> [pc : UserPCs, index : Nat]]
    BY <1>9, GoToType, Places DEF EraseBare
  <2>2. mapWait' \in [Indices -> Users \cup {NoUser}]
    BY <1>9 DEF EraseBare, TypeOK
  <2> QED
    BY <1>9, <2>1, <2>2 DEF EraseBare, TypeOK
<1>10. CASE EnterWait(u)
  <2>1. user' \in [Users -> [pc : UserPCs, index : Nat]]
    BY <1>10, GoToType, Places DEF EnterWait
  <2> QED
    BY <1>10, <2>1 DEF EnterWait, TypeOK
<1>11. CASE WaitTimesOut(u)
  <2>1. user' \in [Users -> [pc : UserPCs, index : Nat]]
    BY <1>11, GoToType, Places DEF WaitTimesOut
  <2> QED
    BY <1>11, <2>1 DEF WaitTimesOut, TypeOK
<1>12. CASE EraseWaiter(u)
  <2>1. user' \in [Users -> [pc : UserPCs, index : Nat]]
    BY <1>12, GoToType, Places DEF EraseWaiter
  <2>2. mapWait' \in [Indices -> Users \cup {NoUser}]
    BY <1>12 DEF EraseWaiter, TypeOK
  <2> QED
    BY <1>12, <2>1, <2>2 DEF EraseWaiter, TypeOK
<1>13. CASE CloseSignal(u)
  <2>1. user' \in [Users -> [pc : UserPCs, index : Nat]]
    BY <1>13, GoToType, Places DEF CloseSignal
  <2>2. event' \in [signal : BOOLEAN, closing : BOOLEAN, inLoop : BOOLEAN, late : 0..2]
    BY <1>13 DEF CloseSignal, TypeOK
  <2>3. work' \in WorkPCs
    BY <1>13 DEF CloseSignal, TypeOK, WorkPCs
  <2> QED
    BY <1>13, <2>1, <2>2, <2>3 DEF CloseSignal, TypeOK
<1>14. CASE CloseFlag(u)
  <2>1. user' \in [Users -> [pc : UserPCs, index : Nat]]
    BY <1>14, GoToType, Places DEF CloseFlag
  <2>2. event' \in [signal : BOOLEAN, closing : BOOLEAN, inLoop : BOOLEAN, late : 0..2]
    BY <1>14 DEF CloseFlag, TypeOK
  <2> QED
    BY <1>14, <2>1, <2>2 DEF CloseFlag, TypeOK
<1>15. CASE CloseJoin(u)
  <2>1. user' \in [Users -> [pc : UserPCs, index : Nat]]
    BY <1>15, GoToType, Places DEF CloseJoin
  <2>2. net' \in [ conn : {"closed", "open", "eof"},
                   requests : Seq(Requests), failed : BOOLEAN ]
    BY <1>15 DEF CloseJoin, TypeOK
  <2> QED
    BY <1>15, <2>1, <2>2 DEF CloseJoin, TypeOK
<1> QED
  BY <1>1, <1>2, <1>3, <1>4, <1>5, <1>6, <1>7, <1>8, <1>9, <1>10, <1>11, <1>12,
     <1>13, <1>14, <1>15 DEF Call, ExecCmd, CloseClient

(* Every step of Work and of the server keeps the types.                     *)
LEMMA WorkType ==
  ASSUME TypeOK, WorkStep \/ WorkLeavesLoop \/ Server
  PROVE  TypeOK'
<1> USE PlayerClientAssumption
<1>0. <<>> \in Seq(Requests)
  OBVIOUS
<1>1. CASE WorkLeavesLoop \/ WorkLosesPeer
  BY <1>1 DEF WorkLeavesLoop, WorkLosesPeer, WorkGoesTo, TypeOK, WorkPCs
<1>2. CASE WorkTests
  BY <1>2 DEF WorkTests, WorkGoesTo, TypeOK, WorkPCs
<1>3. CASE WorkSleeps
  BY <1>3 DEF WorkSleeps, WorkGoesTo, TypeOK, WorkPCs
<1>4. CASE WorkTimesOut
  BY <1>4 DEF WorkTimesOut, WorkGoesTo, TypeOK, WorkPCs
<1>5. CASE WorkQuits
  BY <1>5 DEF WorkQuits, WorkGoesTo, TypeOK, WorkPCs
<1>6. CASE WorkReconnects
  <2>1. event' \in [signal : BOOLEAN, closing : BOOLEAN, inLoop : BOOLEAN, late : 0..2]
    <3>1. CASE event' = event
      BY <3>1 DEF TypeOK
    <3>2. CASE event.late < 2 /\ event' = [event EXCEPT !.late = @ + 1]
      BY <3>2 DEF TypeOK
    <3>3. event = [event EXCEPT !.late = event.late]
      BY DEF TypeOK
    <3>4. event' = event \/ (event.late < 2 /\ event' = [event EXCEPT !.late = @ + 1])
      BY <1>6, <3>3 DEF WorkReconnects
    <3> QED
      BY <3>1, <3>2, <3>4
  <2>2. net' \in [ conn : {"closed", "open", "eof"},
                   requests : Seq(Requests), failed : BOOLEAN ]
    BY <1>0, <1>6 DEF WorkReconnects, TypeOK
  <2> QED
    BY <1>6, <2>1, <2>2 DEF WorkReconnects, WorkGoesTo, TypeOK, WorkPCs
<1>7. CASE ReconnectFails
  <2>1. PICK conn \in {"closed", "open"} :
          /\ net' = [net EXCEPT !.conn = conn]
          /\ server' = IF conn = "open" THEN NewSession ELSE server
    BY <1>7 DEF ReconnectFails
  <2>2. net' \in [ conn : {"closed", "open", "eof"},
                   requests : Seq(Requests), failed : BOOLEAN ]
    BY <2>1 DEF TypeOK
  <2>3. server' \in [sending : BOOLEAN, sections : 0..MaxSections]
    BY <2>1 DEF TypeOK, NewSession
  <2> QED
    BY <1>7, <2>2, <2>3 DEF ReconnectFails, TypeOK, WorkPCs
<1>8. CASE ReconnectSucceeds
  BY <1>8 DEF ReconnectSucceeds, WorkGoesTo, TypeOK, WorkPCs
<1>9. CASE ServerEndsSection
  <2>1. server \in [sending : BOOLEAN, sections : 0..MaxSections]
    BY DEF TypeOK
  <2>2. server' \in [sending : BOOLEAN, sections : 0..MaxSections]
    <3>1. server.sections + 1 \in 0..MaxSections
      BY <1>9, <2>1 DEF ServerEndsSection
    <3>2. server' = [server EXCEPT !.sending = FALSE, !.sections = server.sections + 1]
      BY <1>9 DEF ServerEndsSection
    <3> HIDE PlayerClientAssumption
    <3> QED
      BY <2>1, <3>1, <3>2
  <2> QED
    BY <1>9, <2>2 DEF ServerEndsSection, TypeOK
<1>10. CASE ServerResumes \/ ServerSeeks
  <2>1. Tail(net.requests) \in Seq(Requests)
    BY <1>10 DEF ServerResumes, ServerSeeks, TypeOK
  <2>2. net' = [net EXCEPT !.requests = Tail(@)]
    BY <1>10 DEF ServerResumes, ServerSeeks
  <2>3. net' \in [ conn : {"closed", "open", "eof"},
                   requests : Seq(Requests), failed : BOOLEAN ]
    BY <2>1, <2>2 DEF TypeOK
  <2>4. server' \in [sending : BOOLEAN, sections : 0..MaxSections]
    <3>1. server' \in {NewSession, [server EXCEPT !.sending = TRUE]}
      BY <1>10 DEF ServerResumes, ServerSeeks
    <3>2. server \in [sending : BOOLEAN, sections : 0..MaxSections]
      BY DEF TypeOK
    <3>3. NewSession \in [sending : BOOLEAN, sections : 0..MaxSections]
      BY DEF NewSession
    <3>4. [server EXCEPT !.sending = TRUE] \in [sending : BOOLEAN, sections : 0..MaxSections]
      BY <3>2
    <3> QED
      BY <3>1, <3>3, <3>4
  <2> QED
    BY <1>10, <2>3, <2>4 DEF ServerResumes, ServerSeeks, TypeOK
<1>11. CASE ServerCloses
  <2>1. net' \in [ conn : {"closed", "open", "eof"},
                   requests : Seq(Requests), failed : BOOLEAN ]
    BY <1>0, <1>11 DEF ServerCloses, TypeOK
  <2> QED
    BY <1>11, <2>1 DEF ServerCloses, TypeOK
<1> QED
  BY <1>1, <1>2, <1>3, <1>4, <1>5, <1>6, <1>7, <1>8, <1>9, <1>10, <1>11
     DEF WorkStep, Server

(* The types of the client's state.                                          *)
LEMMA TypeCorrect == Spec => []TypeOK
<1>1. Init => TypeOK
  BY PlayerClientAssumption DEF Init, TypeOK, NewSession, UserPCs, WorkPCs
<1>2. TypeOK /\ [Next]_vars => TypeOK'
  <2> SUFFICES ASSUME TypeOK, [Next]_vars PROVE TypeOK'
    OBVIOUS
  <2>1. CASE UNCHANGED vars
    BY <2>1 DEF vars, TypeOK
  <2> QED
    BY <2>1, UserType, WorkType DEF Next
<1> QED
  BY <1>1, <1>2, PTL DEF Spec

-----------------------------------------------------------------------------
(* Waiters *)

(* A step of a user keeps every entry of m_mapWait alive: whoever leaves the   *)
(* client erases what stands under its index.                                 *)
LEMMA UserKeepsWaiters ==
  ASSUME TypeOK, NoDanglingWaiter, NEW u \in Users, Call(u) \/ ExecCmd(u) \/ CloseClient(u)
  PROVE  NoDanglingWaiter'
<1> DEFINE Other == \A v \in Users \ {u} : user'[v] = user[v]
<1> USE PlayerClientAssumption
<1>0. ASSUME NEW i \in Indices PROVE mapWait[i] \in Users \cup {NoUser}
  BY DEF TypeOK
<1>1. CASE UNCHANGED <<user, mapWait>>
  BY <1>1 DEF NoDanglingWaiter
<1>2. ASSUME mapWait' = mapWait, Other, user[u].pc \notin Waiting PROVE NoDanglingWaiter'
  BY <1>0, <1>2 DEF NoDanglingWaiter
<1>3. ASSUME mapWait' = mapWait, Other, user'[u].index = user[u].index, user'[u].pc \in Waiting
      PROVE NoDanglingWaiter'
  BY <1>0, <1>3 DEF NoDanglingWaiter
<1>4. ASSUME mapWait' = [mapWait EXCEPT ![user[u].index] = NoUser], Other
      PROVE NoDanglingWaiter'
  <2> SUFFICES ASSUME NEW i \in Indices, mapWait'[i] # NoUser
               PROVE  user'[mapWait'[i]].pc \in Waiting /\ user'[mapWait'[i]].index = i
    BY DEF NoDanglingWaiter
  <2>1. i # user[u].index /\ mapWait'[i] = mapWait[i]
    BY <1>4 DEF TypeOK
  <2>2. mapWait[i] # u
    BY <2>1 DEF NoDanglingWaiter
  <2> QED
    BY <1>0, <1>4, <2>1, <2>2 DEF NoDanglingWaiter
<1>5. CASE InsertWaiter(u)
  <2>1. mapWait' = [mapWait EXCEPT ![user[u].index] = u] /\ Other
    BY <1>5 DEF InsertWaiter, GoTo, TypeOK
  <2>2. user'[u].pc \in Waiting /\ user'[u].index = user[u].index
    BY <1>5 DEF InsertWaiter, GoTo, TypeOK, Waiting
  <2>3. ASSUME NEW i \in Indices PROVE mapWait'[i] = IF i = user[u].index THEN u ELSE mapWait[i]
    BY <2>1 DEF TypeOK
  <2> QED
    BY <1>0, <2>1, <2>2, <2>3 DEF NoDanglingWaiter
<1>6. CASE StartWork(u) \/ Start(u) \/ \E pause \in BOOLEAN : SetPlayPause(u, pause)
  BY <1>1, <1>6 DEF StartWork, Start, SetPlayPause
<1>7. CASE GetIndexCount(u) \/ CloseSignal(u) \/ CloseFlag(u) \/ CloseJoin(u) \/ LockMap(u)
  <2>1. mapWait' = mapWait /\ \E pc \in UserPCs : GoTo(u, pc)
    BY <1>7, Places DEF GetIndexCount, CloseSignal, CloseFlag, CloseJoin, LockMap
  <2>2. user[u].pc \in {"out", "flag", "join", "lock"}
    BY <1>7 DEF GetIndexCount, CloseSignal, CloseFlag, CloseJoin, LockMap, Calls, At
  <2> QED
    BY <1>2, <2>1, <2>2 DEF GoTo, TypeOK, Waiting
<1>8. CASE GetIndexReturn(u)
  BY <1>2, <1>8 DEF GetIndexReturn, At, TypeOK, Waiting
<1>9. CASE SendSeek(u) \/ EnterWait(u) \/ WaitTimesOut(u)
  <2>1. mapWait' = mapWait /\ \E pc \in Waiting : GoTo(u, pc)
    BY <1>9 DEF SendSeek, EnterWait, WaitTimesOut, Waiting
  <2> QED
    BY <1>3, <2>1 DEF GoTo, TypeOK
<1>10. CASE EraseBare(u) \/ EraseWaiter(u)
  BY <1>4, <1>10 DEF EraseBare, EraseWaiter, GoTo, TypeOK
<1> QED
  BY <1>5, <1>6, <1>7, <1>8, <1>9, <1>10 DEF Call, ExecCmd, CloseClient

(* The mutex m_cs, as long as no send fails.  Work frees it, whoever holds it, *)
(* when it falls asleep; from then on two users may be inside m_mapWait, never *)
(* three, and never two once Work has taken the mutex again.                  *)
Inside(u) == user[u].pc \in {"insert", "erase"}

AtMostOneInside == \A u, v \in Users : Inside(u) /\ Inside(v) => u = v

AtMostTwoInside ==
  \A u, v, w \in Users :
    Inside(u) /\ Inside(v) /\ Inside(w) => u = v \/ u = w \/ v = w

Settled == work \in {"none", "loop", "test", "enter", "reconnect"}
Asleep  == work \in {"sleep", "woken", "timedout"}

MutexInv ==
  ~net.failed =>
    /\ \A u \in Users : user[u].pc # "bare"
    /\ Settled => AtMostOneInside /\ (cs = Free => \A u \in Users : ~Inside(u))
    /\ Asleep => AtMostTwoInside /\ (cs = Free => AtMostOneInside)

(* A step of a user outside of m_mapWait, or into it, or out of it.           *)
LEMMA UserKeepsMutex ==
  ASSUME TypeOK, MutexInv, NEW u \in Users, Call(u) \/ ExecCmd(u) \/ CloseClient(u)
  PROVE  MutexInv'
<1> DEFINE Other == \A v \in Users \ {u} : user'[v] = user[v]
<1> USE PlayerClientAssumption
<1>1. ASSUME Other, Inside(u)' <=> Inside(u), cs' = cs, user'[u].pc = "bare" => user[u].pc = "bare",
             net'.failed = net.failed,
             Settled' <=> Settled, Asleep' <=> Asleep
      PROVE  MutexInv'
  <2>1. ASSUME NEW v \in Users PROVE Inside(v)' <=> Inside(v)
    BY <1>1 DEF Inside
  <2>2. ASSUME NEW v \in Users PROVE user'[v].pc = "bare" => user[v].pc = "bare"
    BY <1>1
  <2> QED
    BY <1>1, <2>1, <2>2 DEF MutexInv, AtMostOneInside, AtMostTwoInside
<1>2. ASSUME Other, ~Inside(u), Inside(u)', user'[u].pc # "bare", cs = Free, cs' = u,
             work' = work, net' = net
      PROVE  MutexInv'
  <2>1. ASSUME NEW v \in Users PROVE v # u => (Inside(v)' <=> Inside(v))
    BY <1>2 DEF Inside
  <2>2. ASSUME NEW v \in Users PROVE user'[v].pc = "bare" => user[v].pc = "bare"
    BY <1>2
  <2>3. Settled' = Settled /\ Asleep' = Asleep
    BY <1>2 DEF Settled, Asleep
  <2> QED
    BY <1>2, <2>1, <2>2, <2>3 DEF MutexInv, AtMostOneInside, AtMostTwoInside
<1>3. ASSUME Other, Inside(u), ~Inside(u)', user'[u].pc # "bare", cs' = Free,
             work' = work, net' = net
      PROVE  MutexInv'
  <2>1. ASSUME NEW v \in Users PROVE v # u => (Inside(v)' <=> Inside(v))
    BY <1>3 DEF Inside
  <2>2. ASSUME NEW v \in Users PROVE user'[v].pc = "bare" => user[v].pc = "bare"
    BY <1>3
  <2>3. Settled' = Settled /\ Asleep' = Asleep
    BY <1>3 DEF Settled, Asleep
  <2> QED
    BY <1>3, <2>1, <2>2, <2>3 DEF MutexInv, AtMostOneInside, AtMostTwoInside
<1>4. ASSUME net'.failed PROVE MutexInv'
  BY <1>4 DEF MutexInv
<1>5. CASE StartWork(u)
  BY <1>1, <1>5 DEF StartWork, Settled, Asleep, Inside
<1>6. CASE Start(u) \/ \E pause \in BOOLEAN : SetPlayPause(u, pause)
  <2>1. UNCHANGED <<user, work, cs>> /\ \E req, ok : SendCmd(req, ok)
    BY <1>6 DEF Start, SetPlayPause
  <2>2. net'.failed \/ net'.failed = net.failed
    BY <2>1 DEF SendCmd, TypeOK
  <2> QED
    BY <1>1, <1>4, <2>1, <2>2 DEF Settled, Asleep, Inside
<1>7. CASE GetIndexCount(u) \/ GetIndexReturn(u) \/ EnterWait(u) \/ CloseFlag(u)
  <2>1. UNCHANGED <<work, cs, net>> /\ Other /\ ~Inside(u) /\ ~Inside(u)' /\ user'[u].pc # "bare"
    BY <1>7 DEF GetIndexCount, GetIndexReturn, EnterWait, CloseFlag, Calls, At, GoTo, TypeOK,
       Inside
  <2> QED
    BY <1>1, <2>1 DEF Settled, Asleep
<1>8. CASE CloseSignal(u)
  <2>1. UNCHANGED <<cs, net>> /\ Other /\ ~Inside(u) /\ ~Inside(u)' /\ user'[u].pc # "bare"
    BY <1>8 DEF CloseSignal, Calls, At, GoTo, TypeOK, Inside
  <2>2. (Settled' <=> Settled) /\ (Asleep' <=> Asleep)
    BY <1>8 DEF CloseSignal, Settled, Asleep
  <2> QED
    BY <1>1, <2>1, <2>2
<1>9. CASE CloseJoin(u)
  <2>1. UNCHANGED <<work, cs>> /\ Other /\ ~Inside(u) /\ ~Inside(u)' /\ user'[u].pc # "bare"
    BY <1>9 DEF CloseJoin, At, GoTo, TypeOK, Inside
  <2>2. net'.failed = net.failed
    BY <1>9 DEF CloseJoin, TypeOK
  <2> QED
    BY <1>1, <2>1, <2>2 DEF Settled, Asleep
<1>10. CASE SendSeek(u)
  <2>1. PICK ok \in BOOLEAN : SendCmd("seek", ok) /\ GoTo(u, IF ok THEN "relock" ELSE "bare")
    BY <1>10 DEF SendSeek
  <2>2. CASE ~ok
    BY <1>4, <2>1, <2>2 DEF SendCmd, TypeOK
  <2>3. CASE ok
    <3>1. UNCHANGED <<work, cs>> /\ Other /\ ~Inside(u) /\ ~Inside(u)' /\ user'[u].pc # "bare"
      BY <1>10, <2>1, <2>3 DEF SendSeek, At, GoTo, TypeOK, Inside
    <3>2. net'.failed = net.failed
      BY <2>1, <2>3 DEF SendCmd, TypeOK
    <3> QED
      BY <1>1, <3>1, <3>2 DEF Settled, Asleep
  <2> QED
    BY <2>2, <2>3
<1>11. CASE LockMap(u) \/ WaitTimesOut(u)
  <2>1. UNCHANGED <<work, net>> /\ Other /\ ~Inside(u) /\ Inside(u)' /\ user'[u].pc # "bare"
    BY <1>11 DEF LockMap, WaitTimesOut, At, GoTo, TypeOK, Inside
  <2> QED
    BY <1>2, <1>11, <2>1 DEF LockMap, WaitTimesOut
<1>12. CASE InsertWaiter(u) \/ EraseWaiter(u)
  <2>1. UNCHANGED <<work, net>> /\ Other /\ Inside(u) /\ ~Inside(u)' /\ user'[u].pc # "bare"
    BY <1>12 DEF InsertWaiter, EraseWaiter, At, GoTo, TypeOK, Inside
  <2> QED
    BY <1>3, <1>12, <2>1 DEF InsertWaiter, EraseWaiter
<1>13. CASE EraseBare(u)
  <2>1. net.failed /\ net' = net
    BY <1>13 DEF EraseBare, At, MutexInv
  <2> QED
    BY <1>4, <2>1
<1> QED
  BY <1>5, <1>6, <1>7, <1>8, <1>9, <1>10, <1>11, <1>12, <1>13 DEF Call, ExecCmd, CloseClient

(* A step of Work or of the server: WorkSleeps frees the mutex, WorkReconnects *)
(* takes it when it is free.                                                  *)
LEMMA WorkKeepsMutex ==
  ASSUME TypeOK, MutexInv, WorkStep \/ WorkLeavesLoop \/ Server
  PROVE  MutexInv'
<1> USE PlayerClientAssumption
<1>1. user' = user /\ net'.failed = net.failed
  <2> USE DEF WorkStep, WorkLosesPeer, WorkTests, WorkSleeps, WorkTimesOut, WorkQuits,
      WorkReconnects, ReconnectFails, ReconnectSucceeds, WorkLeavesLoop, Server,
      ServerEndsSection, ServerResumes, ServerSeeks, ServerCloses, WorkGoesTo
  <2>1. user' = user
    OBVIOUS
  <2>2. \/ net' = net
        \/ net' = [net EXCEPT !.requests = Tail(net.requests)]
        \/ \E c \in {"open", "closed", "eof"} : net' = [net EXCEPT !.conn = c]
        \/ \E c \in {"open", "closed", "eof"} : net' = [net EXCEPT !.conn = c, !.requests = <<>>]
    OBVIOUS
  <2> HIDE DEF WorkStep, WorkLosesPeer, WorkTests, WorkSleeps, WorkTimesOut, WorkQuits,
      WorkReconnects, ReconnectFails, ReconnectSucceeds, WorkLeavesLoop, Server,
      ServerEndsSection, ServerResumes, ServerSeeks, ServerCloses, WorkGoesTo
  <2>3. net'.failed = net.failed
    BY <2>2 DEF TypeOK
  <2> QED
    BY <2>1, <2>3
<1>2. /\ \A u \in Users : Inside(u)' <=> Inside(u)
      /\ AtMostOneInside' <=> AtMostOneInside
      /\ AtMostTwoInside' <=> AtMostTwoInside
  BY <1>1 DEF Inside, AtMostOneInside, AtMostTwoInside
<1>3. CASE WorkSleeps
  <2>1. Settled /\ ~Settled' /\ cs' = Free
    BY <1>3 DEF WorkSleeps, WorkGoesTo, Settled
  <2>2. AtMostOneInside => AtMostTwoInside
    BY DEF AtMostOneInside, AtMostTwoInside
  <2> QED
    BY <1>1, <1>2, <2>1, <2>2 DEF MutexInv
<1>4. CASE WorkReconnects
  <2>1. Asleep /\ cs = Free /\ cs' # Free /\ ~Asleep'
    BY <1>4 DEF WorkReconnects, WorkGoesTo, Asleep
  <2> QED
    BY <1>1, <1>2, <2>1 DEF MutexInv
<1>5. CASE WorkQuits
  <2>1. ~Settled' /\ ~Asleep'
    BY <1>5 DEF WorkQuits, WorkGoesTo, Settled, Asleep
  <2> QED
    BY <1>1, <1>2, <2>1 DEF MutexInv
<1>6. CASE WorkLosesPeer \/ WorkTests \/ WorkTimesOut \/ ReconnectFails \/ ReconnectSucceeds
           \/ WorkLeavesLoop \/ Server
  <2>1. cs' = cs /\ (Settled' => Settled) /\ (Asleep' => Asleep)
    BY <1>6 DEF WorkLosesPeer, WorkTests, WorkTimesOut, ReconnectFails, ReconnectSucceeds,
       WorkLeavesLoop, Server, ServerEndsSection, ServerResumes, ServerSeeks, ServerCloses,
       WorkGoesTo, Settled, Asleep
  <2> QED
    BY <1>1, <1>2, <2>1 DEF MutexInv
<1> QED
  BY <1>3, <1>4, <1>5, <1>6 DEF WorkStep

(* Whoever looks at m_mapWait finds only waiters that are alive, and as long   *)
(* as Work has not slept on m_cs and no send has failed (EraseBare does not    *)
(* lock), one user at a time changes it.                                      *)
THEOREM WaitersStaySafe == Spec => []WaitersAreSafe
<1>1. Init => NoDanglingWaiter /\ MutexInv
  BY PlayerClientAssumption
     DEF Init, NoDanglingWaiter, MutexInv, Inside, AtMostOneInside, AtMostTwoInside
<1>2. TypeOK /\ NoDanglingWaiter /\ MutexInv /\ [Next]_vars => (NoDanglingWaiter /\ MutexInv)'
  <2> SUFFICES ASSUME TypeOK, NoDanglingWaiter, MutexInv, [Next]_vars
               PROVE  (NoDanglingWaiter /\ MutexInv)'
    OBVIOUS
  <2>1. CASE UNCHANGED vars
    BY <2>1 DEF vars, NoDanglingWaiter, MutexInv, Inside, AtMostOneInside, AtMostTwoInside,
       Settled, Asleep
  <2>2. CASE WorkStep \/ WorkLeavesLoop \/ Server
    <3>1. user' = user /\ mapWait' = mapWait
      BY <2>2 DEF WorkStep, WorkLosesPeer, WorkTests, WorkSleeps, WorkTimesOut, WorkQuits,
         WorkReconnects, ReconnectFails, ReconnectSucceeds, WorkLeavesLoop, Server,
         ServerEndsSection, ServerResumes, ServerSeeks, ServerCloses, WorkGoesTo
    <3> QED
      BY <2>2, <3>1, WorkKeepsMutex DEF NoDanglingWaiter
  <2>3. ASSUME NEW u \in Users, Call(u) \/ ExecCmd(u) \/ CloseClient(u)
        PROVE  (NoDanglingWaiter /\ MutexInv)'
    BY <2>3, UserKeepsWaiters, UserKeepsMutex
  <2> QED
    BY <2>1, <2>2, <2>3 DEF Next
<1>3. TypeOK /\ NoDanglingWaiter /\ MutexInv => WaitersAreSafe
  BY DEF WaitersAreSafe, OneInMap, MutexInv, Settled, AtMostOneInside, Inside, InMap
<1> QED
  BY <1>1, <1>2, <1>3, TypeCorrect, PTL DEF Spec

-----------------------------------------------------------------------------
(* CloseClient *)

(* m_bSignal is set by one user, when all others are out of the client; what   *)
(* Work does next depends on where it was then: in its receive loop it ends    *)
(* without a reconnection, elsewhere after one at most.                       *)
CloseInv ==
  /\ \A u \in Users : user[u].pc = "flag" => event.closing /\ ~event.signal
  /\ \A u, v \in Users : user[u].pc = "flag" /\ user[v].pc = "flag" => u = v
  /\ \A u \in Users : user[u].pc = "join" => event.signal
  /\ event.signal => event.closing
  /\ ~event.signal => event.late = 0 /\ ~event.inLoop
  /\ event.inLoop => event.late = 0 /\ work \in {"loop", "test", "end"}
  /\ event.late # 0 => event.late = 1 /\ work \in {"reconnect", "test", "end", "crashed"}

(* The steps of the user thread keep what is known of a close.               *)
LEMMA UserKeepsClose ==
  ASSUME TypeOK, CloseInv, NEW u \in Users, Call(u) \/ ExecCmd(u) \/ CloseClient(u)
  PROVE  CloseInv'
<1> DEFINE Other == \A v \in Users \ {u} : user'[v] = user[v]
<1>1. ASSUME Other, user'[u].pc \notin {"flag", "join"} \/ user'[u].pc = user[u].pc,
             UNCHANGED <<work, event>>
      PROVE  CloseInv'
  <2>1. ASSUME NEW v \in Users, user'[v].pc \in {"flag", "join"} PROVE user'[v].pc = user[v].pc
    BY <1>1, <2>1
  <2> QED
    BY <1>1, <2>1 DEF CloseInv
<1>2. CASE StartWork(u)
  BY <1>2 DEF StartWork, Calls, CloseInv, TypeOK
<1>3. CASE Start(u) \/ \E pause \in BOOLEAN : SetPlayPause(u, pause)
  BY <1>1, <1>3 DEF Start, SetPlayPause
<1>4. CASE GetIndexCount(u) \/ GetIndexReturn(u) \/ LockMap(u) \/ InsertWaiter(u) \/ SendSeek(u)
           \/ EraseBare(u) \/ EnterWait(u) \/ WaitTimesOut(u) \/ EraseWaiter(u) \/ CloseJoin(u)
  <2>1. UNCHANGED <<work, event>> /\ Other /\ user'[u].pc \notin {"flag", "join"}
    BY <1>4 DEF GetIndexCount, GetIndexReturn, LockMap, InsertWaiter, SendSeek, EraseBare,
       EnterWait, WaitTimesOut, EraseWaiter, CloseJoin, GoTo, TypeOK
  <2> QED
    BY <1>1, <2>1
<1>5. CASE CloseSignal(u)
  <2>1. /\ \A v \in Users : user'[v].pc = IF v = u THEN "flag" ELSE "out"
        /\ event' = [event EXCEPT !.closing = TRUE]
        /\ ~event.closing
        /\ work' = IF work = "sleep" THEN "woken" ELSE work
    BY <1>5 DEF CloseSignal, Calls, GoTo, TypeOK
  <2>2. /\ event'.closing /\ event'.signal = event.signal
        /\ event'.late = event.late /\ event'.inLoop = event.inLoop
    BY <2>1 DEF TypeOK
  <2> QED
    BY <2>1, <2>2 DEF CloseInv
<1>6. CASE CloseFlag(u)
  <2>1. /\ Other /\ user'[u].pc = "join" /\ user[u].pc = "flag" /\ work' = work
        /\ event' = [event EXCEPT !.signal = TRUE, !.inLoop = work = "loop"]
    BY <1>6 DEF CloseFlag, At, GoTo, TypeOK
  <2>2. /\ event'.closing = event.closing /\ event'.signal
        /\ event'.late = event.late /\ (event'.inLoop <=> work = "loop")
    BY <2>1 DEF TypeOK
  <2>3. event.closing /\ ~event.signal /\ event.late = 0
    BY <2>1 DEF CloseInv
  <2>4. ASSUME NEW v \in Users PROVE user'[v].pc # "flag"
    BY <2>1 DEF CloseInv
  <2> QED
    BY <2>1, <2>2, <2>3, <2>4 DEF CloseInv
<1> QED
  BY <1>2, <1>3, <1>4, <1>5, <1>6 DEF Call, ExecCmd, CloseClient

(* The steps of the work thread keep what is known of a close.               *)
LEMMA WorkKeepsClose ==
  ASSUME TypeOK, CloseInv, WorkStep \/ WorkLeavesLoop \/ Server
  PROVE  CloseInv'
<1>1. CASE WorkReconnects
  <2>1. user' = user /\ work = "timedout" /\ work' = "reconnect"
    BY <1>1 DEF WorkReconnects, WorkGoesTo
  <2>2. event.late = 0 /\ ~event.inLoop
    BY <2>1 DEF CloseInv
  <2>3. event' = [event EXCEPT !.late = IF event.closing /\ @ < 2 /\
                     (\E u \in Users : user[u].pc = "join") THEN @ + 1 ELSE @]
    BY <1>1 DEF WorkReconnects
  <2>4. /\ event'.closing = event.closing /\ event'.signal = event.signal
        /\ event'.inLoop = event.inLoop
        /\ event'.late \in {0, 1}
        /\ event'.late = 1 => \E u \in Users : user[u].pc = "join"
    BY <2>2, <2>3 DEF TypeOK
  <2> QED
    BY <2>1, <2>2, <2>4 DEF CloseInv
<1>2. CASE WorkTests
  BY <1>2 DEF WorkTests, WorkGoesTo, CloseInv
<1>3. CASE WorkLosesPeer \/ WorkLeavesLoop \/ ReconnectFails \/ ReconnectSucceeds
  BY <1>3 DEF WorkLosesPeer, WorkLeavesLoop, ReconnectFails, ReconnectSucceeds, WorkGoesTo,
     CloseInv
<1>4. CASE WorkSleeps \/ WorkTimesOut \/ WorkQuits
  BY <1>4 DEF WorkSleeps, WorkTimesOut, WorkQuits, WorkGoesTo, CloseInv
<1>5. CASE Server
  BY <1>5 DEF Server, ServerEndsSection, ServerResumes, ServerSeeks, ServerCloses, CloseInv
<1> QED
  BY <1>1, <1>2, <1>3, <1>4, <1>5 DEF WorkStep

(* However m_evtQuit.SetEvent and Wait interleave, Work reconnects once at most *)
(* after m_bSignal is set, and not at all if it was in its receive loop then.  *)
THEOREM CloseStops == Spec => []CloseStopsReconnects
<1>1. Init => CloseInv
  BY DEF Init, CloseInv
<1>2. TypeOK /\ CloseInv /\ [Next]_vars => CloseInv'
  <2>1. CASE UNCHANGED vars
    BY <2>1 DEF vars, CloseInv
  <2> QED
    BY <2>1, UserKeepsClose, WorkKeepsClose DEF Next
<1>3. CloseInv => CloseStopsReconnects
  BY DEF CloseInv, CloseStopsReconnects
<1> QED
  BY <1>1, <1>2, <1>3, TypeCorrect, PTL DEF Spec

-----------------------------------------------------------------------------
(* SetPlayPause *)

Resumes(i) == i \in 1..Len(net.requests) /\ net.requests[i] = "resume"
Queued == \E i \in Nat : Resumes(i)
Resumed == flags.send /\ ~flags.pause
Sections == server.sections + IF server.sending THEN 1 ELSE 0

\* m_bSend stays set after the first pause, so that a resume goes out once.
ResumeInv ==
  ~net.failed =>
    /\ Queued => Resumed
    /\ \A i, j \in Nat : Resumes(i) /\ Resumes(j) => i = j
    /\ Sections <= IF Resumed /\ ~Queued THEN 2 ELSE 1

(* The sections counted for the server are a natural number.                 *)
LEMMA SectionsType == ASSUME TypeOK PROVE Sections \in Nat /\ server.sections <= Sections
<1>1. server.sections \in Nat
  BY PlayerClientAssumption DEF TypeOK
<1> QED
  BY <1>1 DEF Sections

(* A request other than a resume leaves the count of resumes alone.          *)
LEMMA SendKeepsResumes ==
  ASSUME TypeOK, ResumeInv, NEW req, NEW ok \in BOOLEAN, SendCmd(req, ok), req # "resume",
         UNCHANGED <<flags, server>>
  PROVE  ResumeInv'
<1>1. CASE ~ok
  BY <1>1 DEF SendCmd, TypeOK, ResumeInv
<1>2. CASE net' = net
  BY <1>2 DEF ResumeInv, Queued, Resumes, Resumed, Sections
<1>3. CASE ok /\ req \in Requests /\ net' = [net EXCEPT !.requests = Append(@, req)]
  <2>1. net'.requests = Append(net.requests, req) /\ net'.failed = net.failed
    BY <1>3 DEF TypeOK
  <2>2. ASSUME NEW i \in Nat PROVE Resumes(i)' <=> Resumes(i)
    BY <2>1 DEF Resumes, TypeOK
  <2> QED
    BY <2>1, <2>2 DEF ResumeInv, Queued, Resumed, Sections
<1> QED
  BY <1>1, <1>2, <1>3 DEF SendCmd

(* SetPause keeps at most one resume under way.                              *)
LEMMA PauseKeepsResumes ==
  ASSUME TypeOK, ResumeInv, NEW u \in Users, NEW pause \in BOOLEAN, SetPlayPause(u, pause)
  PROVE  ResumeInv'
<1>1. PICK ok \in BOOLEAN :
        /\ SendCmd(IF pause THEN "pause" ELSE "resume", ok)
        /\ flags' = [send |-> ok, pause |-> IF ok THEN pause ELSE flags.pause]
  BY DEF SetPlayPause
<1>2. flags.pause # pause /\ (pause => ~flags.send) /\ server' = server
  BY DEF SetPlayPause
<1>3. ~Resumed
  BY <1>2 DEF Resumed, TypeOK
<1>4. CASE ~ok
  BY <1>1, <1>4 DEF SendCmd, TypeOK, ResumeInv
<1>5. CASE ok /\ pause
  <2>1. net' = net /\ ~Resumed'
    BY <1>1, <1>5 DEF SendCmd, Requests, Resumed
  <2> QED
    BY <1>2, <1>3, <2>1 DEF ResumeInv, Queued, Resumes, Sections
<1>6. CASE ok /\ ~pause
  <2>1. Resumed'
    BY <1>1, <1>6 DEF Resumed
  <2>2. CASE net.failed
    BY <1>1, <1>6, <2>2 DEF SendCmd, TypeOK, ResumeInv
  <2>3. CASE ~net.failed
    <3>1. ~Queued /\ Sections' = Sections /\ Sections <= 1
      BY <1>2, <1>3, <2>3 DEF ResumeInv, Sections
    <3>2. CASE net' = net
      BY <2>1, <3>1, <3>2, SectionsType DEF ResumeInv, Queued, Resumes
    <3>3. CASE net' = [net EXCEPT !.requests = Append(@, "resume")]
      <4>1. net'.requests = Append(net.requests, "resume")
        BY <3>3 DEF TypeOK
      <4>2. ASSUME NEW i \in Nat, Resumes(i)' PROVE i = Len(net.requests) + 1
        BY <3>1, <4>1, <4>2 DEF Resumes, Queued, TypeOK
      <4> QED
        BY <2>1, <3>1, <4>2, SectionsType DEF ResumeInv
    <3> QED
      BY <1>1, <1>6, <3>2, <3>3 DEF SendCmd
  <2> QED
    BY <2>2, <2>3
<1> QED
  BY <1>4, <1>5, <1>6

(* The steps of the user thread keep at most one resume under way.           *)
LEMMA UserKeepsResumes ==
  ASSUME TypeOK, ResumeInv, NEW u \in Users, Call(u) \/ ExecCmd(u) \/ CloseClient(u)
  PROVE  ResumeInv'
<1>1. CASE UNCHANGED <<flags, server, net>>
  BY <1>1 DEF ResumeInv, Queued, Resumes, Resumed, Sections
<1>2. CASE Start(u)
  BY <1>2, SendKeepsResumes DEF Start
<1>3. CASE SendSeek(u)
  BY <1>3, SendKeepsResumes DEF SendSeek
<1>4. CASE CloseJoin(u)
  <2>1. net'.requests = net.requests /\ net'.failed = net.failed
    BY <1>4 DEF CloseJoin, TypeOK
  <2> QED
    BY <1>4, <2>1 DEF CloseJoin, ResumeInv, Queued, Resumes, Resumed, Sections
<1>5. CASE StartWork(u) \/ GetIndexCount(u) \/ GetIndexReturn(u) \/ LockMap(u) \/ InsertWaiter(u)
           \/ EraseBare(u) \/ EnterWait(u) \/ WaitTimesOut(u) \/ EraseWaiter(u)
           \/ CloseSignal(u) \/ CloseFlag(u)
  BY <1>1, <1>5 DEF StartWork, GetIndexCount, GetIndexReturn, LockMap, InsertWaiter, EraseBare,
     EnterWait, WaitTimesOut, EraseWaiter, CloseSignal, CloseFlag
<1> QED
  BY <1>2, <1>3, <1>4, <1>5, PauseKeepsResumes DEF Call, ExecCmd, CloseClient

(* The steps of the work thread keep at most one resume under way.           *)
LEMMA WorkKeepsResumes ==
  ASSUME TypeOK, ResumeInv, WorkStep \/ WorkLeavesLoop \/ Server
  PROVE  ResumeInv'
<1>0. /\ server.sections \in Nat /\ server.sending \in BOOLEAN
      /\ Sections \in Nat
  BY PlayerClientAssumption, SectionsType DEF TypeOK
<1>1. CASE UNCHANGED <<flags, server, net>>
  BY <1>1 DEF ResumeInv, Queued, Resumes, Resumed, Sections
<1>2. ASSUME flags' = flags, net'.failed = net.failed, \A i \in Nat : ~Resumes(i)',
             Sections' = 1 \/ Sections' = Sections
      PROVE  ResumeInv'
  <2>1. ~Queued'
    BY <1>2 DEF Queued
  <2>2. CASE Sections' = 1
    BY <1>2, <2>1, <2>2 DEF ResumeInv, Resumed
  <2>3. CASE Sections' = Sections
    BY <1>0, <1>2, <2>1, <2>3 DEF ResumeInv, Resumed, Queued
  <2> QED
    BY <1>2, <2>2, <2>3
<1>3. ASSUME flags' = flags, net'.failed = net.failed, net'.requests = net.requests,
             Sections' = 1 \/ Sections' = Sections
      PROVE  ResumeInv'
  <2>1. \A i \in Nat : Resumes(i)' <=> Resumes(i)
    BY <1>3 DEF Resumes
  <2>2. (Queued' <=> Queued) /\ (Resumed' <=> Resumed)
    BY <1>3, <2>1 DEF Queued, Resumed
  <2>3. CASE Sections' = 1
    BY <1>3, <2>1, <2>2, <2>3 DEF ResumeInv
  <2>4. CASE Sections' = Sections
    BY <1>3, <2>1, <2>2, <2>4 DEF ResumeInv
  <2> QED
    BY <1>3, <2>3, <2>4
<1>4. CASE WorkReconnects
  <2>1. /\ flags' = flags /\ server' = server
        /\ net'.failed = net.failed /\ net'.requests = <<>>
    BY <1>4 DEF WorkReconnects, WorkGoesTo, TypeOK
  <2> QED
    BY <1>2, <2>1 DEF Resumes, Sections
<1>5. CASE ReconnectFails
  <2>1. /\ flags' = flags /\ server' \in {NewSession, server}
        /\ net'.failed = net.failed /\ net'.requests = net.requests
    BY <1>5 DEF ReconnectFails, TypeOK
  <2> QED
    BY <1>3, <2>1 DEF Sections, NewSession
<1>6. CASE ServerCloses
  <2>1. /\ flags' = flags /\ server' = server
        /\ net'.failed = net.failed /\ net'.requests = <<>>
    BY <1>6 DEF ServerCloses, TypeOK
  <2> QED
    BY <1>2, <2>1 DEF Resumes, Sections
<1>7. CASE ServerEndsSection
  <2>1. /\ flags' = flags /\ net' = net /\ server.sending
        /\ server'.sections = server.sections + 1 /\ ~server'.sending
    BY <1>7 DEF ServerEndsSection, TypeOK
  <2>2. Sections' = Sections
    BY <1>0, <2>1 DEF Sections
  <2> QED
    BY <1>3, <2>1, <2>2
<1>8. ASSUME ServerResumes \/ ServerSeeks
      PROVE  /\ flags' = flags /\ net'.failed = net.failed
             /\ net.requests \in Seq(Requests) /\ net.requests # <<>>
             /\ net'.requests = Tail(net.requests)
             /\ \A i \in Nat : Resumes(i)' => Resumes(i + 1)
  <2>1. /\ flags' = flags /\ net'.failed = net.failed
        /\ net.requests \in Seq(Requests) /\ net.requests # <<>>
        /\ net'.requests = Tail(net.requests)
    BY <1>8 DEF ServerResumes, ServerSeeks, TypeOK
  <2> QED
    BY <2>1 DEF Resumes
<1>9. CASE ServerSeeks
  <2>1. Sections' = 1
    BY <1>9 DEF ServerSeeks, NewSession, Sections
  <2>2. Queued' => Queued
    BY <1>8, <1>9 DEF Queued
  <2>3. \A i, j \in Nat : (\A k, l \in Nat : Resumes(k) /\ Resumes(l) => k = l) =>
                           (Resumes(i)' /\ Resumes(j)' => i = j)
    <3> TAKE i, j \in Nat
    <3> HAVE \A k, l \in Nat : Resumes(k) /\ Resumes(l) => k = l
    <3>1. Resumes(i)' /\ Resumes(j)' => Resumes(i + 1) /\ Resumes(j + 1)
      BY <1>8, <1>9
    <3>2. i + 1 \in Nat /\ j + 1 \in Nat /\ (i + 1 = j + 1 => i = j)
      OBVIOUS
    <3> QED
      BY <3>1, <3>2
  <2> QED
    BY <1>8, <1>9, <2>1, <2>2, <2>3 DEF ResumeInv, Resumed
<1>10. CASE ServerResumes
  <2>1. Resumes(1)
    BY <1>8, <1>10 DEF ServerResumes, Resumes
  <2>2. CASE net.failed
    BY <1>8, <1>10, <2>2 DEF ResumeInv
  <2>3. CASE ~net.failed
    <3>1. Queued /\ Resumed /\ Sections <= 1 /\ \A i \in Nat : Resumes(i) => i = 1
      BY <2>1, <2>3 DEF ResumeInv, Queued
    <3>2. ~Queued'
      <4>1. ASSUME NEW i \in Nat, Resumes(i)' PROVE FALSE
        <5>1. Resumes(i + 1) /\ i \in 1..Len(net'.requests) /\ i + 1 \in Nat
          BY <1>8, <1>10, <4>1 DEF Resumes
        <5> QED
          BY <3>1, <5>1
      <4> QED
        BY <4>1 DEF Queued
    <3>3. Sections' <= 2
      <4>1. server' = [server EXCEPT !.sending = TRUE]
        BY <1>10 DEF ServerResumes
      <4>2. server'.sections = server.sections
        BY <4>1 DEF TypeOK
      <4>3. server.sections <= 1
        BY <1>0, <3>1, SectionsType
      <4> QED
        BY <1>0, <4>2, <4>3 DEF Sections
    <3> QED
      BY <1>8, <1>10, <3>1, <3>2, <3>3 DEF ResumeInv, Resumed, Queued
  <2> QED
    BY <2>2, <2>3
<1>11. CASE WorkLosesPeer \/ WorkTests \/ WorkSleeps \/ WorkTimesOut \/ WorkQuits
            \/ ReconnectSucceeds \/ WorkLeavesLoop
  BY <1>1, <1>11 DEF WorkLosesPeer, WorkTests, WorkSleeps, WorkTimesOut, WorkQuits,
     ReconnectSucceeds, WorkLeavesLoop, WorkGoesTo
<1> QED
  BY <1>4, <1>5, <1>6, <1>7, <1>9, <1>10, <1>11 DEF WorkStep, Server

(* SetPlayPause lets one resume out, and no player sees more than two sections *)
(* after a login or a seek.                                                   *)
THEOREM ResumesOnce == Spec => []OneResumeOnly
<1>1. Init => ResumeInv
  BY DEF Init, ResumeInv, Queued, Resumes, Sections, NewSession
<1>2. TypeOK /\ ResumeInv /\ [Next]_vars => ResumeInv'
  <2>1. CASE UNCHANGED vars
    BY <2>1 DEF vars, ResumeInv, Queued, Resumes, Resumed, Sections
  <2> QED
    BY <2>1, UserKeepsResumes, WorkKeepsResumes DEF Next
<1>3. TypeOK /\ ResumeInv => OneResumeOnly
  <2> SUFFICES ASSUME TypeOK, ResumeInv, ~net.failed PROVE server.sections <= 2
    BY DEF OneResumeOnly
  <2>1. Sections <= 2
    BY SectionsType DEF ResumeInv
  <2>2. server.sections \in Nat
    BY PlayerClientAssumption DEF TypeOK
  <2> QED
    BY <2>1, <2>2, SectionsType
<1> QED
  BY <1>1, <1>2, <1>3, TypeCorrect, PTL DEF Spec
=============================================================================
