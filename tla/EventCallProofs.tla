---------------------------- MODULE EventCallProofs ----------------------------
(***************************************************************************)
(* What holds of the event server for every number of sessions, descriptors *)
(* and messages: its types, that the flags of every event match the queues  *)
(* it is on, that nothing refers to an event of a deleted session; that     *)
(* epoll's table, the lists and the kernel agree, and the manager with the  *)
(* connections; and that no live session goes deaf.  First what every call  *)
(* of the event base preserves, whoever makes it.                           *)
(***************************************************************************)
EXTENDS EventCall, FiniteSetTheorems, TLAPS

-----------------------------------------------------------------------------
(* The event base: its type, and the invariant BaseInv, provided that         *)
(* event_set, a timed event_add and event_active are called on an event that *)
(* is not linked.                                                            *)

(* No event waits for both directions: the premise under which epoll_del     *)
(* keeps the entry of the other direction.                                   *)
OneWay == \A e \in Events : ~("READ" \in What[e] /\ "WRITE" \in What[e])

(* The table names inserted events only, under the descriptor they wait on.  *)
TableInserted(b) ==
  \A f \in Fds :
    /\ b.evread[f] # NoEvent =>
         /\ "INSERTED" \in b.flags[b.evread[f]]
         /\ b.fd[b.evread[f]] = f
         /\ "READ" \in What[b.evread[f]]
    /\ b.evwrite[f] # NoEvent =>
         /\ "INSERTED" \in b.flags[b.evwrite[f]]
         /\ b.fd[b.evwrite[f]] = f
         /\ "WRITE" \in What[b.evwrite[f]]

(* An active event without EV_PERSIST is on no other queue.                  *)
ActiveAlone(b) ==
  \A e \in Events : "ACTIVE" \in b.flags[e] /\ "PERSIST" \notin What[e] => b.flags[e] = {"ACTIVE"}

BaseInv(b) == FlagsMatchQueues(b) /\ TableInserted(b) /\ ActiveAlone(b)

(* c is a good base that differs from b in the queues of e at most.          *)
Keeps(b, c, e) ==
  /\ c \in BaseType
  /\ BaseInv(c)
  /\ \A x \in Events \ {e} : c.flags[x] = b.flags[x]

-----------------------------------------------------------------------------
(* epoll.c *)

(* epoll_add on an event that has just been inserted.                        *)
LEMMA EpollAddKeeps ==
  ASSUME OneWay, NEW b \in BaseType, NEW e \in Events, BaseInv(b), "INSERTED" \in b.flags[e]
  PROVE  Keeps(b, epoll_add(b, e), e) /\ epoll_add(b, e).flags = b.flags
<1> DEFINE c == epoll_add(b, e)
<1> USE EventsAssumption
<1>1. /\ c.flags = b.flags /\ c.fd = b.fd /\ c.res = b.res /\ c.timetree = b.timetree
      /\ c.eventqueue = b.eventqueue /\ c.activequeue = b.activequeue
  BY DEF epoll_add, BaseType
<1>2. c \in BaseType
  <2>1. PICK k \in SUBSET Interests : k = Registered(b, b.fd[e]) \cup WantsOf(e)
    BY DEF Registered, WantsOf, Interests
  <2>2. PICK d1 : d1 = [b EXCEPT !.kernel[b.fd[e]] = k]
    OBVIOUS
  <2>3. PICK d2 : d2 = [d1 EXCEPT !.evread[b.fd[e]] = IF "READ" \in What[e] THEN e ELSE @]
    OBVIOUS
  <2>4. PICK d3 : d3 = [d2 EXCEPT !.evwrite[b.fd[e]] = IF "WRITE" \in What[e] THEN e ELSE @]
    OBVIOUS
  <2>5. d1 \in BaseType
    BY <2>2 DEF BaseType
  <2>6. d2 \in BaseType
    BY <2>3, <2>5 DEF BaseType
  <2>7. d3 \in BaseType
    BY <2>4, <2>6 DEF BaseType
  <2>8. c = b \/ c = d3
    BY <2>1, <2>2, <2>3, <2>4 DEF epoll_add, BaseType
  <2> QED
    BY <2>7, <2>8
<1>3. TableInserted(c)
  BY DEF epoll_add, BaseType, BaseInv, TableInserted
<1>4. FlagsMatchQueues(c) /\ ActiveAlone(c)
  BY <1>1 DEF BaseInv, FlagsMatchQueues, ActiveAlone
<1> QED
  BY <1>1, <1>2, <1>3, <1>4 DEF Keeps, BaseInv

(* epoll_del on an event whose flags are cleared, where the table may still  *)
(* name it: afterwards it does not.                                          *)
LEMMA EpollDelType ==
  ASSUME NEW b \in BaseType, NEW e \in Events
  PROVE  /\ epoll_del(b, e) \in BaseType
         /\ epoll_del(b, e).flags = b.flags /\ epoll_del(b, e).fd = b.fd
         /\ epoll_del(b, e).timetree = b.timetree
         /\ epoll_del(b, e).eventqueue = b.eventqueue
         /\ epoll_del(b, e).activequeue = b.activequeue
         /\ \A f \in Fds : /\ epoll_del(b, e).evread[f] \in {b.evread[f], NoEvent}
                           /\ epoll_del(b, e).evwrite[f] \in {b.evwrite[f], NoEvent}
<1>1. PICK keep \in SUBSET {"IN", "OUT"} :
        epoll_del(b, e) =
          LET f == b.fd[e]
          IN  [b EXCEPT !.evread[f]  = IF "IN" \in keep THEN @ ELSE NoEvent,
                        !.evwrite[f] = IF "OUT" \in keep THEN @ ELSE NoEvent,
                        !.kernel[f]  = IF @ = {} THEN @ ELSE keep]
  BY DEF epoll_del
<1>2. /\ epoll_del(b, e).flags = b.flags /\ epoll_del(b, e).fd = b.fd
      /\ epoll_del(b, e).timetree = b.timetree
      /\ epoll_del(b, e).eventqueue = b.eventqueue
      /\ epoll_del(b, e).activequeue = b.activequeue
  BY <1>1 DEF BaseType
<1>3. \A f \in Fds : /\ epoll_del(b, e).evread[f] \in {b.evread[f], NoEvent}
                     /\ epoll_del(b, e).evwrite[f] \in {b.evwrite[f], NoEvent}
  BY <1>1 DEF BaseType
<1>4. epoll_del(b, e) \in BaseType
  <2> DEFINE f  == b.fd[e]
             er == [b.evread EXCEPT ![f] = IF "IN" \in keep THEN @ ELSE NoEvent]
             ew == [b.evwrite EXCEPT ![f] = IF "OUT" \in keep THEN @ ELSE NoEvent]
             k  == [b.kernel EXCEPT ![f] = IF @ = {} THEN @ ELSE keep]
  <2>1. er \in [Fds -> Events \cup {NoEvent}] /\ ew \in [Fds -> Events \cup {NoEvent}]
    BY DEF BaseType
  <2>2. k \in [Fds -> SUBSET Interests]
    BY DEF BaseType, Interests
  <2>3. epoll_del(b, e) = [b EXCEPT !.evread = er, !.evwrite = ew, !.kernel = k]
    BY <1>1 DEF BaseType
  <2> HIDE DEF er, ew, k
  <2> QED
    BY <2>1, <2>2, <2>3 DEF BaseType
<1> QED
  BY <1>2, <1>3, <1>4

(* After epoll_del of a one-way event the table does not name it.            *)
LEMMA EpollDelForgets ==
  ASSUME OneWay, NEW b \in BaseType, NEW e \in Events, NEW f \in Fds, b.fd[e] = f
  PROVE  /\ "READ" \in What[e] => epoll_del(b, e).evread[f] = NoEvent
         /\ "WRITE" \in What[e] => epoll_del(b, e).evwrite[f] = NoEvent
BY DEF OneWay, epoll_del, BaseType, WantsOf

-----------------------------------------------------------------------------
(* event.c *)

(* event_set on an event that is on no queue keeps the base consistent.      *)
LEMMA EventSetKeeps ==
  ASSUME NEW b \in BaseType, NEW e \in Events, NEW f \in Fds \cup {NoFd},
         BaseInv(b), b.flags[e] = {}
  PROVE  Keeps(b, event_set(b, e, f), e) /\ event_set(b, e, f).flags[e] = {}
<1> DEFINE c == event_set(b, e, f)
<1>1. c \in BaseType /\ c.flags = b.flags
  BY DEF event_set, BaseType
<1>2. TableInserted(c)
  BY <1>1 DEF event_set, BaseType, BaseInv, TableInserted
<1>3. FlagsMatchQueues(c) /\ ActiveAlone(c)
  BY <1>1 DEF event_set, BaseType, BaseInv, FlagsMatchQueues, ActiveAlone
<1> QED
  BY <1>1, <1>2, <1>3 DEF Keeps, BaseInv

(* event_add keeps the base consistent: an event is inserted once.           *)
LEMMA EventAddKeeps ==
  ASSUME OneWay, NEW b \in BaseType, NEW e \in Events, NEW timed \in BOOLEAN,
         BaseInv(b), "ACTIVE" \notin b.flags[e]
  PROVE  Keeps(b, event_add(b, e, timed), e)
<1> DEFINE c == [b EXCEPT
                   !.flags[e]    = @ \cup (IF timed THEN {"TIMEOUT"} ELSE {}),
                   !.timetree    = IF timed THEN @ \cup {e} ELSE @]
           d == [c EXCEPT !.flags[e] = @ \cup {"INSERTED"}, !.eventqueue = @ \cup {e}]
<1>1. c \in BaseType /\ d \in BaseType
  <2>1. [b.flags EXCEPT ![e] = @ \cup (IF timed THEN {"TIMEOUT"} ELSE {})]
          \in [Events -> SUBSET Queues]
    BY DEF BaseType, Queues
  <2>2. c \in BaseType
    BY <2>1 DEF BaseType
  <2> HIDE DEF c
  <2>3. [c.flags EXCEPT ![e] = @ \cup {"INSERTED"}] \in [Events -> SUBSET Queues]
    BY <2>2 DEF BaseType, Queues
  <2>4. d \in BaseType
    BY <2>2, <2>3 DEF BaseType
  <2> QED
    BY <2>2, <2>4
<1>c. /\ c.fd = b.fd /\ c.evread = b.evread /\ c.evwrite = b.evwrite
      /\ c.eventqueue = b.eventqueue /\ c.activequeue = b.activequeue
      /\ c.timetree = IF timed THEN b.timetree \cup {e} ELSE b.timetree
      /\ c.flags = [b.flags EXCEPT ![e] = @ \cup (IF timed THEN {"TIMEOUT"} ELSE {})]
  BY DEF BaseType
<1>d. /\ d.fd = c.fd /\ d.evread = c.evread /\ d.evwrite = c.evwrite
      /\ d.timetree = c.timetree /\ d.activequeue = c.activequeue
      /\ d.eventqueue = c.eventqueue \cup {e}
      /\ d.flags = [c.flags EXCEPT ![e] = @ \cup {"INSERTED"}]
  <2> HIDE DEF c
  <2> QED
    BY <1>1 DEF BaseType
<1>2. BaseInv(c)
  <2> HIDE DEF c
  <2>1. FlagsMatchQueues(c)
    BY <1>c DEF BaseType, BaseInv, FlagsMatchQueues
  <2>2. TableInserted(c)
    BY <1>c, EventsAssumption DEF BaseType, BaseInv, TableInserted
  <2>3. ActiveAlone(c)
    BY <1>c DEF BaseType, BaseInv, ActiveAlone
  <2> QED
    BY <2>1, <2>2, <2>3 DEF BaseInv
<1>3. BaseInv(d)
  <2> HIDE DEF c, d
  <2>1. FlagsMatchQueues(d)
    BY <1>1, <1>2, <1>d DEF BaseType, BaseInv, FlagsMatchQueues
  <2>2. TableInserted(d)
    BY <1>1, <1>2, <1>d, EventsAssumption DEF BaseType, BaseInv, TableInserted
  <2>3. ActiveAlone(d)
    <3>1. c.flags[e] \subseteq b.flags[e] \cup {"TIMEOUT"} /\ "ACTIVE" \notin d.flags[e]
      BY <1>c, <1>d, <1>1 DEF BaseType
    <3> QED
      BY <1>1, <1>2, <1>d, <3>1 DEF BaseType, BaseInv, ActiveAlone
  <2> QED
    BY <2>1, <2>2, <2>3 DEF BaseInv
<1>4. event_add(b, e, timed) = c \/ event_add(b, e, timed) = epoll_add(d, e)
  <2>1. PICK resched :
          resched = (timed /\ "ACTIVE" \in b.flags[e] /\ "TIMEOUT" \in b.res[e])
    OBVIOUS
  <2>2. resched = FALSE
    BY <2>1
  <2>3. PICK a : a = [b EXCEPT
                        !.flags[e]    = (IF resched THEN @ \ {"ACTIVE"} ELSE @)
                                          \cup (IF timed THEN {"TIMEOUT"} ELSE {}),
                        !.timetree    = IF timed THEN @ \cup {e} ELSE @,
                        !.activequeue = IF resched THEN @ \ {e} ELSE @]
    OBVIOUS
  <2>4. a = c
    BY <2>2, <2>3 DEF BaseType
  <2>5. \/ event_add(b, e, timed) = a
        \/ event_add(b, e, timed) =
             epoll_add([a EXCEPT !.flags[e] = @ \cup {"INSERTED"},
                                 !.eventqueue = @ \cup {e}], e)
    <3> HIDE DEF c, d
    <3> QED
      BY <2>1, <2>3, Zenon DEF event_add
  <2> QED
    BY <2>4, <2>5, Zenon
<1>5. Keeps(d, epoll_add(d, e), e)
  <2>1. "INSERTED" \in d.flags[e]
    BY DEF BaseType
  <2> HIDE DEF d
  <2> QED
    BY <1>1, <1>3, <2>1, EpollAddKeeps
<1>6. \A x \in Events \ {e} : c.flags[x] = b.flags[x] /\ d.flags[x] = b.flags[x]
  BY DEF BaseType
<1> QED
  BY <1>1, <1>2, <1>4, <1>5, <1>6 DEF Keeps

(* event_del keeps the base consistent and leaves the event on no queue.     *)
LEMMA EventDelKeeps ==
  ASSUME OneWay, NEW b \in BaseType, NEW e \in Events, BaseInv(b)
  PROVE  Keeps(b, event_del(b, e), e) /\ event_del(b, e).flags[e] = {}
<1>1. PICK c : c = [b EXCEPT
                      !.flags[e]    = {},
                      !.res[e]      = {},
                      !.timetree    = IF "TIMEOUT" \in b.flags[e] THEN @ \ {e} ELSE @,
                      !.activequeue = IF "ACTIVE" \in b.flags[e] THEN @ \ {e} ELSE @,
                      !.eventqueue  = IF "INSERTED" \in b.flags[e] THEN @ \ {e} ELSE @]
  OBVIOUS
<1>2. PICK d : d = IF "INSERTED" \in b.flags[e] THEN epoll_del(c, e) ELSE c
  OBVIOUS
<1>3. d = event_del(b, e)
  BY <1>1, <1>2 DEF event_del
<1>4. /\ c \in BaseType /\ c.flags[e] = {} /\ \A x \in Events \ {e} : c.flags[x] = b.flags[x]
      /\ c.fd = b.fd /\ c.evread = b.evread /\ c.evwrite = b.evwrite
  BY <1>1 DEF BaseType
<1>5. FlagsMatchQueues(c) /\ ActiveAlone(c)
  BY <1>1 DEF BaseType, BaseInv, FlagsMatchQueues, ActiveAlone
<1>6. /\ d \in BaseType /\ d.flags = c.flags /\ d.fd = b.fd
      /\ d.timetree = c.timetree /\ d.eventqueue = c.eventqueue
      /\ d.activequeue = c.activequeue
      /\ \A f \in Fds : /\ d.evread[f] \in {b.evread[f], NoEvent}
                        /\ d.evwrite[f] \in {b.evwrite[f], NoEvent}
  BY <1>2, <1>4, EpollDelType
<1>7. FlagsMatchQueues(d) /\ ActiveAlone(d)
  BY <1>5, <1>6 DEF FlagsMatchQueues, ActiveAlone
<1>8. ASSUME NEW f \in Fds PROVE d.evread[f] # e /\ d.evwrite[f] # e
  <2>1. e # NoEvent
    BY EventsAssumption
  <2>2. CASE "INSERTED" \in b.flags[e] /\ b.fd[e] = f
    <3>1. /\ "READ" \in What[e] => d.evread[f] = NoEvent
          /\ "WRITE" \in What[e] => d.evwrite[f] = NoEvent
      BY <1>2, <1>4, <2>2, EpollDelForgets
    <3> QED
      BY <1>6, <2>1, <3>1 DEF BaseInv, TableInserted
  <2>3. CASE ~("INSERTED" \in b.flags[e] /\ b.fd[e] = f)
    BY <1>6, <2>1, <2>3 DEF BaseInv, TableInserted
  <2> QED
    BY <2>2, <2>3
<1>9. TableInserted(d)
  BY <1>4, <1>6, <1>8 DEF BaseType, BaseInv, TableInserted
<1> QED
  BY <1>3, <1>4, <1>6, <1>7, <1>9 DEF Keeps, BaseInv

(* event_active on an event that is on no queue keeps the base consistent.   *)
LEMMA EventActiveKeeps ==
  ASSUME NEW b \in BaseType, NEW e \in Events, NEW r \in Results,
         BaseInv(b), b.flags[e] \subseteq {"ACTIVE"} \/ "PERSIST" \in What[e]
  PROVE  /\ Keeps(b, event_active(b, e, r), e)
         /\ event_active(b, e, r).flags[e] = b.flags[e] \cup {"ACTIVE"}
<1> DEFINE c == event_active(b, e, r)
<1>1. c \in BaseType /\ c.flags[e] = b.flags[e] \cup {"ACTIVE"}
      /\ \A x \in Events \ {e} : c.flags[x] = b.flags[x]
  BY DEF event_active, BaseType, Queues, Results
<1>2. FlagsMatchQueues(c)
  BY DEF event_active, BaseType, BaseInv, FlagsMatchQueues
<1>3. TableInserted(c)
  BY EventsAssumption DEF event_active, BaseType, BaseInv, TableInserted
<1>4. ActiveAlone(c)
  BY <1>1 DEF BaseInv, ActiveAlone
<1> QED
  BY <1>1, <1>2, <1>3, <1>4 DEF Keeps, BaseInv

(* Taking an active event off its queue leaves it on none.                   *)
LEMMA DequeueKeeps ==
  ASSUME NEW b \in BaseType, NEW e \in Events, BaseInv(b)
  PROVE  Keeps(b, Dequeue(b, e), e) /\ Dequeue(b, e).flags[e] = b.flags[e] \ {"ACTIVE"}
<1> DEFINE c == Dequeue(b, e)
<1>1. c \in BaseType /\ c.flags[e] = b.flags[e] \ {"ACTIVE"}
      /\ \A x \in Events \ {e} : c.flags[x] = b.flags[x]
  BY DEF Dequeue, BaseType
<1>2. FlagsMatchQueues(c)
  BY DEF Dequeue, BaseType, BaseInv, FlagsMatchQueues
<1>3. TableInserted(c)
  BY <1>1, EventsAssumption DEF Dequeue, BaseType, BaseInv, TableInserted
<1>4. ActiveAlone(c)
  BY <1>1 DEF BaseInv, ActiveAlone
<1> QED
  BY <1>1, <1>2, <1>3, <1>4 DEF Keeps, BaseInv

(* Freeing an event that is on no queue keeps the base consistent.           *)
LEMMA FreeKeeps ==
  ASSUME NEW b \in BaseType, NEW e \in Events, BaseInv(b), b.flags[e] = {}
  PROVE  Keeps(b, Free(b, e), e) /\ Free(b, e).flags = b.flags
BY EventsAssumption DEF Free, Keeps, BaseType, BaseInv, FlagsMatchQueues, TableInserted, ActiveAlone

(* close(fd) changes the kernel's interest set only.                         *)
LEMMA CloseFdKeeps ==
  ASSUME NEW b \in BaseType, NEW f, BaseInv(b)
  PROVE  CloseFd(b, f) \in BaseType /\ BaseInv(CloseFd(b, f)) /\ CloseFd(b, f).flags = b.flags
BY DEF CloseFd, BaseType, BaseInv, FlagsMatchQueues, TableInserted, ActiveAlone

-----------------------------------------------------------------------------
(* The steps of event_base_loop *)

(* c is a good base that links no event which b did not link.                *)
LinksNoMore(b, c) ==
  /\ c \in BaseType
  /\ BaseInv(c)
  /\ \A x \in Events : b.flags[x] = {} => c.flags[x] = {}

(* The event_del of a one-shot event that is about to become active.         *)
LEMMA DelIfOneShotKeeps ==
  ASSUME OneWay, NEW b \in BaseType, NEW e \in Events \cup {NoEvent}, BaseInv(b)
  PROVE  /\ DelIfOneShot(b, e) \in BaseType
         /\ BaseInv(DelIfOneShot(b, e))
         /\ \A x \in Events : DelIfOneShot(b, e).flags[x] \in {b.flags[x], {}}
         /\ e \in Events => DelIfOneShot(b, e).flags[e] = {} \/ "PERSIST" \in What[e]
BY EventDelKeeps, EventsAssumption DEF DelIfOneShot, Keeps

(* Activating an event that was reported, or none, keeps the base consistent.*)
LEMMA ActiveIfAnyKeeps ==
  ASSUME NEW b \in BaseType, NEW e \in Events \cup {NoEvent}, NEW r \in Results, BaseInv(b),
         e \in Events => b.flags[e] \subseteq {"ACTIVE"} \/ "PERSIST" \in What[e]
  PROVE  /\ ActiveIfAny(b, e, r) \in BaseType
         /\ BaseInv(ActiveIfAny(b, e, r))
         /\ \A x \in Events \ {e} : ActiveIfAny(b, e, r).flags[x] = b.flags[x]
         /\ e \in Events => ActiveIfAny(b, e, r).flags[e] = b.flags[e] \cup {"ACTIVE"}
BY EventActiveKeeps, EventsAssumption DEF ActiveIfAny, Keeps

(* What epoll_wait reports activates inserted events only.                   *)
LEMMA EpollReportKeeps ==
  ASSUME OneWay, NEW b \in BaseType, NEW f \in Fds, NEW what, BaseInv(b)
  PROVE  LinksNoMore(b, epoll_report(b, f, what))
<1>1. PICK r : r = IF "IN" \in what THEN b.evread[f] ELSE NoEvent
  OBVIOUS
<1>2. PICK w : w = IF "OUT" \in what THEN b.evwrite[f] ELSE NoEvent
  OBVIOUS
<1>3. /\ r \in Events \cup {NoEvent} /\ w \in Events \cup {NoEvent}
      /\ r \in Events => b.flags[r] # {}
      /\ w \in Events => b.flags[w] # {}
  BY <1>1, <1>2, EventsAssumption DEF BaseType, BaseInv, TableInserted
<1>4. PICK c : c = DelIfOneShot(b, r)
  OBVIOUS
<1>5. PICK d : d = DelIfOneShot(c, w)
  OBVIOUS
<1>6. PICK g : g = ActiveIfAny(d, r, "READ")
  OBVIOUS
<1>7. epoll_report(b, f, what) = ActiveIfAny(g, w, "WRITE")
  BY <1>1, <1>2, <1>4, <1>5, <1>6 DEF epoll_report
<1>8. /\ c \in BaseType /\ BaseInv(c)
      /\ \A x \in Events : c.flags[x] \in {b.flags[x], {}}
      /\ r \in Events => c.flags[r] = {} \/ "PERSIST" \in What[r]
  BY <1>3, <1>4, DelIfOneShotKeeps
<1>9. /\ d \in BaseType /\ BaseInv(d)
      /\ \A x \in Events : d.flags[x] \in {c.flags[x], {}}
      /\ w \in Events => d.flags[w] = {} \/ "PERSIST" \in What[w]
  BY <1>3, <1>5, <1>8, DelIfOneShotKeeps
<1>10. /\ g \in BaseType /\ BaseInv(g)
       /\ \A x \in Events \ {r} : g.flags[x] = d.flags[x]
       /\ r \in Events => g.flags[r] = d.flags[r] \cup {"ACTIVE"}
  <2>1. r \in Events => d.flags[r] \subseteq {"ACTIVE"} \/ "PERSIST" \in What[r]
    BY <1>8, <1>9
  <2>2. d \in BaseType /\ BaseInv(d) /\ r \in Events \cup {NoEvent} /\ "READ" \in Results
    BY <1>3, <1>9 DEF Results
  <2> QED
    BY <1>6, <2>1, <2>2, ActiveIfAnyKeeps
<1>11. PICK h : h = epoll_report(b, f, what)
  OBVIOUS
<1>12. /\ h \in BaseType /\ BaseInv(h)
       /\ \A x \in Events \ {w} : h.flags[x] = g.flags[x]
  <2>1. w \in Events => g.flags[w] \subseteq {"ACTIVE"} \/ "PERSIST" \in What[w]
    BY <1>9, <1>10
  <2>2. h = ActiveIfAny(g, w, "WRITE")
    BY <1>7, <1>11
  <2>3. g \in BaseType /\ BaseInv(g) /\ w \in Events \cup {NoEvent} /\ "WRITE" \in Results
    BY <1>3, <1>10 DEF Results
  <2> QED
    BY <2>1, <2>2, <2>3, ActiveIfAnyKeeps
<1> QED
  BY <1>3, <1>8, <1>9, <1>10, <1>11, <1>12 DEF LinksNoMore

(* An expired event is active and on no other queue.                         *)
LEMMA TimeoutExpireKeeps ==
  ASSUME OneWay, NEW b \in BaseType, NEW e \in Events, BaseInv(b), e \in b.timetree
  PROVE  LinksNoMore(b, timeout_expire(b, e))
<1>1. PICK c : c = [b EXCEPT !.flags[e] = @ \ {"TIMEOUT"}, !.timetree = @ \ {e}]
  OBVIOUS
<1>2. /\ c \in BaseType /\ \A x \in Events \ {e} : c.flags[x] = b.flags[x]
  BY <1>1 DEF BaseType
<1>3. BaseInv(c)
  <2>1. FlagsMatchQueues(c)
    BY <1>1 DEF BaseType, BaseInv, FlagsMatchQueues
  <2>2. TableInserted(c)
    BY <1>1, EventsAssumption DEF BaseType, BaseInv, TableInserted
  <2>3. ActiveAlone(c)
    BY <1>1 DEF BaseType, BaseInv, ActiveAlone
  <2> QED
    BY <2>1, <2>2, <2>3 DEF BaseInv
<1>4. PICK d : d = event_del(c, e)
  OBVIOUS
<1>5. Keeps(c, d, e) /\ d.flags[e] = {}
  BY <1>2, <1>3, <1>4, EventDelKeeps
<1>6. Keeps(d, event_active(d, e, "TIMEOUT"), e)
  BY <1>5, EventActiveKeeps DEF Keeps, Results
<1>7. b.flags[e] # {}
  BY DEF BaseInv, FlagsMatchQueues
<1>8. timeout_expire(b, e) = event_active(d, e, "TIMEOUT")
  BY <1>1, <1>4 DEF timeout_expire
<1> QED
  BY <1>2, <1>5, <1>6, <1>7, <1>8 DEF Keeps, LinksNoMore

-----------------------------------------------------------------------------
(* The epoll table, the event queue and the kernel *)

(* EpollAgrees is inductive once pure timers are known not to be inserted.    *)
Agrees(b) == EpollAgrees(b) /\ \A e \in b.eventqueue : WantsOf(e) # {}

(* What EpollAgrees speaks of is the same in b and c.                        *)
SameEpoll(b, c) ==
  /\ c.fd = b.fd /\ c.eventqueue = b.eventqueue
  /\ c.evread = b.evread /\ c.evwrite = b.evwrite /\ c.kernel = b.kernel

(* Table, kernel and list of inserted events are all that Agrees speaks of.  *)
LEMMA SameEpollAgrees ==
  ASSUME NEW b, NEW c, SameEpoll(b, c), Agrees(b) PROVE Agrees(c)
BY DEF SameEpoll, Agrees, EpollAgrees, Registered

(* An event that is on no queue is in no entry of the table either.          *)
LEMMA NotInTable ==
  ASSUME NEW b \in BaseType, NEW e \in Events, BaseInv(b), Agrees(b), "INSERTED" \notin b.flags[e]
  PROVE  /\ e \notin b.eventqueue
         /\ \A f \in Fds : b.evread[f] # e /\ b.evwrite[f] # e
BY EventsAssumption DEF BaseInv, FlagsMatchQueues, Agrees, EpollAgrees

(* event_set, event_add_queue and free change no more than the descriptor of  *)
(* an event that is not inserted.                                            *)
LEMMA NewFdAgrees ==
  ASSUME NEW b \in BaseType, NEW c \in BaseType, NEW e \in Events, BaseInv(b), Agrees(b),
         "INSERTED" \notin b.flags[e], \A x \in Events \ {e} : c.fd[x] = b.fd[x],
         c.eventqueue = b.eventqueue, c.evread = b.evread, c.evwrite = b.evwrite,
         c.kernel = b.kernel
  PROVE  Agrees(c)
<1>1. e \notin b.eventqueue /\ \A f \in Fds : b.evread[f] # e /\ b.evwrite[f] # e
  BY NotInTable
<1>2. b.eventqueue \subseteq Events /\ \A f \in Fds : /\ b.evread[f] \in Events \cup {NoEvent}
                                                  /\ b.evwrite[f] \in Events \cup {NoEvent}
  BY DEF BaseType
<1>3. ASSUME NEW f \in Fds
      PROVE  /\ c.kernel[f] = Registered(c, f)
             /\ c.evread[f] # NoEvent => /\ c.evread[f] \in c.eventqueue
                                         /\ c.fd[c.evread[f]] = f
                                         /\ WantsOf(c.evread[f]) = {"IN"}
             /\ c.evwrite[f] # NoEvent => /\ c.evwrite[f] \in c.eventqueue
                                          /\ c.fd[c.evwrite[f]] = f
                                          /\ WantsOf(c.evwrite[f]) = {"OUT"}
  <2>1. c.kernel[f] = Registered(c, f)
    BY DEF Agrees, EpollAgrees, Registered
  <2>2. ASSUME b.evread[f] # NoEvent
        PROVE  /\ b.evread[f] \in b.eventqueue /\ c.fd[b.evread[f]] = f
               /\ WantsOf(b.evread[f]) = {"IN"}
    <3>1. b.evread[f] \in Events \ {e}
      BY <1>1, <1>2, <2>2
    <3> QED
      BY <2>2, <3>1 DEF Agrees, EpollAgrees
  <2>3. ASSUME b.evwrite[f] # NoEvent
        PROVE  /\ b.evwrite[f] \in b.eventqueue /\ c.fd[b.evwrite[f]] = f
               /\ WantsOf(b.evwrite[f]) = {"OUT"}
    <3>1. b.evwrite[f] \in Events \ {e}
      BY <1>1, <1>2, <2>3
    <3> QED
      BY <2>3, <3>1 DEF Agrees, EpollAgrees
  <2> QED
    BY <2>1, <2>2, <2>3
<1>4. ASSUME NEW x \in c.eventqueue
      PROVE  /\ c.fd[x] = b.fd[x] /\ c.fd[x] \in Fds /\ WantsOf(x) # {}
             /\ "READ" \in What[x] => c.evread[c.fd[x]] = x
             /\ "WRITE" \in What[x] => c.evwrite[c.fd[x]] = x
  <2>1. x \in Events /\ x # e
    BY <1>1, <1>2
  <2>2. c.fd[x] = b.fd[x]
    BY <2>1
  <2> QED
    BY <2>2 DEF Agrees, EpollAgrees
<1> QED
  BY <1>3, <1>4 DEF Agrees, EpollAgrees

(* event_set on an event that is not inserted keeps table and kernel in      *)
(* step.                                                                     *)
LEMMA EventSetAgrees ==
  ASSUME NEW b \in BaseType, NEW e \in Events, NEW f \in Fds \cup {NoFd},
         BaseInv(b), Agrees(b), b.flags[e] = {}
  PROVE  Agrees(event_set(b, e, f)) /\ event_set(b, e, f).fd = [b.fd EXCEPT ![e] = f]
<1>1. event_set(b, e, f) \in BaseType
  BY DEF event_set, BaseType
<1>2. /\ event_set(b, e, f).fd = [b.fd EXCEPT ![e] = f]
      /\ event_set(b, e, f).eventqueue = b.eventqueue /\ event_set(b, e, f).kernel = b.kernel
      /\ event_set(b, e, f).evread = b.evread /\ event_set(b, e, f).evwrite = b.evwrite
  BY DEF event_set, BaseType
<1>3. \A x \in Events \ {e} : event_set(b, e, f).fd[x] = b.fd[x]
  BY <1>2 DEF BaseType
<1> QED
  BY <1>1, <1>2, <1>3, NewFdAgrees

(* Freeing an event that is not inserted keeps table and kernel in step.     *)
LEMMA FreeAgrees ==
  ASSUME NEW b \in BaseType, NEW e \in Events, BaseInv(b), Agrees(b), b.flags[e] = {}
  PROVE  Agrees(Free(b, e)) /\ \A x \in Events \ {e} : Free(b, e).fd[x] = b.fd[x]
<1>1. /\ Free(b, e).fd = [b.fd EXCEPT ![e] = NoFd]
      /\ Free(b, e).eventqueue = b.eventqueue /\ Free(b, e).kernel = b.kernel
      /\ Free(b, e).evread = b.evread /\ Free(b, e).evwrite = b.evwrite
  BY DEF Free, BaseType
<1>2. \A x \in Events \ {e} : Free(b, e).fd[x] = b.fd[x]
  BY <1>1 DEF BaseType
<1>3. Free(b, e) \in BaseType
  BY DEF Free, BaseType
<1> QED
  BY <1>1, <1>2, <1>3, NewFdAgrees

(* close(fd) leaves the table alone: it may be called when nothing waits.    *)
LEMMA CloseFdAgrees ==
  ASSUME NEW b \in BaseType, NEW f \in Fds, Agrees(b),
         b.evread[f] = NoEvent, b.evwrite[f] = NoEvent
  PROVE  Agrees(CloseFd(b, f)) /\ CloseFd(b, f).fd = b.fd
<1>1. /\ CloseFd(b, f).fd = b.fd /\ CloseFd(b, f).eventqueue = b.eventqueue
      /\ CloseFd(b, f).evread = b.evread /\ CloseFd(b, f).evwrite = b.evwrite
      /\ CloseFd(b, f).kernel = [b.kernel EXCEPT ![f] = {}]
  BY DEF CloseFd, BaseType
<1>2. b.kernel[f] = {}
  BY DEF Agrees, EpollAgrees, Registered
<1>3. CloseFd(b, f).kernel = b.kernel
  BY <1>1, <1>2 DEF BaseType
<1> QED
  BY <1>1, <1>3, SameEpollAgrees DEF SameEpoll

(* No other inserted event waits on the descriptor of e for what e waits for. *)
FreeFor(b, e) ==
  /\ b.fd[e] \in Fds
  /\ \A x \in b.eventqueue \ {e} : b.fd[x] = b.fd[e] => WantsOf(x) \cap WantsOf(e) = {}

(* epoll_add registers an event that has just been linked on the event queue. *)
LEMMA EpollAddAgrees ==
  ASSUME OneWay, NEW b \in BaseType, NEW c \in BaseType, NEW e \in Events,
         Agrees(b), e \notin b.eventqueue, FreeFor(b, e), WantsOf(e) # {},
         c.eventqueue = b.eventqueue \cup {e}, c.fd = b.fd, c.evread = b.evread,
         c.evwrite = b.evwrite, c.kernel = b.kernel
  PROVE  Agrees(epoll_add(c, e)) /\ epoll_add(c, e).fd = b.fd
<1> USE EventsAssumption
<1>1. PICK f \in Fds : f = b.fd[e]
  BY DEF FreeFor
<1>2. PICK d : d = epoll_add(c, e)
  OBVIOUS
<1>3. \/ "READ" \in What[e] /\ "WRITE" \notin What[e] /\ WantsOf(e) = {"IN"}
      \/ "WRITE" \in What[e] /\ "READ" \notin What[e] /\ WantsOf(e) = {"OUT"}
  BY DEF OneWay, WantsOf
<1>4. /\ "READ" \in What[e] => b.evread[f] = NoEvent
      /\ "WRITE" \in What[e] => b.evwrite[f] = NoEvent
  <2>1. ASSUME "READ" \in What[e], b.evread[f] # NoEvent PROVE FALSE
    <3>1. b.evread[f] \in b.eventqueue \ {e} /\ b.fd[b.evread[f]] = f
             /\ WantsOf(b.evread[f]) = {"IN"}
      BY <2>1 DEF Agrees, EpollAgrees
    <3> QED
      BY <1>1, <1>3, <2>1, <3>1 DEF FreeFor
  <2>2. ASSUME "WRITE" \in What[e], b.evwrite[f] # NoEvent PROVE FALSE
    <3>1. b.evwrite[f] \in b.eventqueue \ {e} /\ b.fd[b.evwrite[f]] = f
             /\ WantsOf(b.evwrite[f]) = {"OUT"}
      BY <2>2 DEF Agrees, EpollAgrees
    <3> QED
      BY <1>1, <1>3, <2>2, <3>1 DEF FreeFor
  <2> QED
    BY <2>1, <2>2
<1>5. /\ b.kernel[f] = Registered(b, f) /\ Registered(c, f) = Registered(b, f)
  BY DEF Agrees, EpollAgrees, Registered
<1>6. ~CtlFails(c, f, IF Registered(c, f) = {} THEN "ADD" ELSE "MOD")
  BY <1>5 DEF CtlFails
<1>7. d = [c EXCEPT !.kernel[f]  = Registered(c, f) \cup WantsOf(e),
                    !.evread[f]  = IF "READ" \in What[e] THEN e ELSE @,
                    !.evwrite[f] = IF "WRITE" \in What[e] THEN e ELSE @]
  BY <1>1, <1>2, <1>6 DEF epoll_add
<1>8. /\ d.fd = b.fd /\ d.eventqueue = b.eventqueue \cup {e}
      /\ d.kernel = [b.kernel EXCEPT ![f] = Registered(b, f) \cup WantsOf(e)]
      /\ d.evread = [b.evread EXCEPT ![f] = IF "READ" \in What[e] THEN e ELSE @]
      /\ d.evwrite = [b.evwrite EXCEPT ![f] = IF "WRITE" \in What[e] THEN e ELSE @]
  BY <1>5, <1>7 DEF BaseType
<1>9. /\ b.evread \in [Fds -> Events \cup {NoEvent}] /\ b.evwrite \in [Fds -> Events \cup {NoEvent}]
      /\ b.kernel \in [Fds -> SUBSET Interests]
  BY DEF BaseType
<1>10. ASSUME NEW g \in Fds
       PROVE  /\ d.kernel[g] = Registered(d, g)
              /\ d.evread[g] # NoEvent => /\ d.evread[g] \in d.eventqueue
                                          /\ d.fd[d.evread[g]] = g
                                          /\ WantsOf(d.evread[g]) = {"IN"}
              /\ d.evwrite[g] # NoEvent => /\ d.evwrite[g] \in d.eventqueue
                                           /\ d.fd[d.evwrite[g]] = g
                                           /\ WantsOf(d.evwrite[g]) = {"OUT"}
  <2>1. CASE g # f
    <3>1. d.kernel[g] = b.kernel[g] /\ d.evread[g] = b.evread[g] /\ d.evwrite[g] = b.evwrite[g]
      BY <1>8, <1>9, <2>1
    <3>2. d.kernel[g] = Registered(d, g)
      BY <3>1 DEF Agrees, EpollAgrees, Registered
    <3> QED
      BY <1>8, <3>1, <3>2 DEF Agrees, EpollAgrees
  <2>2. CASE g = f
    <3>1. d.kernel[f] = Registered(b, f) \cup WantsOf(e)
      BY <1>8, <1>9
    <3>2. d.evread[f] = IF "READ" \in What[e] THEN e ELSE b.evread[f]
      BY <1>8, <1>9
    <3>3. d.evwrite[f] = IF "WRITE" \in What[e] THEN e ELSE b.evwrite[f]
      BY <1>8, <1>9
    <3>4. e # NoEvent
      OBVIOUS
    <3>5. d.fd[e] = f /\ e \in d.eventqueue
      BY <1>1, <1>8
    <3>6. d.kernel[f] = Registered(d, f)
      BY <1>3, <3>1, <3>2, <3>3, <3>4 DEF Registered
    <3>7. CASE "READ" \in What[e]
      BY <1>3, <1>8, <2>2, <3>2, <3>3, <3>5, <3>6, <3>7 DEF Agrees, EpollAgrees
    <3>8. CASE "WRITE" \in What[e]
      BY <1>3, <1>8, <2>2, <3>2, <3>3, <3>5, <3>6, <3>8 DEF Agrees, EpollAgrees
    <3> QED
      BY <1>3, <3>7, <3>8
  <2> QED
    BY <2>1, <2>2
<1>11. ASSUME NEW x \in d.eventqueue
       PROVE  /\ d.fd[x] \in Fds /\ WantsOf(x) # {}
              /\ "READ" \in What[x] => d.evread[d.fd[x]] = x
              /\ "WRITE" \in What[x] => d.evwrite[d.fd[x]] = x
  <2>1. CASE x = e
    BY <1>1, <1>8, <1>9, <2>1
  <2>2. CASE x # e
    <3>1. /\ x \in b.eventqueue /\ b.fd[x] \in Fds /\ WantsOf(x) # {}
          /\ "READ" \in What[x] => b.evread[b.fd[x]] = x
          /\ "WRITE" \in What[x] => b.evwrite[b.fd[x]] = x
      BY <1>8, <2>2 DEF Agrees, EpollAgrees
    <3>2. x # NoEvent
      BY <3>1 DEF BaseType
    <3>3. d.fd[x] = b.fd[x]
      BY <1>8
    <3>4. ASSUME "READ" \in What[x] PROVE d.evread[b.fd[x]] = x
      <4>1. CASE b.fd[x] = f
        BY <1>4, <1>8, <1>9, <3>1, <3>2, <3>4, <4>1
      <4>2. CASE b.fd[x] # f
        BY <1>8, <1>9, <3>1, <3>4, <4>2
      <4> QED
        BY <4>1, <4>2
    <3>5. ASSUME "WRITE" \in What[x] PROVE d.evwrite[b.fd[x]] = x
      <4>1. CASE b.fd[x] = f
        BY <1>4, <1>8, <1>9, <3>1, <3>2, <3>5, <4>1
      <4>2. CASE b.fd[x] # f
        BY <1>8, <1>9, <3>1, <3>5, <4>2
      <4> QED
        BY <4>1, <4>2
    <3> QED
      BY <3>1, <3>3, <3>4, <3>5
  <2> QED
    BY <2>1, <2>2
<1> QED
  BY <1>2, <1>8, <1>10, <1>11 DEF Agrees, EpollAgrees

(* event_add: what it leaves alone, and what it links.                       *)
LEMMA EventAddAgrees ==
  ASSUME OneWay, NEW b \in BaseType, NEW e \in Events, NEW timed \in BOOLEAN,
         BaseInv(b), Agrees(b), "ACTIVE" \notin b.flags[e], WantsOf(e) # {} => FreeFor(b, e)
  PROVE  LET c == event_add(b, e, timed)
         IN  /\ Agrees(c) /\ c.fd = b.fd /\ c.eventqueue \subseteq b.eventqueue \cup {e}
             /\ b.flags[e] \subseteq c.flags[e]
             /\ timed => "TIMEOUT" \in c.flags[e]
             /\ WantsOf(e) # {} => "INSERTED" \in c.flags[e]
<1>1. PICK c : c = [b EXCEPT !.flags[e] = @ \cup (IF timed THEN {"TIMEOUT"} ELSE {}),
                             !.timetree = IF timed THEN @ \cup {e} ELSE @]
  OBVIOUS
<1>2. /\ c \in BaseType /\ c.fd = b.fd /\ c.eventqueue = b.eventqueue
      /\ c.evread = b.evread /\ c.evwrite = b.evwrite /\ c.kernel = b.kernel
      /\ c.flags[e] = b.flags[e] \cup (IF timed THEN {"TIMEOUT"} ELSE {})
  BY <1>1 DEF BaseType, Queues
<1>3. Agrees(c)
  BY <1>2, SameEpollAgrees DEF SameEpoll
<1>4. c.flags[e] \cap {"INSERTED", "ACTIVE"} = {} <=> "INSERTED" \notin b.flags[e]
  BY <1>2
<1>5. PICK g : g = event_add(b, e, timed)
  OBVIOUS
<1>6. g = IF WantsOf(e) # {} /\ c.flags[e] \cap {"INSERTED", "ACTIVE"} = {}
          THEN epoll_add([c EXCEPT !.flags[e] = @ \cup {"INSERTED"}, !.eventqueue = @ \cup {e}], e)
          ELSE c
  BY <1>1, <1>5 DEF event_add, BaseType
<1>7. CASE WantsOf(e) # {} /\ "INSERTED" \notin b.flags[e]
  <2>1. PICK d : d = [c EXCEPT !.flags[e] = @ \cup {"INSERTED"}, !.eventqueue = @ \cup {e}]
    OBVIOUS
  <2>2. /\ d \in BaseType /\ d.fd = b.fd /\ d.eventqueue = b.eventqueue \cup {e}
        /\ d.evread = b.evread /\ d.evwrite = b.evwrite /\ d.kernel = b.kernel
        /\ d.flags[e] = c.flags[e] \cup {"INSERTED"}
    BY <1>2, <2>1 DEF BaseType, Queues
  <2>3. g = epoll_add(d, e)
    BY <1>4, <1>7, <1>6, <2>1
  <2>4. e \notin b.eventqueue
    BY <1>7, NotInTable
  <2>5. Agrees(g) /\ g.fd = b.fd
    BY <1>7, <2>2, <2>3, <2>4, EpollAddAgrees
  <2>6. g.flags = d.flags /\ g.eventqueue = d.eventqueue
    BY <2>2, <2>3 DEF epoll_add, BaseType
  <2> QED
    BY <1>2, <1>5, <2>2, <2>5, <2>6
<1>8. CASE WantsOf(e) = {} \/ "INSERTED" \in b.flags[e]
  <2>1. g = c
    BY <1>4, <1>8, <1>6
  <2> QED
    BY <1>2, <1>3, <1>5, <1>8, <2>1
<1> QED
  BY <1>7, <1>8

(* epoll_del forgets an event that has just left the event queue, and keeps  *)
(* the other direction of its descriptor.                                    *)
LEMMA EpollDelAgrees ==
  ASSUME OneWay, NEW b \in BaseType, NEW c \in BaseType, NEW e \in Events,
         Agrees(b), e \in b.eventqueue,
         c.eventqueue = b.eventqueue \ {e}, c.fd = b.fd, c.evread = b.evread,
         c.evwrite = b.evwrite, c.kernel = b.kernel
  PROVE  Agrees(epoll_del(c, e)) /\ epoll_del(c, e).fd = b.fd
<1> USE EventsAssumption
<1>1. b.fd[e] \in Fds
  BY DEF Agrees, EpollAgrees
<1>2. PICK f \in Fds : f = b.fd[e]
  BY <1>1
<1>3. PICK d : d = epoll_del(c, e)
  OBVIOUS
<1>4. /\ b.evread \in [Fds -> Events \cup {NoEvent}] /\ b.evwrite \in [Fds -> Events \cup {NoEvent}]
      /\ b.kernel \in [Fds -> SUBSET Interests]
  BY DEF BaseType
<1>5. \/ /\ "READ" \in What[e] /\ "WRITE" \notin What[e] /\ WantsOf(e) = {"IN"}
         /\ b.evread[f] = e
      \/ /\ "WRITE" \in What[e] /\ "READ" \notin What[e] /\ WantsOf(e) = {"OUT"}
         /\ b.evwrite[f] = e
  <2>1. WantsOf(e) # {}
    BY DEF Agrees
  <2> QED
    BY <1>2, <2>1 DEF OneWay, WantsOf, Agrees, EpollAgrees
<1>6. b.kernel[f] = Registered(b, f) /\ b.kernel[f] # {}
  BY <1>5 DEF Agrees, EpollAgrees, Registered
<1>7. PICK keep : keep = (IF WantsOf(e) = {"OUT"} /\ b.evread[f] # NoEvent THEN {"IN"} ELSE {})
                          \cup (IF WantsOf(e) = {"IN"} /\ b.evwrite[f] # NoEvent
                                THEN {"OUT"} ELSE {})
  OBVIOUS
<1>8. d = [c EXCEPT !.evread[f]  = IF "IN" \in keep THEN @ ELSE NoEvent,
                    !.evwrite[f] = IF "OUT" \in keep THEN @ ELSE NoEvent,
                    !.kernel[f]  = IF @ = {} THEN @ ELSE keep]
  BY <1>2, <1>3, <1>7 DEF epoll_del
<1>9. /\ d.fd = b.fd /\ d.eventqueue = b.eventqueue \ {e}
      /\ d.kernel = [b.kernel EXCEPT ![f] = keep]
      /\ d.evread = [b.evread EXCEPT ![f] = IF "IN" \in keep THEN @ ELSE NoEvent]
      /\ d.evwrite = [b.evwrite EXCEPT ![f] = IF "OUT" \in keep THEN @ ELSE NoEvent]
  BY <1>6, <1>8 DEF BaseType
<1>10. /\ d.kernel[f] = keep
       /\ d.evread[f] = IF WantsOf(e) = {"OUT"} THEN b.evread[f] ELSE NoEvent
       /\ d.evwrite[f] = IF WantsOf(e) = {"IN"} THEN b.evwrite[f] ELSE NoEvent
       /\ \A g \in Fds \ {f} : /\ d.kernel[g] = b.kernel[g] /\ d.evread[g] = b.evread[g]
                              /\ d.evwrite[g] = b.evwrite[g]
  BY <1>4, <1>5, <1>7, <1>9
<1>11. ASSUME NEW g \in Fds
       PROVE  /\ d.kernel[g] = Registered(d, g)
              /\ d.evread[g] # NoEvent => /\ d.evread[g] \in d.eventqueue
                                          /\ d.fd[d.evread[g]] = g
                                          /\ WantsOf(d.evread[g]) = {"IN"}
              /\ d.evwrite[g] # NoEvent => /\ d.evwrite[g] \in d.eventqueue
                                           /\ d.fd[d.evwrite[g]] = g
                                           /\ WantsOf(d.evwrite[g]) = {"OUT"}
  <2>1. d.kernel[g] = Registered(d, g)
    <3>1. CASE g = f
      BY <1>5, <1>7, <1>10, <3>1 DEF Registered
    <3>2. CASE g # f
      BY <1>10, <3>2 DEF Registered, Agrees, EpollAgrees
    <3> QED
      BY <3>1, <3>2
  <2>2. ASSUME d.evread[g] # NoEvent
        PROVE  d.evread[g] = b.evread[g] /\ d.evread[g] # e
    <3>1. CASE g = f
      BY <1>5, <1>10, <2>2, <3>1 DEF Agrees, EpollAgrees
    <3>2. CASE g # f
      BY <1>2, <1>10, <2>2, <3>2 DEF Agrees, EpollAgrees
    <3> QED
      BY <3>1, <3>2
  <2>3. ASSUME d.evwrite[g] # NoEvent
        PROVE  d.evwrite[g] = b.evwrite[g] /\ d.evwrite[g] # e
    <3>1. CASE g = f
      BY <1>5, <1>10, <2>3, <3>1 DEF Agrees, EpollAgrees
    <3>2. CASE g # f
      BY <1>2, <1>10, <2>3, <3>2 DEF Agrees, EpollAgrees
    <3> QED
      BY <3>1, <3>2
  <2>4. d.evread[g] # NoEvent => /\ d.evread[g] \in d.eventqueue
                                 /\ d.fd[d.evread[g]] = g
                                 /\ WantsOf(d.evread[g]) = {"IN"}
    BY <1>9, <2>2 DEF Agrees, EpollAgrees
  <2>5. d.evwrite[g] # NoEvent => /\ d.evwrite[g] \in d.eventqueue
                                  /\ d.fd[d.evwrite[g]] = g
                                  /\ WantsOf(d.evwrite[g]) = {"OUT"}
    BY <1>9, <2>3 DEF Agrees, EpollAgrees
  <2> QED
    BY <2>1, <2>4, <2>5
<1>12. ASSUME NEW x \in d.eventqueue
       PROVE  /\ d.fd[x] \in Fds /\ WantsOf(x) # {}
              /\ "READ" \in What[x] => d.evread[d.fd[x]] = x
              /\ "WRITE" \in What[x] => d.evwrite[d.fd[x]] = x
  <2>1. /\ x \in b.eventqueue /\ x # e /\ d.fd[x] = b.fd[x] /\ b.fd[x] \in Fds /\ WantsOf(x) # {}
        /\ "READ" \in What[x] => b.evread[b.fd[x]] = x
        /\ "WRITE" \in What[x] => b.evwrite[b.fd[x]] = x
    BY <1>9 DEF Agrees, EpollAgrees
  <2>2. ASSUME "READ" \in What[x] PROVE d.evread[b.fd[x]] = x
    BY <1>5, <1>10, <2>1, <2>2
  <2>3. ASSUME "WRITE" \in What[x] PROVE d.evwrite[b.fd[x]] = x
    BY <1>5, <1>10, <2>1, <2>3
  <2> QED
    BY <2>1, <2>2, <2>3
<1> QED
  BY <1>3, <1>9, <1>11, <1>12 DEF Agrees, EpollAgrees

(* event_del, on an event that is linked or not.                             *)
LEMMA EventDelAgrees ==
  ASSUME OneWay, NEW b \in BaseType, NEW e \in Events, BaseInv(b), Agrees(b)
  PROVE  LET c == event_del(b, e)
         IN  Agrees(c) /\ c.fd = b.fd /\ c.eventqueue = b.eventqueue \ {e}
<1>1. PICK c : c = [b EXCEPT
              !.flags[e]    = {},
              !.res[e]      = {},
              !.timetree    = IF "TIMEOUT" \in b.flags[e] THEN @ \ {e} ELSE @,
              !.activequeue = IF "ACTIVE" \in b.flags[e] THEN @ \ {e} ELSE @,
              !.eventqueue  = IF "INSERTED" \in b.flags[e] THEN @ \ {e} ELSE @]
  OBVIOUS
<1>2. event_del(b, e) = IF "INSERTED" \in b.flags[e] THEN epoll_del(c, e) ELSE c
  BY <1>1 DEF event_del
<1>3. /\ c \in BaseType /\ c.fd = b.fd /\ c.evread = b.evread /\ c.evwrite = b.evwrite
      /\ c.kernel = b.kernel
      /\ c.eventqueue = IF "INSERTED" \in b.flags[e] THEN b.eventqueue \ {e} ELSE b.eventqueue
  BY <1>1 DEF BaseType
<1>4. CASE "INSERTED" \in b.flags[e]
  <2>1. e \in b.eventqueue
    BY <1>4 DEF BaseInv, FlagsMatchQueues
  <2>2. Agrees(epoll_del(c, e)) /\ epoll_del(c, e).fd = b.fd
    BY <1>3, <1>4, <2>1, EpollDelAgrees
  <2>3. epoll_del(c, e).eventqueue = c.eventqueue
    BY <1>3 DEF epoll_del, BaseType
  <2> QED
    BY <1>2, <1>3, <1>4, <2>2, <2>3
<1>5. CASE "INSERTED" \notin b.flags[e]
  <2>1. e \notin b.eventqueue
    BY <1>5 DEF BaseInv, FlagsMatchQueues
  <2>2. SameEpoll(b, c)
    BY <1>3, <1>5 DEF SameEpoll
  <2> QED
    BY <1>2, <1>3, <1>5, <2>1, <2>2, SameEpollAgrees
<1> QED
  BY <1>4, <1>5

(* c is a good base that agrees with its table; every descriptor is b's, and *)
(* an event that left the queues of b is active instead.                     *)
Calm(b, c) ==
  /\ c \in BaseType /\ BaseInv(c) /\ Agrees(c)
  /\ c.fd = b.fd /\ c.eventqueue \subseteq b.eventqueue
  /\ \A x \in Events : c.flags[x] = b.flags[x] \/ "ACTIVE" \in c.flags[x]

(* Making an event active, or taking it off the active queue, is not the     *)
(* back end's business.                                                      *)
LEMMA ActiveAgrees ==
  ASSUME NEW b \in BaseType, NEW e \in Events, Agrees(b)
  PROVE  /\ \A r \in Results : SameEpoll(b, event_active(b, e, r)) /\ Agrees(event_active(b, e, r))
         /\ SameEpoll(b, Dequeue(b, e)) /\ Agrees(Dequeue(b, e))
<1>1. \A r \in Results : SameEpoll(b, event_active(b, e, r))
  BY DEF event_active, SameEpoll, BaseType
<1>2. SameEpoll(b, Dequeue(b, e))
  BY DEF Dequeue, SameEpoll, BaseType
<1> QED
  BY <1>1, <1>2, SameEpollAgrees

(* What epoll_wait reports about a descriptor makes events active.           *)
LEMMA EpollReportCalm ==
  ASSUME OneWay, NEW b \in BaseType, NEW f \in Fds, NEW what, BaseInv(b), Agrees(b)
  PROVE  Calm(b, epoll_report(b, f, what))
<1>1. PICK r : r = IF "IN" \in what THEN b.evread[f] ELSE NoEvent
  OBVIOUS
<1>2. PICK w : w = IF "OUT" \in what THEN b.evwrite[f] ELSE NoEvent
  OBVIOUS
<1>3. r \in Events \cup {NoEvent} /\ w \in Events \cup {NoEvent}
  BY <1>1, <1>2 DEF BaseType
<1>4. PICK c : c = DelIfOneShot(b, r)
  OBVIOUS
<1>5. PICK d : d = DelIfOneShot(c, w)
  OBVIOUS
<1>6. PICK g : g = ActiveIfAny(d, r, "READ")
  OBVIOUS
<1>7. PICK h : h = ActiveIfAny(g, w, "WRITE")
  OBVIOUS
<1>8. epoll_report(b, f, what) = h
  BY <1>1, <1>2, <1>4, <1>5, <1>6, <1>7 DEF epoll_report
<1>9. ASSUME NEW a \in BaseType, NEW e \in Events \cup {NoEvent}, BaseInv(a), Agrees(a)
      PROVE  LET z == DelIfOneShot(a, e)
             IN  /\ z \in BaseType /\ BaseInv(z) /\ Agrees(z)
                 /\ z.fd = a.fd /\ z.eventqueue \subseteq a.eventqueue
                 /\ \A x \in Events \ {e} : z.flags[x] = a.flags[x]
                 /\ \A x \in Events : z.flags[x] \in {a.flags[x], {}}
                 /\ e \in Events => z.flags[e] = {} \/ "PERSIST" \in What[e]
  BY <1>9, EventDelKeeps, EventDelAgrees, EventsAssumption DEF DelIfOneShot, Keeps
<1>10. /\ c \in BaseType /\ BaseInv(c) /\ Agrees(c)
       /\ c.fd = b.fd /\ c.eventqueue \subseteq b.eventqueue
       /\ \A x \in Events \ {r} : c.flags[x] = b.flags[x]
       /\ r \in Events => c.flags[r] = {} \/ "PERSIST" \in What[r]
  BY <1>3, <1>4, <1>9
<1>11. /\ d \in BaseType /\ BaseInv(d) /\ Agrees(d)
       /\ d.fd = c.fd /\ d.eventqueue \subseteq c.eventqueue
       /\ \A x \in Events \ {w} : d.flags[x] = c.flags[x]
       /\ \A x \in Events : d.flags[x] \in {c.flags[x], {}}
       /\ w \in Events => d.flags[w] = {} \/ "PERSIST" \in What[w]
  <2>1. c \in BaseType /\ BaseInv(c) /\ Agrees(c) /\ w \in Events \cup {NoEvent}
    BY <1>3, <1>10
  <2> QED
    BY <1>5, <1>9, <2>1
<1>12. ASSUME NEW a \in BaseType, NEW e \in Events \cup {NoEvent}, NEW q \in Results,
              BaseInv(a), Agrees(a),
              e \in Events => a.flags[e] \subseteq {"ACTIVE"} \/ "PERSIST" \in What[e]
       PROVE  LET z == ActiveIfAny(a, e, q)
              IN  /\ z \in BaseType /\ BaseInv(z) /\ SameEpoll(a, z) /\ Agrees(z)
                  /\ \A x \in Events \ {e} : z.flags[x] = a.flags[x]
                  /\ e \in Events => z.flags[e] = a.flags[e] \cup {"ACTIVE"}
  <2>1. CASE e = NoEvent
    BY <1>12, <2>1, EventsAssumption DEF ActiveIfAny, SameEpoll
  <2>2. CASE e # NoEvent
    <3>1. e \in Events /\ ActiveIfAny(a, e, q) = event_active(a, e, q)
      BY <2>2 DEF ActiveIfAny
    <3> QED
      BY <1>12, <3>1, ActiveIfAnyKeeps, ActiveAgrees
  <2> QED
    BY <2>1, <2>2
<1>13. /\ g \in BaseType /\ BaseInv(g) /\ SameEpoll(d, g) /\ Agrees(g)
       /\ \A x \in Events \ {r} : g.flags[x] = d.flags[x]
       /\ r \in Events => g.flags[r] = d.flags[r] \cup {"ACTIVE"}
  <2>1. r \in Events => d.flags[r] \subseteq {"ACTIVE"} \/ "PERSIST" \in What[r]
    BY <1>10, <1>11
  <2>2. "READ" \in Results
    BY DEF Results
  <2> QED
    BY <1>3, <1>6, <1>11, <1>12, <2>1, <2>2
<1>14. /\ h \in BaseType /\ BaseInv(h) /\ SameEpoll(g, h) /\ Agrees(h)
       /\ \A x \in Events \ {w} : h.flags[x] = g.flags[x]
       /\ w \in Events => h.flags[w] = g.flags[w] \cup {"ACTIVE"}
  <2>1. w \in Events => g.flags[w] \subseteq {"ACTIVE"} \/ "PERSIST" \in What[w]
    BY <1>11, <1>13
  <2>2. "WRITE" \in Results
    BY DEF Results
  <2> QED
    BY <1>3, <1>7, <1>12, <1>13, <2>1, <2>2
<1>15. h.fd = b.fd /\ h.eventqueue \subseteq b.eventqueue
  BY <1>10, <1>11, <1>13, <1>14 DEF SameEpoll
<1>16. ASSUME NEW x \in Events PROVE h.flags[x] = b.flags[x] \/ "ACTIVE" \in h.flags[x]
  BY <1>10, <1>11, <1>13, <1>14
<1> QED
  BY <1>8, <1>14, <1>15, <1>16 DEF Calm

(* An expired timeout makes its event active.                                *)
LEMMA TimeoutExpireCalm ==
  ASSUME OneWay, NEW b \in BaseType, NEW e \in Events, BaseInv(b), Agrees(b), e \in b.timetree
  PROVE  Calm(b, timeout_expire(b, e))
<1>1. PICK c : c = [b EXCEPT !.flags[e] = @ \ {"TIMEOUT"}, !.timetree = @ \ {e}]
  OBVIOUS
<1>2. /\ c \in BaseType /\ SameEpoll(b, c) /\ \A x \in Events \ {e} : c.flags[x] = b.flags[x]
  BY <1>1 DEF BaseType, SameEpoll
<1>3. BaseInv(c)
  <2>1. FlagsMatchQueues(c)
    BY <1>1 DEF BaseType, BaseInv, FlagsMatchQueues
  <2>2. TableInserted(c)
    BY <1>1, EventsAssumption DEF BaseType, BaseInv, TableInserted
  <2>3. ActiveAlone(c)
    BY <1>1 DEF BaseType, BaseInv, ActiveAlone
  <2> QED
    BY <2>1, <2>2, <2>3 DEF BaseInv
<1>4. Agrees(c)
  BY <1>2, SameEpollAgrees
<1>5. PICK d : d = event_del(c, e)
  OBVIOUS
<1>6. /\ Keeps(c, d, e) /\ d.flags[e] = {} /\ Agrees(d)
      /\ d.fd = c.fd /\ d.eventqueue \subseteq c.eventqueue
  BY <1>2, <1>3, <1>4, <1>5, EventDelKeeps, EventDelAgrees
<1>7. PICK g : g = event_active(d, e, "TIMEOUT")
  OBVIOUS
<1>8. /\ Keeps(d, g, e) /\ g.flags[e] = d.flags[e] \cup {"ACTIVE"}
      /\ SameEpoll(d, g) /\ Agrees(g)
  BY <1>6, <1>7, EventActiveKeeps, ActiveAgrees DEF Keeps, Results
<1>9. timeout_expire(b, e) = g
  BY <1>1, <1>5, <1>7 DEF timeout_expire
<1> QED
  BY <1>2, <1>6, <1>8, <1>9 DEF Keeps, SameEpoll, Calm

-----------------------------------------------------------------------------
(* The server. *)

EventsOf(s) == {ReadEv[s], WriteEv[s], TimeEv[s]}

(* The events of a session that is not allocated are on no queue.            *)
Unlinked == \A s \in Sessions \ alive : \A e \in EventsOf(s) : base.flags[e] = {}

(* A write event may be linked only while mWriting says so: this is what     *)
(* lets addEvent call event_set.                                             *)
NotWriting == \A s \in Sessions : session[s].writing = 0 => base.flags[WriteEv[s]] = {}

IInv == TypeOK /\ BaseInv(base) /\ Unlinked /\ NotWriting

-----------------------------------------------------------------------------
(* The events of the sessions and the accept event are different objects.    *)

(* The events of a session are three, and no other session has them.         *)
LEMMA EventsApart ==
  /\ OneWay
  /\ AcceptEv \in Events
  /\ \A e \in Events : "PERSIST" \in What[e] => e = AcceptEv
  /\ \A s \in Sessions :
       /\ ReadEv[s] \in Events /\ WriteEv[s] \in Events /\ TimeEv[s] \in Events
       /\ ReadEv[s] # WriteEv[s] /\ ReadEv[s] # TimeEv[s] /\ WriteEv[s] # TimeEv[s]
       /\ AcceptEv \notin EventsOf(s)
       /\ \A u \in Sessions \ {s} : EventsOf(s) \cap EventsOf(u) = {}
<1>1. \A s \in Sessions :
        ReadEv[s] \in Events /\ WriteEv[s] \in Events /\ TimeEv[s] \in Events
  BY EventCallAssumption
<1>2. \A s \in Sessions : \A e \in EventsOf(s) :
        Owner[e] = s /\ "PERSIST" \notin What[e] /\ ~("READ" \in What[e] /\ "WRITE" \in What[e])
  BY EventCallAssumption DEF EventsOf
<1>3. "PERSIST" \in What[AcceptEv] /\ "WRITE" \notin What[AcceptEv] /\ AcceptEv \in Events
  BY EventCallAssumption
<1>4. \A e \in Events \ {AcceptEv} : \E s \in Sessions : e \in EventsOf(s)
  BY EventCallAssumption DEF EventsOf
<1>5. \A s \in Sessions : ReadEv[s] # WriteEv[s] /\ ReadEv[s] # TimeEv[s] /\ WriteEv[s] # TimeEv[s]
  BY EventCallAssumption
<1>6. OneWay
  BY <1>2, <1>3, <1>4 DEF OneWay
<1>7. \A e \in Events : "PERSIST" \in What[e] => e = AcceptEv
  BY <1>2, <1>4
<1>8. \A s \in Sessions : AcceptEv \notin EventsOf(s)
  BY <1>2, <1>3
<1>9. \A s \in Sessions : \A u \in Sessions \ {s} : EventsOf(s) \cap EventsOf(u) = {}
  BY <1>2
<1> QED
  BY <1>1, <1>3, <1>5, <1>6, <1>7, <1>8, <1>9

(* SessionManager keeps the types of its table.                              *)
LEMMA KeyType == \A f \in Fds : KeyOf(f) \in Keys
BY EventCallAssumption, ManagerAssumption DEF KeyOf, Keys

(* The row of an entry is a row of the manager's table.                     *)
LEMMA RowType == \A k \in Keys : RowOf(k) \in Rows
<1> SUFFICES ASSUME NEW k \in Keys PROVE RowOf(k) \in Rows
  OBVIOUS
<1>1. k \in Nat /\ k <= KeySpace - 1 /\ KeySpace - 1 \in Nat /\ RowSize \in Nat /\ RowSize > 0
  BY ManagerAssumption DEF Keys
<1>2. k \div RowSize \in Nat /\ k \div RowSize <= (KeySpace - 1) \div RowSize
  BY <1>1
<1>3. (KeySpace - 1) \div RowSize \in Nat
  BY <1>1
<1> QED
  BY <1>2, <1>3 DEF RowOf, Rows

(* SessionManager::put keeps the types of the manager.                       *)
LEMMA PutType ==
  ASSUME NEW m \in ManagerType, NEW k \in Keys, NEW s \in Sessions
  PROVE  put(m, k, s) \in ManagerType /\ get_seq(m, k) \in 0..(SeqMod - 1)
<1>1. RowOf(k) \in Rows
  BY RowType
<1>2. m.rows \cup {RowOf(k)} \in SUBSET Rows /\ m.count + 1 \in Int
  BY <1>1 DEF ManagerType
<1>3. [m.session EXCEPT ![k] = s] \in [Keys -> Sessions \cup {NoSession}]
  BY DEF ManagerType
<1>4. get_seq(m, k) \in 0..(SeqMod - 1)
  BY ManagerAssumption DEF get_seq, ManagerType
<1> QED
  BY <1>2, <1>3, <1>4 DEF put, ManagerType

(* SessionManager::remove keeps the types of the manager: its counter is    *)
(* decremented only where an entry is taken away.                            *)
LEMMA RemoveType ==
  ASSUME NEW m \in ManagerType, NEW k
  PROVE  remove(m, k) \in ManagerType
<1>1. \A n \in 0..(SeqMod - 1) : (n + 1) % SeqMod \in 0..(SeqMod - 1)
  BY ManagerAssumption
<1>2. m.seq \in [Keys -> 0..(SeqMod - 1)]
  BY DEF ManagerType
<1>3. [m.seq EXCEPT ![k] = (@ + 1) % SeqMod] \in [Keys -> 0..(SeqMod - 1)]
  BY <1>1, <1>2
<1>4. [m.session EXCEPT ![k] = NoSession] \in [Keys -> Sessions \cup {NoSession}]
  BY DEF ManagerType
<1>5. m.count - 1 \in Int
  BY DEF ManagerType
<1> QED
  BY <1>3, <1>4, <1>5 DEF remove, ManagerType

-----------------------------------------------------------------------------
(* The calls of a callback *)

(* addEvent on the read event, behind mReading, keeps the base consistent    *)
(* and links no other event.                                                 *)
LEMMA AddReadKeeps ==
  ASSUME NEW b \in BaseType, NEW s \in Sessions, NEW reading \in {0, 1},
         NEW f \in Fds \cup {NoFd}, BaseInv(b), reading = 0 => b.flags[ReadEv[s]] = {}
  PROVE  Keeps(b, addRead(b, s, reading, f), ReadEv[s])
<1>1. ReadEv[s] \in Events /\ OneWay
  BY EventsApart
<1>2. CASE reading = 0
  <2>1. PICK c : c = event_set(b, ReadEv[s], f)
    OBVIOUS
  <2>2. Keeps(b, c, ReadEv[s]) /\ c.flags[ReadEv[s]] = {}
    BY <1>1, <1>2, <2>1, EventSetKeeps
  <2>3. Keeps(c, event_add(c, ReadEv[s], TRUE), ReadEv[s])
    BY <1>1, <2>2, EventAddKeeps DEF Keeps
  <2>4. addRead(b, s, reading, f) = event_add(c, ReadEv[s], TRUE)
    BY <1>2, <2>1 DEF addRead
  <2> QED
    BY <2>2, <2>3, <2>4 DEF Keeps
<1>3. CASE reading = 1
  BY <1>3 DEF addRead, Keeps
<1> QED
  BY <1>2, <1>3

(* The same for the write event, behind mWriting.                            *)
LEMMA AddWriteKeeps ==
  ASSUME NEW b \in BaseType, NEW s \in Sessions, NEW writing \in {0, 1},
         NEW f \in Fds \cup {NoFd}, BaseInv(b), writing = 0 => b.flags[WriteEv[s]] = {}
  PROVE  Keeps(b, addWrite(b, s, writing, f), WriteEv[s])
<1>1. WriteEv[s] \in Events /\ OneWay
  BY EventsApart
<1>2. CASE writing = 0
  <2>1. PICK c : c = event_set(b, WriteEv[s], f)
    OBVIOUS
  <2>2. Keeps(b, c, WriteEv[s]) /\ c.flags[WriteEv[s]] = {}
    BY <1>1, <1>2, <2>1, EventSetKeeps
  <2>3. Keeps(c, event_add(c, WriteEv[s], TRUE), WriteEv[s])
    BY <1>1, <2>2, EventAddKeeps DEF Keeps
  <2>4. addWrite(b, s, writing, f) = event_add(c, WriteEv[s], TRUE)
    BY <1>2, <2>1 DEF addWrite
  <2> QED
    BY <2>2, <2>3, <2>4 DEF Keeps
<1>3. CASE writing = 1
  BY <1>3 DEF addWrite, Keeps
<1> QED
  BY <1>2, <1>3

(* c is a good base that differs from b in the queues of s's events at most. *)
KeepsBut(b, c, s) ==
  /\ c \in BaseType
  /\ BaseInv(c)
  /\ \A x \in Events \ EventsOf(s) : c.flags[x] = b.flags[x]

(* The end of a connection takes every event of the session off the base.    *)
LEMMA CloseKeeps ==
  ASSUME NEW b \in BaseType, NEW s \in Sessions, NEW f, BaseInv(b)
  PROVE  /\ KeepsBut(b, CloseFd(FreeEvents(Teardown(b, s), s), f), s)
         /\ \A e \in EventsOf(s) : CloseFd(FreeEvents(Teardown(b, s), s), f).flags[e] = {}
<1>1. /\ ReadEv[s] \in Events /\ WriteEv[s] \in Events /\ TimeEv[s] \in Events /\ OneWay
      /\ ReadEv[s] # WriteEv[s] /\ ReadEv[s] # TimeEv[s] /\ WriteEv[s] # TimeEv[s]
  BY EventsApart
<1>2. PICK c1 : c1 = event_del(b, ReadEv[s])
  OBVIOUS
<1>3. PICK c2 : c2 = event_del(c1, WriteEv[s])
  OBVIOUS
<1>4. PICK c3 : c3 = event_del(c2, TimeEv[s])
  OBVIOUS
<1>5. Keeps(b, c1, ReadEv[s]) /\ c1.flags[ReadEv[s]] = {}
  BY <1>1, <1>2, EventDelKeeps
<1>6. Keeps(c1, c2, WriteEv[s]) /\ c2.flags[WriteEv[s]] = {}
  <2>1. c1 \in BaseType /\ BaseInv(c1)
    BY <1>5 DEF Keeps
  <2> QED
    BY <1>1, <1>3, <2>1, EventDelKeeps
<1>7. Keeps(c2, c3, TimeEv[s]) /\ c3.flags[TimeEv[s]] = {}
  <2>1. c2 \in BaseType /\ BaseInv(c2)
    BY <1>6 DEF Keeps
  <2> QED
    BY <1>1, <1>4, <2>1, EventDelKeeps
<1>8. /\ KeepsBut(b, c3, s)
      /\ c3.flags[ReadEv[s]] = {} /\ c3.flags[WriteEv[s]] = {} /\ c3.flags[TimeEv[s]] = {}
  BY <1>1, <1>5, <1>6, <1>7 DEF Keeps, KeepsBut, EventsOf
<1>9. PICK d1 : d1 = Free(c3, ReadEv[s])
  OBVIOUS
<1>10. PICK d2 : d2 = Free(d1, WriteEv[s])
  OBVIOUS
<1>11. PICK d3 : d3 = Free(d2, TimeEv[s])
  OBVIOUS
<1>12. d1 \in BaseType /\ BaseInv(d1) /\ d1.flags = c3.flags
  BY <1>1, <1>8, <1>9, FreeKeeps DEF Keeps, KeepsBut
<1>13. d2 \in BaseType /\ BaseInv(d2) /\ d2.flags = c3.flags
  BY <1>1, <1>8, <1>10, <1>12, FreeKeeps DEF Keeps
<1>14. d3 \in BaseType /\ BaseInv(d3) /\ d3.flags = c3.flags
  BY <1>1, <1>8, <1>11, <1>13, FreeKeeps DEF Keeps
<1>15. PICK g : g = CloseFd(d3, f)
  OBVIOUS
<1>16. g \in BaseType /\ BaseInv(g) /\ g.flags = c3.flags
  BY <1>14, <1>15, CloseFdKeeps
<1>17. g = CloseFd(FreeEvents(Teardown(b, s), s), f)
  BY <1>2, <1>3, <1>4, <1>9, <1>10, <1>11, <1>15 DEF FreeEvents, Teardown
<1> QED
  BY <1>8, <1>16, <1>17 DEF KeepsBut, EventsOf

-----------------------------------------------------------------------------
(* What a step has to show *)

(* A step of the loop links no event; sessions are left alone.               *)
LEMMA LoopFrame ==
  ASSUME IInv, TypeOK', LinksNoMore(base, base'), UNCHANGED <<alive, session>>
  PROVE  IInv'
<1>1. \A s \in Sessions : EventsOf(s) \subseteq Events /\ WriteEv[s] \in EventsOf(s)
  BY EventsApart DEF EventsOf
<1> QED
  BY <1>1 DEF IInv, LinksNoMore, Unlinked, NotWriting

(* A callback of s touches the events of s and of no other session.          *)
LEMMA SessionFrame ==
  ASSUME IInv, TypeOK', NEW s \in Sessions, KeepsBut(base, base', s),
         \A u \in Sessions \ {s} : /\ u \in alive' <=> u \in alive
                                  /\ session'[u].writing = session[u].writing,
         s \notin alive' => \A e \in EventsOf(s) : base'.flags[e] = {},
         session'[s].writing = 0 => base'.flags[WriteEv[s]] = {}
  PROVE  IInv'
<1>1. \A u \in Sessions \ {s} : /\ EventsOf(u) \subseteq Events \ EventsOf(s)
                               /\ WriteEv[u] \in EventsOf(u)
  BY EventsApart DEF EventsOf
<1>2. Unlinked'
  BY <1>1 DEF IInv, KeepsBut, Unlinked
<1>3. NotWriting'
  BY <1>1 DEF IInv, KeepsBut, NotWriting
<1> QED
  BY <1>2, <1>3 DEF IInv, KeepsBut

(* An event that is called back belongs to a session that is allocated, and  *)
(* once it is taken off the active queue it is on no queue.                  *)
LEMMA CalledBack ==
  ASSUME IInv, NEW s \in Sessions, NEW e \in EventsOf(s), Callback(e)
  PROVE  /\ s \in alive
         /\ KeepsBut(base, Dequeue(base, e), s)
         /\ Dequeue(base, e).flags[e] = {}
         /\ \A x \in Events \ {e} : Dequeue(base, e).flags[x] = base.flags[x]
<1>1. e \in Events /\ "PERSIST" \notin What[e] /\ base \in BaseType /\ BaseInv(base)
  BY EventsApart DEF EventsOf, IInv, TypeOK
<1>2. base.flags[e] = {"ACTIVE"}
  BY <1>1 DEF Callback, BaseInv, FlagsMatchQueues, ActiveAlone
<1>3. s \in alive
  BY <1>2 DEF IInv, Unlinked
<1>4. Keeps(base, Dequeue(base, e), e) /\ Dequeue(base, e).flags[e] = {}
  BY <1>1, <1>2, DequeueKeeps
<1> QED
  BY <1>3, <1>4 DEF Keeps, KeepsBut

-----------------------------------------------------------------------------
(* Initially only the accept event is linked. *)

(* The server starts with the accept event alone on its base.               *)
LEMMA IInvInit == Init => IInv
<1> SUFFICES ASSUME Init PROVE IInv
  OBVIOUS
<1>1. PICK b : b = event_set(EmptyBase, AcceptEv, ListenFd)
  OBVIOUS
<1>2. EmptyBase \in BaseType /\ BaseInv(EmptyBase) /\ EmptyBase.flags[AcceptEv] = {}
  BY EventsAssumption, EventsApart DEF EmptyBase, BaseType, BaseInv, FlagsMatchQueues,
     TableInserted, ActiveAlone
<1>3. Keeps(EmptyBase, b, AcceptEv) /\ b.flags[AcceptEv] = {}
  BY <1>1, <1>2, EventSetKeeps, EventsApart, EventCallAssumption
<1>4. base = event_add(b, AcceptEv, FALSE)
  BY <1>1 DEF Init
<1>5. b \in BaseType /\ BaseInv(b) /\ AcceptEv \in Events /\ OneWay
  BY <1>3, EventsApart DEF Keeps
<1>6. Keeps(b, base, AcceptEv)
  BY <1>3, <1>4, <1>5, EventAddKeeps
<1>7. \A s \in Sessions : \A e \in EventsOf(s) : base.flags[e] = {}
  <2>1. \A s \in Sessions : EventsOf(s) \subseteq Events \ {AcceptEv}
    BY EventsApart DEF EventsOf
  <2>2. \A e \in Events \ {AcceptEv} : EmptyBase.flags[e] = {}
    BY DEF EmptyBase
  <2> QED
    BY <1>3, <1>6, <2>1, <2>2 DEF Keeps
<1>8. TypeOK
  <2>1. base \in BaseType
    BY <1>6 DEF Keeps
  <2>2. EmptyManager \in ManagerType
    BY ManagerAssumption DEF EmptyManager, ManagerType
  <2>3. NewSession \in SessionType
    BY ManagerAssumption DEF NewSession, SessionType, Tasks
  <2>4. net \in NetType
    BY EventCallAssumption DEF Init, NetType
  <2> QED
    BY <2>1, <2>2, <2>3, <2>4 DEF Init, TypeOK, NoBatch
<1> QED
  BY <1>6, <1>7, <1>8 DEF IInv, Keeps, Unlinked, NotWriting, EventsOf

(* Clients and the kernel touch the sockets only.                            *)
LEMMA IInvClients == IInv /\ Clients => IInv'
<1> SUFFICES ASSUME IInv, Clients PROVE IInv'
  OBVIOUS
<1>1. UNCHANGED <<base, phase, batch, alive, session, manager>>
  BY DEF Clients, Connect, ClientSend, ClientClose, ClientDrain
<1>2. net' \in NetType
  <2>1. net \in NetType /\ Msgs \subseteq MsgKinds /\ MaxBacklog \in Nat
    BY EventCallAssumption DEF IInv, TypeOK
  <2>2. CASE Connect
    <3>1. net.backlog + 1 \in 0..MaxBacklog
      BY <2>1, <2>2 DEF Connect, NetType
    <3> QED
      BY <2>1, <2>2, <3>1 DEF Connect, NetType
  <2>3. ASSUME NEW f \in Fds, NEW m \in Msgs, ClientSend(f, m) PROVE net' \in NetType
    BY <2>1, <2>3 DEF ClientSend, NetType
  <2>4. ASSUME NEW f \in Fds, ClientClose(f) \/ ClientDrain(f) PROVE net' \in NetType
    <3>1. [net.eof EXCEPT ![f] = TRUE] \in [Fds -> BOOLEAN]
      BY <2>1, Zenon DEF NetType
    <3>2. [net.full EXCEPT ![f] = FALSE] \in [Fds -> BOOLEAN]
      BY <2>1, Zenon DEF NetType
    <3> QED
      BY <2>1, <2>4, <3>1, <3>2 DEF ClientClose, ClientDrain, NetType
  <2> QED
    BY <2>2, <2>3, <2>4 DEF Clients
<1> QED
  BY <1>1, <1>2 DEF IInv, TypeOK, Unlinked, NotWriting

-----------------------------------------------------------------------------
(* The steps of the loop *)

(* The steps of event_base_loop between two callbacks keep the invariant.   *)
LEMMA IInvLoop ==
  ASSUME IInv,
         \/ EpollWait
         \/ \E f \in Fds : Report(f)
         \/ ReportDone
         \/ \E e \in Events : Expire(e)
         \/ ExpireDone
         \/ ActiveDone
  PROVE  IInv'
<1> USE DEF IInv
<1>1. base \in BaseType /\ BaseInv(base) /\ OneWay
  BY EventsApart DEF TypeOK
<1>2. LinksNoMore(base, base)
  BY <1>1 DEF LinksNoMore
<1>3. CASE EpollWait
  <2>1. batch' \in [Fds -> SUBSET Interests]
    BY <1>1, <1>3 DEF EpollWait, BaseType, Interests
  <2>2. TypeOK'
    BY <1>3, <2>1 DEF EpollWait, TypeOK
  <2> QED
    BY <1>2, <1>3, <2>2, LoopFrame DEF EpollWait
<1>4. ASSUME NEW f \in Fds, Report(f) PROVE IInv'
  <2>1. LinksNoMore(base, base')
    BY <1>1, <1>4, EpollReportKeeps DEF Report
  <2>2. TypeOK'
    BY <1>4, <2>1 DEF Report, TypeOK, LinksNoMore
  <2> QED
    BY <1>4, <2>1, <2>2, LoopFrame DEF Report
<1>5. ASSUME NEW e \in Events, Expire(e) PROVE IInv'
  <2>1. LinksNoMore(base, base')
    BY <1>1, <1>5, TimeoutExpireKeeps DEF Expire
  <2>2. TypeOK'
    BY <1>5, <2>1 DEF Expire, TypeOK, LinksNoMore
  <2> QED
    BY <1>5, <2>1, <2>2, LoopFrame DEF Expire
<1>6. CASE ReportDone \/ ExpireDone \/ ActiveDone
  <2>1. TypeOK'
    BY <1>6 DEF ReportDone, ExpireDone, ActiveDone, TypeOK
  <2> QED
    BY <1>2, <1>6, <2>1, LoopFrame DEF ReportDone, ExpireDone, ActiveDone
<1> QED
  BY <1>3, <1>4, <1>5, <1>6

-----------------------------------------------------------------------------
(* The callbacks *)

(* So does an accept that fails.                                            *)
LEMMA IInvAcceptFails == IInv /\ AcceptFails => IInv'
<1> SUFFICES ASSUME IInv, AcceptFails PROVE IInv'
  OBVIOUS
<1>1. base \in BaseType /\ BaseInv(base) /\ AcceptEv \in Events
  BY EventsApart DEF IInv, TypeOK
<1>2. LinksNoMore(base, base')
  BY <1>1, DequeueKeeps DEF AcceptFails, Keeps, LinksNoMore
<1>3. TypeOK'
  BY <1>2 DEF AcceptFails, IInv, TypeOK, LinksNoMore
<1> QED
  BY <1>2, <1>3, LoopFrame DEF AcceptFails

(* A new session's events are on no queue, so they may be set and added.     *)
LEMMA StartKeeps ==
  ASSUME NEW b \in BaseType, NEW s \in Sessions, NEW f \in Fds, BaseInv(b),
         \A e \in EventsOf(s) : b.flags[e] = {}
  PROVE  KeepsBut(b, StartSession(b, s, f), s) /\ StartSession(b, s, f).flags[WriteEv[s]] = {}
<1>1. /\ ReadEv[s] \in Events /\ WriteEv[s] \in Events /\ TimeEv[s] \in Events /\ OneWay
      /\ ReadEv[s] # WriteEv[s] /\ ReadEv[s] # TimeEv[s] /\ WriteEv[s] # TimeEv[s]
  BY EventsApart
<1>2. PICK c1 : c1 = event_set(b, ReadEv[s], f)
  OBVIOUS
<1>3. PICK c2 : c2 = event_set(c1, WriteEv[s], f)
  OBVIOUS
<1>4. PICK c3 : c3 = addRead(c2, s, 0, f)
  OBVIOUS
<1>5. PICK c4 : c4 = event_set(c3, TimeEv[s], NoFd)
  OBVIOUS
<1>6. PICK c5 : c5 = event_add(c4, TimeEv[s], TRUE)
  OBVIOUS
<1>7. Keeps(b, c1, ReadEv[s]) /\ c1.flags[ReadEv[s]] = {}
  BY <1>1, <1>2, EventSetKeeps DEF EventsOf
<1>8. c1 \in BaseType /\ BaseInv(c1) /\ c1.flags[WriteEv[s]] = {} /\ c1.flags[TimeEv[s]] = {}
  BY <1>1, <1>7 DEF Keeps, EventsOf
<1>9. Keeps(c1, c2, WriteEv[s]) /\ c2.flags[WriteEv[s]] = {}
  BY <1>1, <1>3, <1>8, EventSetKeeps
<1>10. c2 \in BaseType /\ BaseInv(c2) /\ c2.flags[ReadEv[s]] = {} /\ c2.flags[TimeEv[s]] = {}
  BY <1>1, <1>7, <1>8, <1>9 DEF Keeps
<1>11. Keeps(c2, c3, ReadEv[s])
  BY <1>4, <1>10, AddReadKeeps
<1>12. c3 \in BaseType /\ BaseInv(c3) /\ c3.flags[WriteEv[s]] = {} /\ c3.flags[TimeEv[s]] = {}
  BY <1>1, <1>9, <1>10, <1>11 DEF Keeps
<1>13. Keeps(c3, c4, TimeEv[s]) /\ c4.flags[TimeEv[s]] = {}
  BY <1>1, <1>5, <1>12, EventSetKeeps
<1>14. c4 \in BaseType /\ BaseInv(c4) /\ "ACTIVE" \notin c4.flags[TimeEv[s]]
  BY <1>13 DEF Keeps
<1>15. Keeps(c4, c5, TimeEv[s])
  BY <1>1, <1>6, <1>14, EventAddKeeps
<1>16. c5 = StartSession(b, s, f)
  BY <1>2, <1>3, <1>4, <1>5, <1>6 DEF StartSession
<1>17. c5.flags[WriteEv[s]] = {}
  BY <1>1, <1>12, <1>13, <1>15 DEF Keeps
<1>18. KeepsBut(b, c5, s)
  BY <1>7, <1>9, <1>11, <1>13, <1>15 DEF Keeps, KeepsBut, EventsOf
<1> QED
  BY <1>16, <1>17, <1>18

(* onAccept keeps the invariant.                                            *)
LEMMA IInvAccept ==
  ASSUME IInv, NEW s \in Sessions, NEW f \in Fds, onAccept(s, f)
  PROVE  IInv'
<1> USE DEF IInv
<1>1. base \in BaseType /\ BaseInv(base) /\ AcceptEv \in Events
  BY EventsApart DEF TypeOK
<1>2. PICK d : d = Dequeue(base, AcceptEv)
  OBVIOUS
<1>3. PICK b : b = StartSession(d, s, f)
  OBVIOUS
<1>4. Keeps(base, d, AcceptEv)
  BY <1>1, <1>2, DequeueKeeps
<1>5. d \in BaseType /\ BaseInv(d) /\ \A e \in EventsOf(s) : d.flags[e] = {}
  <2>1. s \notin alive /\ EventsOf(s) \subseteq Events \ {AcceptEv}
    BY EventsApart DEF onAccept, EventsOf
  <2> QED
    BY <1>4, <2>1 DEF Keeps, Unlinked
<1>6. KeepsBut(d, b, s) /\ b.flags[WriteEv[s]] = {}
  BY <1>3, <1>5, StartKeeps
<1>7. Keeps(b, addWrite(b, s, 0, f), WriteEv[s])
  BY <1>6, AddWriteKeeps DEF KeepsBut
<1>8. /\ KeepsBut(d, base', s)
      /\ session'[s].writing = 0 => base'.flags[WriteEv[s]] = {}
  <2>1. session'[s].writing = IF put(manager, KeyOf(f), s).count > MaxConnections THEN 1 ELSE 0
    BY DEF onAccept, TypeOK
  <2>2. base' = IF put(manager, KeyOf(f), s).count > MaxConnections
                THEN addWrite(b, s, 0, f) ELSE b
    BY <1>2, <1>3 DEF onAccept
  <2> QED
    BY <1>6, <1>7, <2>1, <2>2 DEF Keeps, KeepsBut, EventsOf
<1>9. TypeOK'
  <2>1. KeyOf(f) \in Keys /\ manager \in ManagerType
    BY KeyType DEF TypeOK
  <2>2. manager' \in ManagerType /\ get_seq(manager, KeyOf(f)) \in 0..(SeqMod - 1)
    BY <2>1, PutType DEF onAccept
  <2>3. session' \in [Sessions -> SessionType]
    BY <2>2 DEF onAccept, TypeOK, SessionType, Tasks
  <2>4. net' \in NetType
    <3>1. net \in NetType /\ MaxBacklog \in Nat
      BY EventCallAssumption DEF TypeOK
    <3>2. net.backlog - 1 \in 0..MaxBacklog
      BY <3>1 DEF onAccept, NetType
    <3> QED
      BY <3>1, <3>2 DEF onAccept, NetType
  <2>5. alive' \in SUBSET Sessions /\ UNCHANGED <<phase, batch>>
    BY DEF onAccept, TypeOK
  <2> QED
    BY <1>8, <2>2, <2>3, <2>4, <2>5 DEF TypeOK, KeepsBut
<1>10. \A u \in Sessions \ {s} : \A e \in EventsOf(u) : base'.flags[e] = base.flags[e]
  <2>1. \A u \in Sessions \ {s} : EventsOf(u) \subseteq Events \ (EventsOf(s) \cup {AcceptEv})
    BY EventsApart DEF EventsOf
  <2> QED
    BY <1>4, <1>8, <2>1 DEF Keeps, KeepsBut
<1>11. alive' = alive \cup {s} /\ \A u \in Sessions \ {s} : session'[u] = session[u]
  BY DEF onAccept, TypeOK
<1>12. Unlinked'
  BY <1>10, <1>11 DEF Unlinked
<1>13. NotWriting'
  BY <1>8, <1>10, <1>11, EventsApart DEF NotWriting, EventsOf
<1> QED
  BY <1>8, <1>9, <1>12, <1>13 DEF KeepsBut

(* The end of a connection.                                                  *)
LEMMA IInvClose ==
  ASSUME IInv, NEW s \in Sessions, NEW e \in EventsOf(s), NEW f, Callback(e),
         CloseSession(Dequeue(base, e), s, f)
  PROVE  IInv'
<1>1. PICK d : d = Dequeue(base, e)
  OBVIOUS
<1>2. KeepsBut(base, d, s)
  BY <1>1, CalledBack
<1>3. KeepsBut(d, base', s) /\ \A x \in EventsOf(s) : base'.flags[x] = {}
  BY <1>1, <1>2, CloseKeeps DEF CloseSession, KeepsBut
<1>4. KeepsBut(base, base', s)
  BY <1>2, <1>3 DEF KeepsBut
<1>5. TypeOK'
  <2>1. manager' \in ManagerType
    BY RemoveType DEF CloseSession, IInv, TypeOK
  <2>2. NewSession \in SessionType
    BY ManagerAssumption DEF NewSession, SessionType, Tasks
  <2>3. session' \in [Sessions -> SessionType] /\ alive' \in SUBSET Sessions
    BY <2>2 DEF CloseSession, IInv, TypeOK
  <2>4. net' \in NetType
    <3>1. net \in NetType
      BY DEF IInv, TypeOK
    <3>2. /\ [net.eof EXCEPT ![f] = FALSE] \in [Fds -> BOOLEAN]
          /\ [net.full EXCEPT ![f] = FALSE] \in [Fds -> BOOLEAN]
      BY <3>1, Zenon DEF NetType
    <3>3. [net.inbox EXCEPT ![f] = "none"] \in [Fds -> MsgKinds \cup {"none"}]
      BY <3>1 DEF NetType
    <3> QED
      BY <3>1, <3>2, <3>3 DEF CloseSession, NetType
  <2> QED
    BY <1>4, <2>1, <2>3, <2>4 DEF CloseSession, IInv, TypeOK, KeepsBut
<1>6. alive' = alive \ {s} /\ \A u \in Sessions \ {s} : session'[u] = session[u]
  BY DEF CloseSession, IInv, TypeOK
<1>7. WriteEv[s] \in EventsOf(s)
  BY DEF EventsOf
<1> QED
  BY <1>3, <1>4, <1>5, <1>6, <1>7, SessionFrame

(* onRead, when the connection goes on, keeps the invariant.                *)
LEMMA IInvReadMore ==
  ASSUME IInv, NEW s \in Sessions, ReadMore(s)
  PROVE  IInv'
<1>1. PICK f : f = base.fd[ReadEv[s]]
  OBVIOUS
<1>2. PICK m : m = IF "READ" \in base.res[ReadEv[s]] THEN net.inbox[f] ELSE "none"
  OBVIOUS
<1>3. PICK d : d = Dequeue(base, ReadEv[s])
  OBVIOUS
<1>4. PICK starts : starts = (m = "start" /\ session[s].task # "none")
  OBVIOUS
<1>5. PICK c : c = IF starts THEN addWrite(d, s, session[s].writing, EventFd(d, s)) ELSE d
  OBVIOUS
<1>6. /\ ReadEv[s] \in EventsOf(s) /\ WriteEv[s] \in EventsOf(s)
      /\ ReadEv[s] # WriteEv[s] /\ WriteEv[s] \in Events /\ ReadEv[s] \in Events
  BY EventsApart DEF EventsOf
<1>7. f \in Fds \cup {NoFd} /\ session[s] \in SessionType
  BY <1>1, <1>6 DEF IInv, TypeOK, BaseType
<1>8. /\ s \in alive /\ KeepsBut(base, d, s) /\ d.flags[ReadEv[s]] = {}
      /\ d.flags[WriteEv[s]] = base.flags[WriteEv[s]]
  BY <1>3, <1>6, CalledBack DEF ReadMore
<1>9. d \in BaseType /\ BaseInv(d) /\ EventFd(d, s) \in Fds \cup {NoFd}
  BY <1>6, <1>8 DEF KeepsBut, BaseType, EventFd
<1>10. session[s].writing \in {0, 1} /\ (session[s].writing = 0 => d.flags[WriteEv[s]] = {})
  BY <1>7, <1>8 DEF SessionType, IInv, NotWriting
<1>11. Keeps(d, c, WriteEv[s])
  <2>1. CASE starts
    BY <1>5, <1>9, <1>10, <2>1, AddWriteKeeps
  <2>2. CASE ~starts
    BY <1>5, <1>9, <2>2 DEF Keeps
  <2> QED
    BY <1>4, <2>1, <2>2
<1>12. c \in BaseType /\ BaseInv(c) /\ c.flags[ReadEv[s]] = {}
  BY <1>6, <1>8, <1>11 DEF Keeps
<1>13. base' = addRead(c, s, 0, f)
  BY <1>1, <1>2, <1>3, <1>4, <1>5 DEF ReadMore
<1>14. Keeps(c, base', ReadEv[s])
  BY <1>7, <1>12, <1>13, AddReadKeeps
<1>15. KeepsBut(base, base', s)
  BY <1>6, <1>8, <1>11, <1>14 DEF Keeps, KeepsBut
<1>16. session' = [session EXCEPT ![s].reading = 1,
                                  ![s].writing = IF starts THEN 1 ELSE @,
                                  ![s].task    = readTask(s, m)]
  BY <1>1, <1>2, <1>4 DEF ReadMore
<1>17. TypeOK'
  <2>1. readTask(s, m) \in Tasks
    BY <1>7 DEF readTask, SessionType, Tasks
  <2>2. session' \in [Sessions -> SessionType]
    BY <1>7, <1>16, <2>1 DEF IInv, TypeOK, SessionType
  <2>3. PICK full \in BOOLEAN \cup {net.full[f]} :
          net' = [net EXCEPT !.inbox[f] = IF m = "none" THEN @ ELSE "none", !.full[f] = full]
    BY <1>1, <1>2 DEF ReadMore
  <2>4. net' \in NetType
    <3>1. net \in NetType
      BY DEF IInv, TypeOK
    <3>2. f \in Fds => full \in BOOLEAN
      BY <2>3, <3>1 DEF NetType
    <3>3. [net.full EXCEPT ![f] = full] \in [Fds -> BOOLEAN]
      BY <3>1, <3>2, Zenon DEF NetType
    <3>4. [net.inbox EXCEPT ![f] = IF m = "none" THEN @ ELSE "none"]
            \in [Fds -> MsgKinds \cup {"none"}]
      BY <3>1 DEF NetType
    <3> QED
      BY <2>3, <3>1, <3>3, <3>4 DEF NetType
  <2> QED
    BY <1>15, <2>2, <2>4 DEF ReadMore, IInv, TypeOK, KeepsBut
<1>18. session'[s].writing = 0 => base'.flags[WriteEv[s]] = {}
  <2>1. CASE starts
    BY <1>16, <2>1 DEF IInv, TypeOK
  <2>2. CASE ~starts
    BY <1>4, <1>5, <1>6, <1>10, <1>14, <1>16, <2>2 DEF Keeps, IInv, TypeOK
  <2> QED
    BY <1>4, <2>1, <2>2
<1>19. alive' = alive /\ \A u \in Sessions \ {s} : session'[u] = session[u]
  BY <1>16 DEF ReadMore, IInv, TypeOK
<1> QED
  BY <1>8, <1>15, <1>17, <1>18, <1>19, SessionFrame

(* onWrite, when the write event is not armed again, keeps the invariant.   *)
LEMMA IInvWriteStop ==
  ASSUME IInv, NEW s \in Sessions, WriteStop(s)
  PROVE  IInv'
<1>1. WriteEv[s] \in EventsOf(s)
  BY DEF EventsOf
<1>2. s \in alive /\ KeepsBut(base, base', s) /\ base'.flags[WriteEv[s]] = {}
  BY <1>1, CalledBack DEF WriteStop
<1>3. TypeOK'
  <2>1. session' \in [Sessions -> SessionType]
    BY DEF WriteStop, IInv, TypeOK, SessionType
  <2> QED
    BY <1>2, <2>1 DEF WriteStop, IInv, TypeOK, KeepsBut
<1>4. alive' = alive /\ \A u \in Sessions \ {s} : session'[u] = session[u]
  BY DEF WriteStop, IInv, TypeOK
<1> QED
  BY <1>2, <1>3, <1>4, SessionFrame

(* A part was sent, or sending failed: the write event is armed again.       *)
LEMMA IInvRearm ==
  ASSUME IInv, NEW s \in Sessions, WriteMore(s) \/ WriteFails(s)
  PROVE  IInv'
<1>1. PICK f : f = base.fd[WriteEv[s]]
  OBVIOUS
<1>2. PICK d : d = Dequeue(base, WriteEv[s])
  OBVIOUS
<1>3. WriteEv[s] \in EventsOf(s) /\ WriteEv[s] \in Events
  BY EventsApart DEF EventsOf
<1>4. f \in Fds \cup {NoFd}
  BY <1>1, <1>3 DEF IInv, TypeOK, BaseType
<1>5. s \in alive /\ KeepsBut(base, d, s) /\ d.flags[WriteEv[s]] = {}
  BY <1>2, <1>3, CalledBack DEF WriteMore, WriteFails, Writes
<1>6. Rearm(s) /\ base' = addWrite(d, s, 0, f)
  BY <1>1, <1>2 DEF WriteMore, WriteFails, Rearm
<1>7. Keeps(d, base', WriteEv[s])
  BY <1>4, <1>5, <1>6, AddWriteKeeps DEF KeepsBut
<1>8. KeepsBut(base, base', s)
  BY <1>3, <1>5, <1>7 DEF Keeps, KeepsBut
<1>9. TypeOK'
  <2>1. session' \in [Sessions -> SessionType]
    BY <1>6 DEF Rearm, IInv, TypeOK, SessionType
  <2>2. net' \in NetType
    <3>1. net \in NetType
      BY DEF IInv, TypeOK
    <3>2. \A full \in BOOLEAN : [net.full EXCEPT ![f] = full] \in [Fds -> BOOLEAN]
      BY <3>1, Zenon DEF NetType
    <3>3. CASE WriteMore(s)
      <4>1. PICK full \in BOOLEAN : net' = [net EXCEPT !.full[f] = full]
        BY <1>1, <3>3 DEF WriteMore
      <4> QED
        BY <3>1, <3>2, <4>1 DEF NetType
    <3>4. CASE WriteFails(s)
      BY <3>1, <3>4 DEF WriteFails
    <3> QED
      BY <3>3, <3>4
  <2> QED
    BY <1>6, <1>8, <2>1, <2>2 DEF Rearm, IInv, TypeOK, KeepsBut
<1>10. /\ alive' = alive /\ session'[s].writing = 1
       /\ \A u \in Sessions \ {s} : session'[u] = session[u]
  BY <1>6 DEF Rearm, IInv, TypeOK
<1> QED
  BY <1>5, <1>8, <1>9, <1>10, SessionFrame

(* onTimer keeps the invariant.                                             *)
LEMMA IInvTimer ==
  ASSUME IInv, NEW s \in Sessions, onTimer(s)
  PROVE  IInv'
<1>1. PICK d : d = Dequeue(base, TimeEv[s])
  OBVIOUS
<1>2. PICK beats : beats = (session[s].task = "playback")
  OBVIOUS
<1>3. PICK c : c = IF beats THEN addWrite(d, s, session[s].writing, EventFd(d, s)) ELSE d
  OBVIOUS
<1>4. /\ TimeEv[s] \in EventsOf(s) /\ WriteEv[s] \in EventsOf(s) /\ OneWay
      /\ TimeEv[s] # WriteEv[s] /\ WriteEv[s] \in Events /\ TimeEv[s] \in Events
  BY EventsApart DEF EventsOf
<1>5. /\ s \in alive /\ KeepsBut(base, d, s) /\ d.flags[TimeEv[s]] = {}
      /\ d.flags[WriteEv[s]] = base.flags[WriteEv[s]]
  BY <1>1, <1>4, CalledBack DEF onTimer
<1>6. d \in BaseType /\ BaseInv(d) /\ EventFd(d, s) \in Fds \cup {NoFd}
  BY <1>4, <1>5 DEF KeepsBut, BaseType, EventFd
<1>7. session[s].writing \in {0, 1} /\ (session[s].writing = 0 => d.flags[WriteEv[s]] = {})
  BY <1>5 DEF SessionType, IInv, TypeOK, NotWriting
<1>8. Keeps(d, c, WriteEv[s])
  <2>1. CASE beats
    BY <1>3, <1>6, <1>7, <2>1, AddWriteKeeps
  <2>2. CASE ~beats
    BY <1>3, <1>6, <2>2 DEF Keeps
  <2> QED
    BY <1>2, <2>1, <2>2
<1>9. c \in BaseType /\ BaseInv(c) /\ "ACTIVE" \notin c.flags[TimeEv[s]]
  BY <1>4, <1>5, <1>8 DEF Keeps
<1>10. base' = event_add(c, TimeEv[s], TRUE)
  BY <1>1, <1>2, <1>3 DEF onTimer
<1>11. Keeps(c, base', TimeEv[s])
  BY <1>4, <1>9, <1>10, EventAddKeeps
<1>12. KeepsBut(base, base', s)
  BY <1>4, <1>5, <1>8, <1>11 DEF Keeps, KeepsBut
<1>13. session' = [session EXCEPT ![s].writing = IF beats THEN 1 ELSE @]
  BY <1>2 DEF onTimer
<1>14. TypeOK'
  <2>1. session' \in [Sessions -> SessionType]
    BY <1>13 DEF IInv, TypeOK, SessionType
  <2> QED
    BY <1>12, <2>1 DEF onTimer, IInv, TypeOK, KeepsBut
<1>15. session'[s].writing = 0 => base'.flags[WriteEv[s]] = {}
  <2>1. CASE beats
    BY <1>13, <2>1 DEF IInv, TypeOK
  <2>2. CASE ~beats
    BY <1>3, <1>4, <1>7, <1>11, <1>13, <2>2 DEF Keeps, IInv, TypeOK
  <2> QED
    BY <1>2, <2>1, <2>2
<1>16. alive' = alive /\ \A u \in Sessions \ {s} : session'[u] = session[u]
  BY <1>13 DEF onTimer, IInv, TypeOK
<1> QED
  BY <1>5, <1>12, <1>14, <1>15, <1>16, SessionFrame

(* Every step of the server keeps the invariant.                            *)
LEMMA IInvNext == IInv /\ [Next]_vars => IInv'
<1> SUFFICES ASSUME IInv, [Next]_vars PROVE IInv'
  OBVIOUS
<1>1. CASE Callbacks
  <2>1. CASE AcceptFails
    BY <2>1, IInvAcceptFails
  <2>2. ASSUME NEW s \in Sessions, NEW f \in Fds, onAccept(s, f) PROVE IInv'
    BY <2>2, IInvAccept
  <2>3. ASSUME NEW s \in Sessions, ReadClose(s) PROVE IInv'
    BY <2>3, IInvClose DEF ReadClose, EventsOf
  <2>4. ASSUME NEW s \in Sessions, ReadMore(s) PROVE IInv'
    BY <2>4, IInvReadMore
  <2>5. ASSUME NEW s \in Sessions, WriteStop(s) PROVE IInv'
    BY <2>5, IInvWriteStop
  <2>6. ASSUME NEW s \in Sessions, WriteMore(s) \/ WriteFails(s) PROVE IInv'
    BY <2>6, IInvRearm
  <2>7. ASSUME NEW s \in Sessions, WriteExit(s) PROVE IInv'
    BY <2>7, IInvClose DEF WriteExit, Writes, EventsOf
  <2>8. ASSUME NEW s \in Sessions, onTimer(s) PROVE IInv'
    BY <2>8, IInvTimer
  <2> QED
    BY <1>1, <2>1, <2>2, <2>3, <2>4, <2>5, <2>6, <2>7, <2>8 DEF Callbacks, onRead, onWrite
<1>2. CASE Loop /\ ~Callbacks
  BY <1>2, IInvLoop DEF Loop
<1>3. CASE Clients
  BY <1>3, IInvClients
<1>4. CASE UNCHANGED vars
  BY <1>4 DEF vars, IInv, TypeOK, Unlinked, NotWriting
<1> QED
  BY <1>1, <1>2, <1>3, <1>4 DEF Next, Loop

-----------------------------------------------------------------------------

(* The types of the server's state, for every number of connections.         *)
THEOREM TypeCorrect == Spec => []TypeOK
<1>1. IInv => TypeOK
  BY DEF IInv
<1> QED
  BY <1>1, IInvInit, IInvNext, PTL DEF Spec

(* The flags of every event name exactly the queues it is on: mReading and   *)
(* mWriting keep addEvent from resetting an event that is linked.            *)
THEOREM QueuesAreConsistent == Spec => []QueuesConsistent
<1>1. IInv => QueuesConsistent
  BY DEF IInv, BaseInv, QueuesConsistent
<1> QED
  BY <1>1, IInvInit, IInvNext, PTL DEF Spec

(* No queue and no entry of the epoll table refers to an event of a session  *)
(* that onRead or onWrite has deleted, whatever else was active with it.     *)
THEOREM NoEventDangles == Spec => []NoDanglingEvent
<1>1. ASSUME IInv PROVE NoDanglingEvent
  <2>1. ASSUME NEW e \in Referenced(base) \ {NoEvent, AcceptEv}
        PROVE  e \in Events /\ base.flags[e] # {}
    <3>1. base \in BaseType /\ BaseInv(base)
      BY <1>1 DEF IInv, TypeOK
    <3>2. CASE e \in base.timetree \cup base.eventqueue \cup base.activequeue
      BY <3>1, <3>2 DEF BaseType, BaseInv, FlagsMatchQueues
    <3>3. ASSUME NEW f \in Fds, e = base.evread[f] \/ e = base.evwrite[f]
          PROVE  e \in Events /\ base.flags[e] # {}
      BY <3>1, <3>3 DEF BaseType, BaseInv, TableInserted
    <3> QED
      BY <3>2, <3>3 DEF Referenced
  <2>2. \A e \in Events \ {AcceptEv} : \E s \in Sessions : e \in EventsOf(s) /\ Owner[e] = s
    BY EventCallAssumption DEF EventsOf
  <2> QED
    BY <1>1, <2>1, <2>2 DEF IInv, Unlinked, NoDanglingEvent
<1> QED
  BY <1>1, IInvInit, IInvNext, PTL DEF Spec

-----------------------------------------------------------------------------
(* The tables: epoll, the sessions and their manager. *)

FdOf == [s \in Sessions |-> session[s].fd]

(* The read and the write event of every session of A wait on the descriptor *)
(* of that session, which no other session has, and only the events of A and *)
(* the accept event are in the event queue.                                  *)
Placed(b, A, d) ==
  /\ A \subseteq Sessions
  /\ b.fd[AcceptEv] = ListenFd
  /\ \A u \in A : /\ d[u] \in Fds \ {ListenFd}
                  /\ b.fd[ReadEv[u]] = d[u] /\ b.fd[WriteEv[u]] = d[u]
  /\ \A u, v \in A : d[u] = d[v] => u = v
  /\ \A x \in b.eventqueue : x = AcceptEv \/ \E u \in A : x \in {ReadEv[u], WriteEv[u]}

(* What a callback may rely on at each of its calls.                         *)
Good(b, A, d) == b \in BaseType /\ BaseInv(b) /\ Agrees(b) /\ Placed(b, A, d)

(* An event that will be called back, in terms of its flags.                 *)
Armed(b, e) == "ACTIVE" \in b.flags[e] \/ {"INSERTED", "TIMEOUT"} \subseteq b.flags[e]

(* The session reads, its heartbeat comes, and mWriting does not lie.        *)
Listens(b, s, reading, writing) ==
  /\ reading = 1 /\ Armed(b, ReadEv[s])
  /\ b.flags[TimeEv[s]] \cap {"ACTIVE", "TIMEOUT"} # {}
  /\ writing = 1 => Armed(b, WriteEv[s])

KInv ==
  /\ IInv
  /\ Agrees(base)
  /\ Placed(base, alive, FdOf)
  /\ net.open = {ListenFd} \cup {FdOf[s] : s \in alive}
  /\ \A s \in alive : Listens(base, s, session[s].reading, session[s].writing)

-----------------------------------------------------------------------------
(* The calls of a callback *)

(* What the events of a session wait for.                                    *)
LEMMA EventsWait ==
  /\ \A s \in Sessions : /\ WantsOf(ReadEv[s]) = {"IN"} /\ WantsOf(WriteEv[s]) = {"OUT"}
                         /\ WantsOf(TimeEv[s]) = {}
  /\ WantsOf(AcceptEv) = {"IN"}
BY EventCallAssumption DEF WantsOf

(* No other event waits on a session's descriptor in the same direction.     *)
LEMMA SessionFree ==
  ASSUME NEW b, NEW A, NEW d, Placed(b, A, d), NEW s \in A
  PROVE  FreeFor(b, ReadEv[s]) /\ FreeFor(b, WriteEv[s])
<1>1. d[s] \in Fds /\ d[s] # ListenFd /\ b.fd[ReadEv[s]] = d[s] /\ b.fd[WriteEv[s]] = d[s]
  BY DEF Placed
<1>2. ASSUME NEW x \in b.eventqueue, b.fd[x] = d[s]
      PROVE  x \in {ReadEv[s], WriteEv[s]}
  <2>1. x # AcceptEv
    BY <1>1, <1>2 DEF Placed
  <2>2. PICK u \in A : x \in {ReadEv[u], WriteEv[u]}
    BY <2>1 DEF Placed
  <2> QED
    BY <1>2, <2>2 DEF Placed
<1>3. WantsOf(ReadEv[s]) \cap WantsOf(WriteEv[s]) = {} /\ ReadEv[s] # WriteEv[s]
  BY EventsWait DEF Placed
<1> QED
  BY <1>1, <1>2, <1>3 DEF FreeFor

(* A base with the same descriptors and no new event in its queue.           *)
LEMMA PlacedFrame ==
  ASSUME NEW b, NEW c, NEW A, NEW d, Placed(b, A, d),
         c.fd = b.fd,
         \A x \in c.eventqueue : x \in b.eventqueue \/ \E u \in A : x \in {ReadEv[u], WriteEv[u]}
  PROVE  Placed(c, A, d)
BY DEF Placed

(* addEvent on the read event of a session that is not linked: it is armed   *)
(* afterwards.                                                               *)
LEMMA AddReadGood ==
  ASSUME NEW b, NEW A, NEW d, Good(b, A, d), NEW s \in A,
         b.flags[ReadEv[s]] = {}
  PROVE  /\ Good(addRead(b, s, 0, d[s]), A, d)
         /\ {"INSERTED", "TIMEOUT"} \subseteq addRead(b, s, 0, d[s]).flags[ReadEv[s]]
         /\ \A x \in Events \ {ReadEv[s]} : addRead(b, s, 0, d[s]).flags[x] = b.flags[x]
         /\ addRead(b, s, 0, d[s]).fd = b.fd
<1>1. s \in Sessions /\ ReadEv[s] \in Events /\ OneWay /\ d[s] \in Fds /\ b.fd[ReadEv[s]] = d[s]
  BY EventsApart DEF Good, Placed
<1>2. PICK c : c = event_set(b, ReadEv[s], d[s])
  OBVIOUS
<1>3. Keeps(b, c, ReadEv[s]) /\ c.flags[ReadEv[s]] = {}
  BY <1>1, <1>2, EventSetKeeps DEF Good
<1>4. Agrees(c) /\ c.fd = b.fd /\ c.eventqueue = b.eventqueue
  <2>1. Agrees(c) /\ c.fd = [b.fd EXCEPT ![ReadEv[s]] = d[s]]
    BY <1>1, <1>2, EventSetAgrees DEF Good
  <2>2. c.eventqueue = b.eventqueue
    BY <1>2 DEF event_set, Good, BaseType
  <2>3. b.fd \in [Events -> Fds \cup {NoFd}]
    BY DEF Good, BaseType
  <2> QED
    BY <1>1, <2>1, <2>2, <2>3
<1>5. Placed(c, A, d)
  BY <1>4, PlacedFrame DEF Good
<1>6. PICK g : g = event_add(c, ReadEv[s], TRUE)
  OBVIOUS
<1>7. /\ Agrees(g) /\ g.fd = c.fd /\ g.eventqueue \subseteq c.eventqueue \cup {ReadEv[s]}
      /\ "TIMEOUT" \in g.flags[ReadEv[s]] /\ "INSERTED" \in g.flags[ReadEv[s]]
  <2>1. FreeFor(c, ReadEv[s]) /\ WantsOf(ReadEv[s]) # {}
    BY <1>1, <1>5, SessionFree, EventsWait
  <2>2. c \in BaseType /\ BaseInv(c) /\ "ACTIVE" \notin c.flags[ReadEv[s]] /\ TRUE \in BOOLEAN
    BY <1>3 DEF Keeps
  <2> QED
    BY <1>1, <1>4, <1>6, <2>1, <2>2, EventAddAgrees
<1>8. Keeps(c, g, ReadEv[s])
  BY <1>1, <1>3, <1>6, EventAddKeeps DEF Keeps
<1>9. Placed(g, A, d)
  BY <1>5, <1>7, PlacedFrame
<1>10. addRead(b, s, 0, d[s]) = g
  BY <1>2, <1>6 DEF addRead
<1> QED
  BY <1>3, <1>4, <1>7, <1>8, <1>9, <1>10 DEF Keeps, Good

(* The same for the write event.                                             *)
LEMMA AddWriteGood ==
  ASSUME NEW b, NEW A, NEW d, Good(b, A, d), NEW s \in A,
         b.flags[WriteEv[s]] = {}
  PROVE  /\ Good(addWrite(b, s, 0, d[s]), A, d)
         /\ {"INSERTED", "TIMEOUT"} \subseteq addWrite(b, s, 0, d[s]).flags[WriteEv[s]]
         /\ \A x \in Events \ {WriteEv[s]} : addWrite(b, s, 0, d[s]).flags[x] = b.flags[x]
         /\ addWrite(b, s, 0, d[s]).fd = b.fd
<1>1. s \in Sessions /\ WriteEv[s] \in Events /\ OneWay /\ d[s] \in Fds /\ b.fd[WriteEv[s]] = d[s]
  BY EventsApart DEF Good, Placed
<1>2. PICK c : c = event_set(b, WriteEv[s], d[s])
  OBVIOUS
<1>3. Keeps(b, c, WriteEv[s]) /\ c.flags[WriteEv[s]] = {}
  BY <1>1, <1>2, EventSetKeeps DEF Good
<1>4. Agrees(c) /\ c.fd = b.fd /\ c.eventqueue = b.eventqueue
  <2>1. Agrees(c) /\ c.fd = [b.fd EXCEPT ![WriteEv[s]] = d[s]]
    BY <1>1, <1>2, EventSetAgrees DEF Good
  <2>2. c.eventqueue = b.eventqueue
    BY <1>2 DEF event_set, Good, BaseType
  <2>3. b.fd \in [Events -> Fds \cup {NoFd}]
    BY DEF Good, BaseType
  <2> QED
    BY <1>1, <2>1, <2>2, <2>3
<1>5. Placed(c, A, d)
  BY <1>4, PlacedFrame DEF Good
<1>6. PICK g : g = event_add(c, WriteEv[s], TRUE)
  OBVIOUS
<1>7. /\ Agrees(g) /\ g.fd = c.fd /\ g.eventqueue \subseteq c.eventqueue \cup {WriteEv[s]}
      /\ "TIMEOUT" \in g.flags[WriteEv[s]] /\ "INSERTED" \in g.flags[WriteEv[s]]
  <2>1. FreeFor(c, WriteEv[s]) /\ WantsOf(WriteEv[s]) # {}
    BY <1>1, <1>5, SessionFree, EventsWait
  <2>2. c \in BaseType /\ BaseInv(c) /\ "ACTIVE" \notin c.flags[WriteEv[s]] /\ TRUE \in BOOLEAN
    BY <1>3 DEF Keeps
  <2> QED
    BY <1>1, <1>4, <1>6, <2>1, <2>2, EventAddAgrees
<1>8. Keeps(c, g, WriteEv[s])
  BY <1>1, <1>3, <1>6, EventAddKeeps DEF Keeps
<1>9. Placed(g, A, d)
  BY <1>5, <1>7, PlacedFrame
<1>10. addWrite(b, s, 0, d[s]) = g
  BY <1>2, <1>6 DEF addWrite
<1> QED
  BY <1>3, <1>4, <1>7, <1>8, <1>9, <1>10 DEF Keeps, Good

(* evtimer_add on the heartbeat: the epoll table is not concerned.           *)
LEMMA AddTimerGood ==
  ASSUME NEW b, NEW A, NEW d, Good(b, A, d), NEW s \in Sessions,
         "ACTIVE" \notin b.flags[TimeEv[s]]
  PROVE  /\ Good(event_add(b, TimeEv[s], TRUE), A, d)
         /\ "TIMEOUT" \in event_add(b, TimeEv[s], TRUE).flags[TimeEv[s]]
         /\ \A x \in Events \ {TimeEv[s]} : event_add(b, TimeEv[s], TRUE).flags[x] = b.flags[x]
<1>1. TimeEv[s] \in Events /\ OneWay /\ WantsOf(TimeEv[s]) = {} /\ TRUE \in BOOLEAN
  BY EventsApart, EventsWait
<1>2. PICK g : g = event_add(b, TimeEv[s], TRUE)
  OBVIOUS
<1>3. b \in BaseType /\ BaseInv(b) /\ Agrees(b) /\ Placed(b, A, d)
  BY DEF Good
<1>4. Keeps(b, g, TimeEv[s])
  BY <1>1, <1>2, <1>3, EventAddKeeps
<1>5. /\ Agrees(g) /\ g.fd = b.fd /\ g.eventqueue \subseteq b.eventqueue \cup {TimeEv[s]}
      /\ "TIMEOUT" \in g.flags[TimeEv[s]]
  BY <1>1, <1>2, <1>3, EventAddAgrees
<1>6. g.eventqueue \subseteq b.eventqueue
  BY <1>1, <1>5 DEF Agrees
<1>7. Placed(g, A, d)
  BY <1>3, <1>5, <1>6, PlacedFrame
<1> QED
  BY <1>2, <1>4, <1>5, <1>7 DEF Keeps, Good

(* Taking an event off the active queue.                                     *)
LEMMA DequeueGood ==
  ASSUME NEW b, NEW A, NEW d, Good(b, A, d), NEW e \in Events
  PROVE  Good(Dequeue(b, e), A, d)
<1>1. SameEpoll(b, Dequeue(b, e)) /\ Agrees(Dequeue(b, e))
  BY ActiveAgrees DEF Good
<1>2. Placed(Dequeue(b, e), A, d)
  BY <1>1, PlacedFrame DEF SameEpoll, Good
<1> QED
  BY <1>1, <1>2, DequeueKeeps DEF Good, Keeps

-----------------------------------------------------------------------------
(* The ends of a connection *)

(* StartSession: the events of a session that has just been accepted.        *)
LEMMA StartGood ==
  ASSUME NEW b, NEW A, NEW d, Good(b, A, d),
         NEW s \in Sessions \ A, NEW f \in Fds \ {ListenFd},
         \A u \in A : d[u] # f, \A e \in EventsOf(s) : b.flags[e] = {},
         NEW B, B \subseteq Sessions, s \in B, \A u \in Sessions \ {s} : u \in B <=> u \in A,
         NEW g, g[s] = f, \A u \in A : g[u] = d[u]
  PROVE  LET c == StartSession(b, s, f)
         IN  /\ Good(c, B, g) /\ Listens(c, s, 1, 0) /\ c.flags[WriteEv[s]] = {}
             /\ \A x \in Events \ EventsOf(s) : c.flags[x] = b.flags[x]
<1>1. \A u \in A : u \in Sessions /\ u \in B /\ u # s
  BY DEF Good, Placed
<1>2. \A u \in B \ {s} : u \in A /\ g[u] = d[u]
  OBVIOUS
<1>3. /\ ReadEv[s] \in Events /\ WriteEv[s] \in Events /\ TimeEv[s] \in Events /\ OneWay
      /\ ReadEv[s] # WriteEv[s] /\ ReadEv[s] # TimeEv[s] /\ WriteEv[s] # TimeEv[s]
      /\ AcceptEv \notin EventsOf(s)
      /\ \A u \in Sessions \ {s} : EventsOf(s) \cap EventsOf(u) = {}
  BY EventsApart
<1>4. PICK c1 : c1 = event_set(b, ReadEv[s], f)
  OBVIOUS
<1>5. PICK c2 : c2 = event_set(c1, WriteEv[s], f)
  OBVIOUS
<1>6. PICK c3 : c3 = addRead(c2, s, 0, f)
  OBVIOUS
<1>7. PICK c4 : c4 = event_set(c3, TimeEv[s], NoFd)
  OBVIOUS
<1>8. PICK c5 : c5 = event_add(c4, TimeEv[s], TRUE)
  OBVIOUS
<1>9. Keeps(b, c1, ReadEv[s]) /\ Agrees(c1) /\ c1.fd = [b.fd EXCEPT ![ReadEv[s]] = f]
      /\ c1.flags[WriteEv[s]] = {} /\ c1.flags[TimeEv[s]] = {} /\ c1.flags[ReadEv[s]] = {}
      /\ c1.eventqueue = b.eventqueue
  <2>1. b \in BaseType /\ BaseInv(b) /\ Agrees(b) /\ b.flags[ReadEv[s]] = {} /\ f \in Fds \cup {NoFd}
    BY DEF Good, EventsOf
  <2>2. c1.eventqueue = b.eventqueue
    BY <1>4, <2>1 DEF event_set, BaseType
  <2> QED
    BY <1>3, <1>4, <2>1, <2>2, EventSetKeeps, EventSetAgrees DEF Keeps, EventsOf
<1>10. Keeps(c1, c2, WriteEv[s]) /\ Agrees(c2) /\ c2.fd = [c1.fd EXCEPT ![WriteEv[s]] = f]
      /\ c2.flags[ReadEv[s]] = {} /\ c2.flags[WriteEv[s]] = {} /\ c2.flags[TimeEv[s]] = {}
      /\ c2.eventqueue = b.eventqueue
  <2>1. c1 \in BaseType /\ BaseInv(c1) /\ f \in Fds \cup {NoFd}
    BY <1>9 DEF Keeps
  <2>2. c2.eventqueue = c1.eventqueue
    BY <1>5, <2>1 DEF event_set, BaseType
  <2>3. Keeps(c1, c2, WriteEv[s]) /\ c2.flags[WriteEv[s]] = {}
    BY <1>3, <1>5, <1>9, <2>1, EventSetKeeps
  <2>4. Agrees(c2) /\ c2.fd = [c1.fd EXCEPT ![WriteEv[s]] = f]
    BY <1>3, <1>5, <1>9, <2>1, EventSetAgrees
  <2> QED
    BY <1>3, <1>9, <2>2, <2>3, <2>4 DEF Keeps
<1>11. Placed(c2, B, g)
  <2>1. \A e \in Events \ EventsOf(s) : c2.fd[e] = b.fd[e]
    BY <1>9, <1>10 DEF EventsOf, Good, BaseType
  <2>2. c2.fd[ReadEv[s]] = f /\ c2.fd[WriteEv[s]] = f
    BY <1>3, <1>9, <1>10 DEF Good, BaseType
  <2>3. c2.fd[AcceptEv] = ListenFd
    BY <1>3, <2>1, EventsApart DEF Good, Placed
  <2>4. ASSUME NEW u \in B
        PROVE  /\ g[u] \in Fds \ {ListenFd}
               /\ c2.fd[ReadEv[u]] = g[u] /\ c2.fd[WriteEv[u]] = g[u]
    <3>1. CASE u = s
      BY <1>2, <2>2, <3>1
    <3>2. CASE u # s
      <4>1. u \in A /\ g[u] = d[u]
        BY <1>1, <1>2, <3>2
      <4>2. ReadEv[u] \in Events \ EventsOf(s) /\ WriteEv[u] \in Events \ EventsOf(s)
        BY <1>3, <3>2, <4>1, EventsApart DEF EventsOf
      <4> QED
        BY <2>1, <4>1, <4>2 DEF Good, Placed
    <3> QED
      BY <3>1, <3>2
  <2>5. ASSUME NEW u \in B, NEW v \in B, g[u] = g[v] PROVE u = v
    BY <1>1, <1>2, <2>5 DEF Good, Placed
  <2>6. \A x \in c2.eventqueue : x = AcceptEv \/ \E u \in B : x \in {ReadEv[u], WriteEv[u]}
    BY <1>10, <1>1 DEF Good, Placed
  <2> QED
    BY <2>3, <2>4, <2>5, <2>6 DEF Placed
<1>12. Good(c2, B, g) /\ g[s] = f
  BY <1>10, <1>11, <1>2 DEF Keeps, Good
<1>13. /\ Good(c3, B, g) /\ {"INSERTED", "TIMEOUT"} \subseteq c3.flags[ReadEv[s]]
       /\ \A x \in Events \ {ReadEv[s]} : c3.flags[x] = c2.flags[x]
  <2>1. B \in SUBSET Sessions /\ s \in B /\ c3 = addRead(c2, s, 0, g[s])
    BY <1>6, <1>12, <1>1
  <2>2. Good(c2, B, g) /\ c2.flags[ReadEv[s]] = {} /\ s \in B
    BY <1>10, <1>12, <2>1
  <2>3. Good(addRead(c2, s, 0, g[s]), B, g)
    BY <2>2, AddReadGood
  <2>4. {"INSERTED", "TIMEOUT"} \subseteq addRead(c2, s, 0, g[s]).flags[ReadEv[s]]
    BY <2>2, AddReadGood
  <2>5. \A x \in Events \ {ReadEv[s]} : addRead(c2, s, 0, g[s]).flags[x] = c2.flags[x]
    BY <2>2, AddReadGood
  <2> QED
    BY <2>1, <2>3, <2>4, <2>5
<1>14. /\ Good(c4, B, g)
       /\ c4.flags[TimeEv[s]] = {} /\ \A x \in Events \ {TimeEv[s]} : c4.flags[x] = c3.flags[x]
  <2>1. c3 \in BaseType /\ BaseInv(c3) /\ Agrees(c3) /\ Placed(c3, B, g) /\ c3.flags[TimeEv[s]] = {}
    BY <1>3, <1>10, <1>13 DEF Good
  <2>2. /\ Keeps(c3, c4, TimeEv[s]) /\ Agrees(c4) /\ c4.flags[TimeEv[s]] = {}
        /\ c4.fd = [c3.fd EXCEPT ![TimeEv[s]] = NoFd]
    BY <1>3, <1>7, <2>1, EventSetKeeps, EventSetAgrees
  <2>3. c4.eventqueue = c3.eventqueue
    BY <1>7, <2>1 DEF event_set, BaseType
  <2>4. \A e \in Events \ {TimeEv[s]} : c4.fd[e] = c3.fd[e]
    BY <2>1, <2>2 DEF BaseType
  <2>5. ASSUME NEW u \in B
        PROVE  ReadEv[u] \in Events \ {TimeEv[s]} /\ WriteEv[u] \in Events \ {TimeEv[s]}
    <3>1. u \in Sessions /\ ReadEv[u] \in Events /\ WriteEv[u] \in Events
      BY EventsApart
    <3>2. u # s => TimeEv[s] \notin EventsOf(u)
      BY <1>3, <3>1 DEF EventsOf
    <3> QED
      BY <1>3, <3>1, <3>2 DEF EventsOf
  <2>6. AcceptEv \in Events \ {TimeEv[s]}
    BY <1>3, EventsApart DEF EventsOf
  <2>7. Placed(c4, B, g)
    BY <2>1, <2>3, <2>4, <2>5, <2>6 DEF Placed
  <2> QED
    BY <2>2, <2>7 DEF Keeps, Good
<1>15. /\ Good(c5, B, g) /\ "TIMEOUT" \in c5.flags[TimeEv[s]]
       /\ \A x \in Events \ {TimeEv[s]} : c5.flags[x] = c4.flags[x]
  <2>1. Good(c4, B, g) /\ "ACTIVE" \notin c4.flags[TimeEv[s]]
    BY <1>14
  <2>2. Good(event_add(c4, TimeEv[s], TRUE), B, g)
    BY <2>1, AddTimerGood
  <2>3. "TIMEOUT" \in event_add(c4, TimeEv[s], TRUE).flags[TimeEv[s]]
    BY <2>1, AddTimerGood
  <2>4. \A x \in Events \ {TimeEv[s]} : event_add(c4, TimeEv[s], TRUE).flags[x] = c4.flags[x]
    BY <2>1, AddTimerGood
  <2> QED
    BY <1>8, <2>2, <2>3, <2>4
<1>16. c5 = StartSession(b, s, f)
  BY <1>4, <1>5, <1>6, <1>7, <1>8 DEF StartSession
<1>17. {"INSERTED", "TIMEOUT"} \subseteq c5.flags[ReadEv[s]] /\ c5.flags[WriteEv[s]] = {}
  BY <1>3, <1>10, <1>13, <1>14, <1>15
<1>18. Listens(c5, s, 1, 0)
  BY <1>15, <1>17 DEF Listens, Armed
<1>19. \A x \in Events \ EventsOf(s) : c5.flags[x] = b.flags[x]
  BY <1>9, <1>10, <1>13, <1>14, <1>15 DEF Keeps, EventsOf
<1> QED
  BY <1>15, <1>16, <1>17, <1>18, <1>19, <1>1, <1>2

(* remove, three event_del, delete session, close(fd).                       *)
LEMMA CloseGood ==
  ASSUME NEW b, NEW A, NEW d, Good(b, A, d), NEW s \in A
  PROVE  Good(CloseFd(FreeEvents(Teardown(b, s), s), d[s]), A \ {s}, d)
<1> DEFINE B == A \ {s}
<1>1. /\ ReadEv[s] \in Events /\ WriteEv[s] \in Events /\ TimeEv[s] \in Events /\ OneWay
      /\ ReadEv[s] # WriteEv[s] /\ ReadEv[s] # TimeEv[s] /\ WriteEv[s] # TimeEv[s]
      /\ AcceptEv \notin EventsOf(s) /\ d[s] \in Fds \ {ListenFd}
      /\ \A u \in Sessions \ {s} : EventsOf(s) \cap EventsOf(u) = {}
  BY EventsApart DEF Good, Placed
<1>2. PICK c1 : c1 = event_del(b, ReadEv[s])
  OBVIOUS
<1>3. PICK c2 : c2 = event_del(c1, WriteEv[s])
  OBVIOUS
<1>4. PICK c3 : c3 = event_del(c2, TimeEv[s])
  OBVIOUS
<1>5. /\ Keeps(b, c1, ReadEv[s]) /\ Agrees(c1) /\ c1.flags[ReadEv[s]] = {}
      /\ c1.fd = b.fd /\ c1.eventqueue = b.eventqueue \ {ReadEv[s]}
  BY <1>1, <1>2, EventDelKeeps, EventDelAgrees DEF Good
<1>6. /\ Keeps(c1, c2, WriteEv[s]) /\ Agrees(c2) /\ c2.flags[WriteEv[s]] = {}
      /\ c2.fd = b.fd /\ c2.eventqueue = c1.eventqueue \ {WriteEv[s]}
  <2>1. c1 \in BaseType /\ BaseInv(c1)
    BY <1>5 DEF Keeps
  <2> QED
    BY <1>1, <1>3, <1>5, <2>1, EventDelKeeps, EventDelAgrees
<1>7. /\ Keeps(c2, c3, TimeEv[s]) /\ Agrees(c3) /\ c3.flags[TimeEv[s]] = {}
      /\ c3.fd = b.fd /\ c3.eventqueue = c2.eventqueue \ {TimeEv[s]}
  <2>1. c2 \in BaseType /\ BaseInv(c2)
    BY <1>6 DEF Keeps
  <2> QED
    BY <1>1, <1>4, <1>6, <2>1, EventDelKeeps, EventDelAgrees
<1>8. c3.flags[ReadEv[s]] = {} /\ c3.flags[WriteEv[s]] = {} /\ c3.flags[TimeEv[s]] = {}
      /\ c3 \in BaseType /\ BaseInv(c3)
  BY <1>1, <1>5, <1>6, <1>7 DEF Keeps
<1>9. PICK d1 : d1 = Free(c3, ReadEv[s])
  OBVIOUS
<1>10. PICK d2 : d2 = Free(d1, WriteEv[s])
  OBVIOUS
<1>11. PICK d3 : d3 = Free(d2, TimeEv[s])
  OBVIOUS
<1>12. /\ d1 \in BaseType /\ BaseInv(d1) /\ d1.flags = c3.flags /\ Agrees(d1)
       /\ \A x \in Events \ {ReadEv[s]} : d1.fd[x] = c3.fd[x]
       /\ d1.eventqueue = c3.eventqueue
  <2>1. d1.eventqueue = c3.eventqueue
    BY <1>8, <1>9 DEF Free, BaseType
  <2> QED
    BY <1>1, <1>7, <1>8, <1>9, <2>1, FreeKeeps, FreeAgrees DEF Keeps
<1>13. /\ d2 \in BaseType /\ BaseInv(d2) /\ d2.flags = c3.flags /\ Agrees(d2)
       /\ \A x \in Events \ {WriteEv[s]} : d2.fd[x] = d1.fd[x]
       /\ d2.eventqueue = c3.eventqueue
  <2>1. d2.eventqueue = d1.eventqueue
    BY <1>10, <1>12 DEF Free, BaseType
  <2>2. d1.flags[WriteEv[s]] = {}
    BY <1>8, <1>12
  <2> QED
    BY <1>1, <1>10, <1>12, <2>1, <2>2, FreeKeeps, FreeAgrees DEF Keeps
<1>14. /\ d3 \in BaseType /\ BaseInv(d3) /\ Agrees(d3)
       /\ \A x \in Events \ {TimeEv[s]} : d3.fd[x] = d2.fd[x]
       /\ d3.eventqueue = c3.eventqueue
  <2>1. d3.eventqueue = d2.eventqueue
    BY <1>11, <1>13 DEF Free, BaseType
  <2>2. d2.flags[TimeEv[s]] = {}
    BY <1>8, <1>13
  <2> QED
    BY <1>1, <1>11, <1>13, <2>1, <2>2, FreeKeeps, FreeAgrees DEF Keeps
<1>15. Placed(d3, B, d)
  <2>1. \A x \in Events \ EventsOf(s) : d3.fd[x] = b.fd[x]
    BY <1>7, <1>12, <1>13, <1>14 DEF EventsOf
  <2>2. ASSUME NEW u \in B
        PROVE  ReadEv[u] \in Events \ EventsOf(s) /\ WriteEv[u] \in Events \ EventsOf(s)
    <3>1. u \in Sessions \ {s}
      BY DEF Good, Placed
    <3> QED
      BY <1>1, <3>1, EventsApart DEF EventsOf
  <2>3. AcceptEv \in Events \ EventsOf(s)
    BY <1>1, EventsApart
  <2>4. d3.eventqueue = b.eventqueue \ EventsOf(s)
    BY <1>5, <1>6, <1>7, <1>14 DEF EventsOf
  <2>5. ASSUME NEW x \in d3.eventqueue
        PROVE  x = AcceptEv \/ \E u \in B : x \in {ReadEv[u], WriteEv[u]}
    BY <2>4 DEF Good, Placed, EventsOf
  <2>6. \A u \in B : /\ d[u] \in Fds \ {ListenFd}
                     /\ d3.fd[ReadEv[u]] = d[u] /\ d3.fd[WriteEv[u]] = d[u]
    BY <2>1, <2>2 DEF Good, Placed
  <2>7. d3.fd[AcceptEv] = ListenFd /\ \A u, v \in B : d[u] = d[v] => u = v
    BY <2>1, <2>3 DEF Good, Placed
  <2>8. B \subseteq Sessions
    BY DEF Good, Placed
  <2> QED
    BY <2>8, <2>5, <2>6, <2>7 DEF Placed
<1>16. d3.evread[d[s]] = NoEvent /\ d3.evwrite[d[s]] = NoEvent
  <2>1. ASSUME NEW x \in d3.eventqueue PROVE d3.fd[x] # d[s]
    BY <1>1, <1>15, <2>1 DEF Placed, Good
  <2> QED
    BY <1>1, <1>14, <2>1 DEF Agrees, EpollAgrees
<1>17. PICK g : g = CloseFd(d3, d[s])
  OBVIOUS
<1>18. g \in BaseType /\ BaseInv(g) /\ Agrees(g) /\ g.fd = d3.fd
  BY <1>1, <1>14, <1>16, <1>17, CloseFdKeeps, CloseFdAgrees
<1>19. Placed(g, B, d)
  <2>1. g.eventqueue = d3.eventqueue
    BY <1>14, <1>17 DEF CloseFd, BaseType
  <2> QED
    BY <1>15, <1>18, <2>1 DEF Placed
<1>20. g = CloseFd(FreeEvents(Teardown(b, s), s), d[s])
  BY <1>2, <1>3, <1>4, <1>9, <1>10, <1>11, <1>17 DEF FreeEvents, Teardown
<1> QED
  BY <1>18, <1>19, <1>20 DEF Good

-----------------------------------------------------------------------------
(* What a step has to show *)

(* KInv implies what the lemmas about the base ask of epoll.                 *)
LEMMA KInvGood == KInv => Good(base, alive, FdOf)
BY DEF KInv, IInv, TypeOK, Good

(* addEvent on the write event, whatever mWriting says: it is armed then.    *)
LEMMA ArmWrite ==
  ASSUME NEW b, NEW A, NEW d, Good(b, A, d), NEW s \in A,
         NEW writing \in {0, 1}, writing = 0 => b.flags[WriteEv[s]] = {},
         writing = 1 => Armed(b, WriteEv[s])
  PROVE  LET c == addWrite(b, s, writing, EventFd(b, s))
         IN  /\ Good(c, A, d) /\ Armed(c, WriteEv[s])
             /\ \A x \in Events \ {WriteEv[s]} : c.flags[x] = b.flags[x]
<1>1. EventFd(b, s) = d[s]
  BY DEF Good, Placed, EventFd
<1>2. CASE writing = 0
  <2>1. Good(addWrite(b, s, 0, d[s]), A, d)
    BY <1>2, AddWriteGood
  <2>2. {"INSERTED", "TIMEOUT"} \subseteq addWrite(b, s, 0, d[s]).flags[WriteEv[s]]
    BY <1>2, AddWriteGood
  <2>3. \A x \in Events \ {WriteEv[s]} : addWrite(b, s, 0, d[s]).flags[x] = b.flags[x]
    BY <1>2, AddWriteGood
  <2> QED
    BY <1>1, <1>2, <2>1, <2>2, <2>3 DEF Armed
<1>3. CASE writing = 1
  BY <1>3 DEF addWrite
<1> QED
  BY <1>2, <1>3

(* A callback of s that leaves the connection open.                          *)
LEMMA KeepOpen ==
  ASSUME KInv, IInv', NEW s \in alive, Good(base', alive, FdOf),
         \A x \in Events \ EventsOf(s) : base'.flags[x] = base.flags[x],
         alive' = alive, net'.open = net.open,
         \A u \in Sessions : session'[u].fd = session[u].fd,
         \A u \in Sessions \ {s} : session'[u] = session[u],
         Listens(base', s, session'[s].reading, session'[s].writing)
  PROVE  KInv'
<1>1. FdOf' = FdOf
  BY DEF FdOf
<1>2. Agrees(base') /\ Placed(base', alive', FdOf')
  BY <1>1 DEF Good
<1>3. net'.open = {ListenFd} \cup {FdOf'[u] : u \in alive'}
  BY <1>1 DEF KInv
<1>4. ASSUME NEW u \in alive'
      PROVE  Listens(base', u, session'[u].reading, session'[u].writing)
  <2>1. CASE u = s
    BY <2>1
  <2>2. CASE u # s
    <3>1. u \in Sessions /\ u \in alive /\ s \in Sessions
      BY DEF KInv, IInv, TypeOK
    <3>2. EventsOf(u) \subseteq Events \ EventsOf(s)
      BY <2>2, <3>1, EventsApart DEF EventsOf
    <3>3. \A x \in EventsOf(u) : base'.flags[x] = base.flags[x]
      BY <3>2
    <3>4. Listens(base, u, session[u].reading, session[u].writing) /\ session'[u] = session[u]
      BY <2>2, <3>1 DEF KInv
    <3> QED
      BY <3>3, <3>4 DEF Listens, Armed, EventsOf
  <2> QED
    BY <2>1, <2>2
<1> QED
  BY <1>2, <1>3, <1>4 DEF KInv

(* A step of the loop between callbacks: an event that leaves a queue of the *)
(* base is active afterwards.                                                *)
LEMMA KeepCalm ==
  ASSUME KInv, IInv', Agrees(base'), base'.fd = base.fd,
         base'.eventqueue \subseteq base.eventqueue,
         \A x \in Events \ {AcceptEv} :
           base'.flags[x] = base.flags[x] \/ "ACTIVE" \in base'.flags[x],
         alive' = alive, session' = session, net'.open = net.open
  PROVE  KInv'
<1>1. FdOf' = FdOf /\ alive \in SUBSET Sessions
  BY DEF FdOf, KInv, IInv, TypeOK
<1>2. Placed(base', alive', FdOf')
  BY <1>1, PlacedFrame DEF KInv
<1>3. \A u \in alive : EventsOf(u) \subseteq Events \ {AcceptEv}
  BY <1>1, EventsApart DEF EventsOf
<1>4. ASSUME NEW u \in alive'
      PROVE  Listens(base', u, session'[u].reading, session'[u].writing)
  <2>1. \A x \in EventsOf(u) : base'.flags[x] = base.flags[x] \/ "ACTIVE" \in base'.flags[x]
    BY <1>3
  <2>2. Listens(base, u, session[u].reading, session[u].writing)
    BY DEF KInv
  <2> QED
    BY <2>1, <2>2 DEF Listens, Armed, EventsOf
<1> QED
  BY <1>1, <1>2, <1>4 DEF KInv

-----------------------------------------------------------------------------
(* The steps *)

(* Initially only the listener is armed, and table and kernel agree.         *)
LEMMA KInvInit == Init => KInv
<1> SUFFICES ASSUME Init PROVE KInv
  OBVIOUS
<1>1. PICK b : b = event_set(EmptyBase, AcceptEv, ListenFd)
  OBVIOUS
<1>2. EmptyBase \in BaseType /\ BaseInv(EmptyBase) /\ EmptyBase.flags[AcceptEv] = {}
  BY EventsAssumption, EventsApart DEF EmptyBase, BaseType, BaseInv, FlagsMatchQueues,
     TableInserted, ActiveAlone
<1>3. Agrees(EmptyBase)
  BY DEF EmptyBase, Agrees, EpollAgrees, Registered
<1>4. AcceptEv \in Events /\ ListenFd \in Fds /\ OneWay
  BY EventCallAssumption, EventsApart
<1>5. Keeps(EmptyBase, b, AcceptEv) /\ b.flags[AcceptEv] = {}
  BY <1>1, <1>2, <1>4, EventSetKeeps
<1>6. Agrees(b) /\ b.fd = [EmptyBase.fd EXCEPT ![AcceptEv] = ListenFd] /\ b.eventqueue = {}
  <2>1. b.eventqueue = {}
    BY <1>1 DEF event_set, EmptyBase
  <2> QED
    BY <1>1, <1>2, <1>3, <1>4, <2>1, EventSetAgrees
<1>7. b.fd[AcceptEv] = ListenFd
  BY <1>4, <1>6 DEF EmptyBase
<1>8. base = event_add(b, AcceptEv, FALSE)
  BY <1>1 DEF Init
<1>9. Agrees(base) /\ base.fd = b.fd /\ base.eventqueue \subseteq b.eventqueue \cup {AcceptEv}
  <2>1. FreeFor(b, AcceptEv)
    BY <1>4, <1>6, <1>7 DEF FreeFor
  <2>2. b \in BaseType /\ BaseInv(b) /\ "ACTIVE" \notin b.flags[AcceptEv] /\ FALSE \in BOOLEAN
    BY <1>5 DEF Keeps
  <2> QED
    BY <1>4, <1>6, <1>8, <2>1, <2>2, EventAddAgrees
<1>10. alive = {} /\ net.open = {ListenFd}
  BY DEF Init
<1>11. Placed(base, alive, FdOf)
  BY <1>6, <1>7, <1>9, <1>10 DEF Placed
<1> QED
  BY <1>9, <1>10, <1>11, IInvInit DEF KInv

(* Clients and the loop.                                                     *)
LEMMA KInvLoop ==
  ASSUME KInv, IInv',
         \/ Clients
         \/ EpollWait
         \/ \E f \in Fds : Report(f)
         \/ ReportDone
         \/ \E e \in Events : Expire(e)
         \/ ExpireDone
         \/ ActiveDone
         \/ AcceptFails
  PROVE  KInv'
<1>1. Good(base, alive, FdOf) /\ OneWay /\ AcceptEv \in Events
  BY KInvGood, EventsApart
<1>2. CASE Clients
  <2>1. UNCHANGED <<base, alive, session>> /\ net'.open = net.open
    BY <1>2 DEF Clients, Connect, ClientSend, ClientClose, ClientDrain, KInv, IInv, TypeOK, NetType
  <2> QED
    BY <1>1, <2>1, KeepCalm DEF Good
<1>3. CASE EpollWait \/ ReportDone \/ ExpireDone \/ ActiveDone
  <2>1. UNCHANGED <<base, alive, session, net>>
    BY <1>3 DEF EpollWait, ReportDone, ExpireDone, ActiveDone
  <2> QED
    BY <1>1, <2>1, KeepCalm DEF Good
<1>4. ASSUME NEW f \in Fds, Report(f) PROVE KInv'
  <2>1. UNCHANGED <<alive, session, net>> /\ base' = epoll_report(base, f, batch[f])
    BY <1>4 DEF Report
  <2>2. Calm(base, base')
    BY <1>1, <2>1, EpollReportCalm DEF Good
  <2> QED
    BY <2>1, <2>2, KeepCalm DEF Calm
<1>5. ASSUME NEW e \in Events, Expire(e) PROVE KInv'
  <2>1. UNCHANGED <<alive, session, net>> /\ base' = timeout_expire(base, e) /\ e \in base.timetree
    BY <1>5 DEF Expire
  <2>2. Calm(base, base')
    BY <1>1, <2>1, TimeoutExpireCalm DEF Good
  <2> QED
    BY <2>1, <2>2, KeepCalm DEF Calm
<1>6. CASE AcceptFails
  <2>1. UNCHANGED <<alive, session, net>> /\ base' = Dequeue(base, AcceptEv)
    BY <1>6 DEF AcceptFails
  <2>2. SameEpoll(base, base') /\ Agrees(base') /\ Keeps(base, base', AcceptEv)
    BY <1>1, <2>1, ActiveAgrees, DequeueKeeps DEF Good
  <2> QED
    BY <2>1, <2>2, KeepCalm DEF SameEpoll, Keeps
<1> QED
  BY <1>2, <1>3, <1>4, <1>5, <1>6

(* onAccept arms the events of a fresh session and keeps KInv.               *)
LEMMA KInvAccept ==
  ASSUME KInv, IInv', NEW s \in Sessions, NEW f \in Fds, onAccept(s, f)
  PROVE  KInv'
<1>1. /\ Good(base, alive, FdOf) /\ AcceptEv \in Events /\ alive \in SUBSET Sessions
      /\ s \in Sessions \ alive /\ session \in [Sessions -> SessionType]
      /\ FdOf \in [Sessions -> Fds \cup {NoFd}]
  BY KInvGood, EventsApart DEF KInv, IInv, TypeOK, onAccept, FdOf, SessionType
<1>2. f # ListenFd /\ \A u \in alive : FdOf[u] # f
  BY DEF onAccept, KInv
<1>3. PICK A \in SUBSET Sessions : A = alive \cup {s}
  BY <1>1
<1>4. PICK d : d = [FdOf EXCEPT ![s] = f]
  OBVIOUS
<1>5. PICK b1 : b1 = Dequeue(base, AcceptEv)
  OBVIOUS
<1>6. PICK b2 : b2 = StartSession(b1, s, f)
  OBVIOUS
<1>7. Good(b1, alive, FdOf) /\ \A x \in Events \ {AcceptEv} : b1.flags[x] = base.flags[x]
  <2>1. Good(b1, alive, FdOf)
    BY <1>1, <1>5, DequeueGood
  <2>2. Keeps(base, b1, AcceptEv)
    BY <1>1, <1>5, DequeueKeeps DEF Good
  <2> QED
    BY <2>1, <2>2 DEF Keeps
<1>8. EventsOf(s) \subseteq Events \ {AcceptEv} /\ \A e \in EventsOf(s) : b1.flags[e] = {}
  <2>1. EventsOf(s) \subseteq Events \ {AcceptEv}
    BY EventsApart DEF EventsOf
  <2> QED
    BY <1>1, <1>7, <2>1 DEF KInv, IInv, Unlinked
<1>9. /\ Good(b2, A, d) /\ Listens(b2, s, 1, 0) /\ b2.flags[WriteEv[s]] = {}
      /\ \A x \in Events \ EventsOf(s) : b2.flags[x] = b1.flags[x]
  <2>1. f \in Fds \ {ListenFd}
    BY <1>2
  <2>2. Good(b1, alive, FdOf) /\ \A e \in EventsOf(s) : b1.flags[e] = {}
    BY <1>7, <1>8
  <2>3. s \in A /\ \A u \in Sessions \ {s} : u \in A <=> u \in alive
    BY <1>1, <1>3
  <2>4. d[s] = f /\ \A u \in alive : d[u] = FdOf[u]
    BY <1>1, <1>4
  <2>5. Good(StartSession(b1, s, f), A, d)
    BY <1>1, <1>2, <2>1, <2>2, <2>3, <2>4, StartGood
  <2>6. Listens(StartSession(b1, s, f), s, 1, 0) /\ StartSession(b1, s, f).flags[WriteEv[s]] = {}
    BY <1>1, <1>2, <2>1, <2>2, <2>3, <2>4, StartGood
  <2>7. \A x \in Events \ EventsOf(s) : StartSession(b1, s, f).flags[x] = b1.flags[x]
    BY <1>1, <1>2, <2>1, <2>2, <2>3, <2>4, StartGood
  <2> QED
    BY <1>6, <2>5, <2>6, <2>7
<1>10. PICK busy : busy = (put(manager, KeyOf(f), s).count > MaxConnections)
  OBVIOUS
<1>11. PICK b3 : b3 = addWrite(b2, s, 0, f)
  OBVIOUS
<1>12. /\ Good(b3, A, d) /\ Listens(b3, s, 1, 1)
       /\ \A x \in Events \ EventsOf(s) : b3.flags[x] = b2.flags[x]
  <2>1. d[s] = f /\ s \in A /\ ReadEv[s] \in Events \ {WriteEv[s]} /\ TimeEv[s] \in Events \ {WriteEv[s]}
    BY <1>1, <1>3, <1>4, EventsApart
  <2>2. Good(b3, A, d) /\ {"INSERTED", "TIMEOUT"} \subseteq b3.flags[WriteEv[s]]
    <3>1. Good(addWrite(b2, s, 0, d[s]), A, d)
      BY <1>9, <2>1, AddWriteGood
    <3>2. {"INSERTED", "TIMEOUT"} \subseteq addWrite(b2, s, 0, d[s]).flags[WriteEv[s]]
      BY <1>9, <2>1, AddWriteGood
    <3> QED
      BY <1>11, <2>1, <3>1, <3>2
  <2>3. \A x \in Events \ {WriteEv[s]} : b3.flags[x] = b2.flags[x]
    <3>1. \A x \in Events \ {WriteEv[s]} : addWrite(b2, s, 0, d[s]).flags[x] = b2.flags[x]
      BY <1>9, <2>1, AddWriteGood
    <3> QED
      BY <1>11, <2>1, <3>1
  <2> QED
    BY <1>9, <2>1, <2>2, <2>3 DEF Listens, Armed, EventsOf
<1>13. /\ alive' = A /\ base' = IF busy THEN b3 ELSE b2
       /\ session'[s].fd = f /\ session'[s].reading = 1
       /\ session'[s].writing = IF busy THEN 1 ELSE 0
       /\ \A u \in Sessions \ {s} : session'[u] = session[u]
       /\ net'.open = net.open \cup {f}
  <2>1. net \in NetType
    BY DEF KInv, IInv, TypeOK
  <2>2. net'.open = net.open \cup {f}
    BY <2>1 DEF onAccept, NetType
  <2>3. alive' = A /\ base' = IF busy THEN b3 ELSE b2
    BY <1>3, <1>5, <1>6, <1>10, <1>11 DEF onAccept
  <2> QED
    BY <1>1, <1>10, <2>2, <2>3 DEF onAccept
<1>14. FdOf' = d
  BY <1>1, <1>4, <1>13 DEF FdOf
<1>15. /\ Good(base', A, d) /\ Listens(base', s, session'[s].reading, session'[s].writing)
       /\ \A x \in Events \ (EventsOf(s) \cup {AcceptEv}) : base'.flags[x] = base.flags[x]
  <2>1. CASE busy
    BY <1>7, <1>9, <1>12, <1>13, <2>1
  <2>2. CASE ~busy
    BY <1>7, <1>9, <1>13, <2>2
  <2> QED
    BY <2>1, <2>2
<1>16. ASSUME NEW u \in alive'
       PROVE  Listens(base', u, session'[u].reading, session'[u].writing)
  <2>1. CASE u = s
    BY <1>15, <2>1
  <2>2. CASE u # s
    <3>1. u \in Sessions /\ u \in alive
      BY <1>3, <1>13, <2>2
    <3>2. EventsOf(u) \subseteq Events \ (EventsOf(s) \cup {AcceptEv})
      BY <2>2, <3>1, EventsApart DEF EventsOf
    <3>3. \A x \in EventsOf(u) : base'.flags[x] = base.flags[x]
      BY <1>15, <3>2
    <3>4. Listens(base, u, session[u].reading, session[u].writing) /\ session'[u] = session[u]
      BY <1>13, <2>2, <3>1 DEF KInv
    <3> QED
      BY <3>3, <3>4 DEF Listens, Armed, EventsOf
  <2> QED
    BY <2>1, <2>2
<1>17. net'.open = {ListenFd} \cup {FdOf'[u] : u \in alive'}
  <2>1. {d[u] : u \in A} = {FdOf[u] : u \in alive} \cup {f}
    <3>1. d[s] = f /\ \A u \in alive : d[u] = FdOf[u]
      BY <1>1, <1>4
    <3> QED
      BY <1>3, <3>1
  <2>2. net'.open = ({ListenFd} \cup {FdOf[u] : u \in alive}) \cup {f} /\ alive' = A
    BY <1>13 DEF KInv
  <2> QED
    BY <1>14, <2>1, <2>2
<1> QED
  BY <1>13, <1>14, <1>15, <1>16, <1>17 DEF KInv, Good

(* A callback that ends its session deletes its events before it closes the  *)
(* descriptor.                                                               *)
LEMMA KInvClose ==
  ASSUME KInv, IInv', NEW s \in Sessions, NEW e \in EventsOf(s), Callback(e),
         CloseSession(Dequeue(base, e), s, FdOf[s])
  PROVE  KInv'
<1>1. /\ Good(base, alive, FdOf) /\ e \in Events /\ alive \in SUBSET Sessions
      /\ session \in [Sessions -> SessionType] /\ s \in alive
  BY KInvGood, EventsApart, CalledBack DEF KInv, IInv, TypeOK, EventsOf
<1>2. PICK d : d = Dequeue(base, e)
  OBVIOUS
<1>3. Good(d, alive, FdOf) /\ KeepsBut(base, d, s)
  BY <1>1, <1>2, DequeueGood, CalledBack DEF KInv
<1>4. Good(base', alive \ {s}, FdOf)
  BY <1>1, <1>2, <1>3, CloseGood DEF CloseSession
<1>5. \A x \in Events \ EventsOf(s) : base'.flags[x] = base.flags[x]
  <2>1. KeepsBut(d, base', s)
    BY <1>2, <1>3, CloseKeeps DEF CloseSession, KeepsBut
  <2> QED
    BY <1>3, <2>1 DEF KeepsBut
<1>6. alive' = alive \ {s} /\ \A u \in Sessions \ {s} : session'[u] = session[u]
  BY <1>1 DEF CloseSession
<1>7. \A u \in alive' : FdOf'[u] = FdOf[u] /\ session'[u] = session[u]
  BY <1>1, <1>6 DEF FdOf
<1>8. Placed(base', alive', FdOf')
  BY <1>4, <1>6, <1>7 DEF Good, Placed
<1>9. net'.open = net.open \ {FdOf[s]}
  BY DEF CloseSession, KInv, IInv, TypeOK, NetType
<1>10. FdOf[s] # ListenFd /\ \A u \in alive' : FdOf[u] # FdOf[s]
  BY <1>1, <1>6 DEF Good, Placed
<1>11. net'.open = {ListenFd} \cup {FdOf'[u] : u \in alive'}
  BY <1>1, <1>6, <1>7, <1>9, <1>10 DEF KInv
<1>12. ASSUME NEW u \in alive'
       PROVE  Listens(base', u, session'[u].reading, session'[u].writing)
  <2>1. u \in Sessions /\ u \in alive /\ u # s
    BY <1>1, <1>6
  <2>2. EventsOf(u) \subseteq Events \ EventsOf(s)
    BY <2>1, EventsApart DEF EventsOf
  <2>3. \A x \in EventsOf(u) : base'.flags[x] = base.flags[x]
    BY <1>5, <2>2
  <2>4. Listens(base, u, session[u].reading, session[u].writing) /\ session'[u] = session[u]
    BY <1>7, <2>1 DEF KInv
  <2> QED
    BY <2>3, <2>4 DEF Listens, Armed, EventsOf
<1> QED
  BY <1>4, <1>8, <1>11, <1>12 DEF KInv, Good

(* onRead arms what its result asks for and keeps KInv.                      *)
LEMMA KInvReadMore ==
  ASSUME KInv, IInv', NEW s \in Sessions, ReadMore(s)
  PROVE  KInv'
<1>1. PICK m : m = IF "READ" \in base.res[ReadEv[s]] THEN net.inbox[base.fd[ReadEv[s]]] ELSE "none"
  OBVIOUS
<1>2. PICK d : d = Dequeue(base, ReadEv[s])
  OBVIOUS
<1>3. PICK starts : starts = (m = "start" /\ session[s].task # "none")
  OBVIOUS
<1>4. PICK c : c = IF starts THEN addWrite(d, s, session[s].writing, EventFd(d, s)) ELSE d
  OBVIOUS
<1>5. /\ Good(base, alive, FdOf) /\ ReadEv[s] \in EventsOf(s) /\ WriteEv[s] \in EventsOf(s)
      /\ TimeEv[s] \in EventsOf(s) /\ EventsOf(s) \subseteq Events
      /\ ReadEv[s] # WriteEv[s] /\ TimeEv[s] # WriteEv[s] /\ TimeEv[s] # ReadEv[s]
  BY KInvGood, EventsApart DEF EventsOf
<1>6. /\ s \in alive /\ d.flags[ReadEv[s]] = {}
      /\ \A x \in Events \ {ReadEv[s]} : d.flags[x] = base.flags[x]
  BY <1>2, <1>5, CalledBack DEF ReadMore, KInv
<1>7. Good(d, alive, FdOf)
  BY <1>2, <1>5, DequeueGood
<1>8. /\ session[s].writing \in {0, 1}
      /\ session[s].writing = 0 => d.flags[WriteEv[s]] = {}
      /\ session[s].writing = 1 => Armed(d, WriteEv[s])
      /\ d.flags[TimeEv[s]] \cap {"ACTIVE", "TIMEOUT"} # {}
  <2>1. Listens(base, s, session[s].reading, session[s].writing)
    BY <1>6 DEF KInv
  <2>2. session[s].writing \in {0, 1} /\ (session[s].writing = 0 => base.flags[WriteEv[s]] = {})
    BY DEF KInv, IInv, TypeOK, SessionType, NotWriting
  <2> QED
    BY <1>5, <1>6, <2>1, <2>2 DEF Listens, Armed
<1>9. /\ Good(c, alive, FdOf)
      /\ \A x \in Events \ {WriteEv[s]} : c.flags[x] = d.flags[x]
      /\ IF starts THEN Armed(c, WriteEv[s]) ELSE c.flags[WriteEv[s]] = d.flags[WriteEv[s]]
  <2>1. CASE starts
    BY <1>4, <1>6, <1>7, <1>8, <2>1, ArmWrite
  <2>2. CASE ~starts
    BY <1>4, <1>7, <2>2
  <2> QED
    BY <2>1, <2>2
<1>10. base' = addRead(c, s, 0, FdOf[s])
  <2>1. base.fd[ReadEv[s]] = FdOf[s]
    BY <1>5, <1>6 DEF Good, Placed
  <2> QED
    BY <1>1, <1>2, <1>3, <1>4, <2>1 DEF ReadMore
<1>11. c.flags[ReadEv[s]] = {}
  BY <1>5, <1>6, <1>9
<1>12. Good(base', alive, FdOf)
  BY <1>6, <1>9, <1>10, <1>11, AddReadGood
<1>13. {"INSERTED", "TIMEOUT"} \subseteq base'.flags[ReadEv[s]]
  BY <1>6, <1>9, <1>10, <1>11, AddReadGood
<1>14. \A x \in Events \ {ReadEv[s]} : base'.flags[x] = c.flags[x]
  BY <1>6, <1>9, <1>10, <1>11, AddReadGood
<1>15. session' = [session EXCEPT ![s].reading = 1,
                                  ![s].writing = IF starts THEN 1 ELSE @,
                                  ![s].task    = readTask(s, m)]
  BY <1>1, <1>3 DEF ReadMore
<1>16. /\ \A u \in Sessions : session'[u].fd = session[u].fd
       /\ \A u \in Sessions \ {s} : session'[u] = session[u]
       /\ session'[s].reading = 1
       /\ session'[s].writing = IF starts THEN 1 ELSE session[s].writing
  BY <1>15 DEF KInv, IInv, TypeOK, SessionType
<1>17. base'.flags[TimeEv[s]] = d.flags[TimeEv[s]] /\ base'.flags[WriteEv[s]] = c.flags[WriteEv[s]]
  BY <1>5, <1>9, <1>14
<1>18. Listens(base', s, session'[s].reading, session'[s].writing)
  BY <1>8, <1>9, <1>13, <1>16, <1>17 DEF Listens, Armed
<1>19. \A x \in Events \ EventsOf(s) : base'.flags[x] = base.flags[x]
  BY <1>5, <1>6, <1>9, <1>14
<1>20. alive' = alive /\ net'.open = net.open
  BY DEF ReadMore, KInv, IInv, TypeOK, NetType
<1> QED
  BY <1>6, <1>12, <1>16, <1>18, <1>19, <1>20, KeepOpen

(* onWrite with nothing left to send keeps KInv.                             *)
LEMMA KInvWriteStop ==
  ASSUME KInv, IInv', NEW s \in Sessions, WriteStop(s)
  PROVE  KInv'
<1>1. /\ Good(base, alive, FdOf) /\ ReadEv[s] \in EventsOf(s) /\ WriteEv[s] \in EventsOf(s)
      /\ TimeEv[s] \in EventsOf(s) /\ EventsOf(s) \subseteq Events
      /\ ReadEv[s] # WriteEv[s] /\ TimeEv[s] # WriteEv[s]
  BY KInvGood, EventsApart DEF EventsOf
<1>2. s \in alive /\ \A x \in Events \ {WriteEv[s]} : base'.flags[x] = base.flags[x]
  BY <1>1, CalledBack DEF WriteStop, KInv
<1>3. Good(base', alive, FdOf)
  BY <1>1, DequeueGood DEF WriteStop
<1>4. /\ \A u \in Sessions : session'[u].fd = session[u].fd
      /\ \A u \in Sessions \ {s} : session'[u] = session[u]
      /\ session'[s].reading = session[s].reading /\ session'[s].writing = 0
  BY DEF WriteStop, KInv, IInv, TypeOK, SessionType
<1>5. Listens(base', s, session'[s].reading, session'[s].writing)
  BY <1>1, <1>2, <1>4 DEF KInv, Listens, Armed
<1>6. alive' = alive /\ net'.open = net.open
  BY DEF WriteStop
<1>7. \A x \in Events \ EventsOf(s) : base'.flags[x] = base.flags[x]
  BY <1>1, <1>2
<1> QED
  BY <1>2, <1>3, <1>4, <1>5, <1>6, <1>7, KeepOpen

(* onWrite that arms the write event again keeps KInv.                       *)
LEMMA KInvRearm ==
  ASSUME KInv, IInv', NEW s \in Sessions, WriteMore(s) \/ WriteFails(s)
  PROVE  KInv'
<1>1. /\ Good(base, alive, FdOf) /\ ReadEv[s] \in EventsOf(s) /\ WriteEv[s] \in EventsOf(s)
      /\ TimeEv[s] \in EventsOf(s) /\ EventsOf(s) \subseteq Events
      /\ ReadEv[s] # WriteEv[s] /\ TimeEv[s] # WriteEv[s]
  BY KInvGood, EventsApart DEF EventsOf
<1>2. PICK d : d = Dequeue(base, WriteEv[s])
  OBVIOUS
<1>3. /\ s \in alive /\ d.flags[WriteEv[s]] = {}
      /\ \A x \in Events \ {WriteEv[s]} : d.flags[x] = base.flags[x]
  BY <1>1, <1>2, CalledBack DEF WriteMore, WriteFails, Writes, KInv
<1>4. Good(d, alive, FdOf)
  BY <1>1, <1>2, DequeueGood
<1>5. Rearm(s) /\ base' = addWrite(d, s, 0, FdOf[s])
  <2>1. base.fd[WriteEv[s]] = FdOf[s]
    BY <1>1, <1>3 DEF Good, Placed
  <2> QED
    BY <1>2, <2>1 DEF WriteMore, WriteFails, Rearm
<1>6. Good(base', alive, FdOf)
  BY <1>3, <1>4, <1>5, AddWriteGood
<1>7. {"INSERTED", "TIMEOUT"} \subseteq base'.flags[WriteEv[s]]
  BY <1>3, <1>4, <1>5, AddWriteGood
<1>8. \A x \in Events \ {WriteEv[s]} : base'.flags[x] = d.flags[x]
  BY <1>3, <1>4, <1>5, AddWriteGood
<1>9. /\ \A u \in Sessions : session'[u].fd = session[u].fd
      /\ \A u \in Sessions \ {s} : session'[u] = session[u]
      /\ session'[s].reading = session[s].reading /\ session'[s].writing = 1
  BY <1>5 DEF Rearm, KInv, IInv, TypeOK, SessionType
<1>10. Listens(base', s, session'[s].reading, session'[s].writing)
  BY <1>1, <1>3, <1>7, <1>8, <1>9 DEF KInv, Listens, Armed
<1>11. alive' = alive /\ net'.open = net.open
  BY <1>5 DEF Rearm, WriteMore, WriteFails, KInv, IInv, TypeOK, NetType
<1>12. \A x \in Events \ EventsOf(s) : base'.flags[x] = base.flags[x]
  BY <1>1, <1>3, <1>8
<1> QED
  BY <1>3, <1>6, <1>9, <1>10, <1>11, <1>12, KeepOpen

(* onTimer with its heartbeat keeps KInv.                                    *)
LEMMA KInvTimer ==
  ASSUME KInv, IInv', NEW s \in Sessions, onTimer(s)
  PROVE  KInv'
<1>1. PICK d : d = Dequeue(base, TimeEv[s])
  OBVIOUS
<1>2. PICK beats : beats = (session[s].task = "playback")
  OBVIOUS
<1>3. PICK c : c = IF beats THEN addWrite(d, s, session[s].writing, EventFd(d, s)) ELSE d
  OBVIOUS
<1>4. /\ Good(base, alive, FdOf) /\ ReadEv[s] \in EventsOf(s) /\ WriteEv[s] \in EventsOf(s)
      /\ TimeEv[s] \in EventsOf(s) /\ EventsOf(s) \subseteq Events
      /\ ReadEv[s] # WriteEv[s] /\ TimeEv[s] # WriteEv[s] /\ TimeEv[s] # ReadEv[s]
  BY KInvGood, EventsApart DEF EventsOf
<1>5. /\ s \in alive /\ d.flags[TimeEv[s]] = {}
      /\ \A x \in Events \ {TimeEv[s]} : d.flags[x] = base.flags[x]
  BY <1>1, <1>4, CalledBack DEF onTimer, KInv
<1>6. Good(d, alive, FdOf)
  BY <1>1, <1>4, DequeueGood
<1>7. Listens(base, s, session[s].reading, session[s].writing)
  BY <1>5 DEF KInv
<1>8. /\ session[s].writing \in {0, 1}
      /\ session[s].writing = 0 => d.flags[WriteEv[s]] = {}
      /\ session[s].writing = 1 => Armed(d, WriteEv[s])
  <2>1. session[s].writing \in {0, 1} /\ (session[s].writing = 0 => base.flags[WriteEv[s]] = {})
    BY DEF KInv, IInv, TypeOK, SessionType, NotWriting
  <2> QED
    BY <1>4, <1>5, <1>7, <2>1 DEF Listens, Armed
<1>9. /\ Good(c, alive, FdOf)
      /\ \A x \in Events \ {WriteEv[s]} : c.flags[x] = d.flags[x]
      /\ IF beats THEN Armed(c, WriteEv[s]) ELSE c.flags[WriteEv[s]] = d.flags[WriteEv[s]]
  <2>1. CASE beats
    BY <1>3, <1>5, <1>6, <1>8, <2>1, ArmWrite
  <2>2. CASE ~beats
    BY <1>3, <1>6, <2>2
  <2> QED
    BY <2>1, <2>2
<1>10. base' = event_add(c, TimeEv[s], TRUE) /\ "ACTIVE" \notin c.flags[TimeEv[s]]
  BY <1>1, <1>2, <1>3, <1>4, <1>5, <1>9 DEF onTimer
<1>11. Good(base', alive, FdOf)
  BY <1>9, <1>10, AddTimerGood
<1>12. "TIMEOUT" \in base'.flags[TimeEv[s]]
  BY <1>9, <1>10, AddTimerGood
<1>13. \A x \in Events \ {TimeEv[s]} : base'.flags[x] = c.flags[x]
  BY <1>9, <1>10, AddTimerGood
<1>14. session' = [session EXCEPT ![s].writing = IF beats THEN 1 ELSE @]
  BY <1>2 DEF onTimer
<1>15. /\ \A u \in Sessions : session'[u].fd = session[u].fd
       /\ \A u \in Sessions \ {s} : session'[u] = session[u]
       /\ session'[s].reading = session[s].reading
       /\ session'[s].writing = IF beats THEN 1 ELSE session[s].writing
  BY <1>14 DEF KInv, IInv, TypeOK, SessionType
<1>16. base'.flags[ReadEv[s]] = base.flags[ReadEv[s]] /\ base'.flags[WriteEv[s]] = c.flags[WriteEv[s]]
  BY <1>4, <1>5, <1>9, <1>13
<1>17. Listens(base', s, session'[s].reading, session'[s].writing)
  BY <1>7, <1>8, <1>9, <1>12, <1>15, <1>16 DEF Listens, Armed
<1>18. \A x \in Events \ EventsOf(s) : base'.flags[x] = base.flags[x]
  BY <1>4, <1>5, <1>9, <1>13
<1>19. alive' = alive /\ net'.open = net.open
  BY DEF onTimer
<1> QED
  BY <1>5, <1>11, <1>15, <1>17, <1>18, <1>19, KeepOpen

(* Every step of the server keeps the invariant.                             *)
LEMMA KInvNext == KInv /\ [Next]_vars => KInv'
<1> SUFFICES ASSUME KInv, [Next]_vars PROVE KInv'
  OBVIOUS
<1>1. IInv'
  BY IInvNext DEF KInv
<1>2. \A s \in alive : base.fd[ReadEv[s]] = FdOf[s] /\ base.fd[WriteEv[s]] = FdOf[s]
  BY DEF KInv, Placed
<1>3. CASE Callbacks
  <2>1. CASE AcceptFails
    BY <1>1, <2>1, KInvLoop
  <2>2. ASSUME NEW s \in Sessions, NEW f \in Fds, onAccept(s, f) PROVE KInv'
    BY <1>1, <2>2, KInvAccept
  <2>3. ASSUME NEW s \in Sessions, ReadClose(s) PROVE KInv'
    <3>1. ReadEv[s] \in EventsOf(s) /\ Callback(ReadEv[s])
      BY <2>3 DEF EventsOf, ReadClose
    <3>2. CloseSession(Dequeue(base, ReadEv[s]), s, FdOf[s])
      BY <1>2, <2>3, <3>1, CalledBack DEF ReadClose, KInv
    <3> QED
      BY <1>1, <3>1, <3>2, KInvClose
  <2>4. ASSUME NEW s \in Sessions, ReadMore(s) PROVE KInv'
    BY <1>1, <2>4, KInvReadMore
  <2>5. ASSUME NEW s \in Sessions, WriteStop(s) PROVE KInv'
    BY <1>1, <2>5, KInvWriteStop
  <2>6. ASSUME NEW s \in Sessions, WriteMore(s) \/ WriteFails(s) PROVE KInv'
    BY <1>1, <2>6, KInvRearm
  <2>7. ASSUME NEW s \in Sessions, WriteExit(s) PROVE KInv'
    <3>1. WriteEv[s] \in EventsOf(s) /\ Callback(WriteEv[s])
      BY <2>7 DEF EventsOf, WriteExit, Writes
    <3>2. CloseSession(Dequeue(base, WriteEv[s]), s, FdOf[s])
      BY <1>2, <2>7, <3>1, CalledBack DEF WriteExit, KInv
    <3> QED
      BY <1>1, <3>1, <3>2, KInvClose
  <2>8. ASSUME NEW s \in Sessions, onTimer(s) PROVE KInv'
    BY <1>1, <2>8, KInvTimer
  <2> QED
    BY <1>3, <2>1, <2>2, <2>3, <2>4, <2>5, <2>6, <2>7, <2>8 DEF Callbacks, onRead, onWrite
<1>4. CASE Loop /\ ~Callbacks
  BY <1>1, <1>4, KInvLoop DEF Loop
<1>5. CASE Clients
  BY <1>1, <1>5, KInvLoop
<1>6. CASE UNCHANGED vars
  <2>1. UNCHANGED <<base, alive, session, net>>
    BY <1>6 DEF vars
  <2>2. FdOf' = FdOf
    BY <2>1 DEF FdOf
  <2> QED
    BY <1>1, <2>1, <2>2 DEF KInv
<1> QED
  BY <1>3, <1>4, <1>5, <1>6 DEF Next, Loop

-----------------------------------------------------------------------------

(* The epoll table, the inserted events and the kernel's interest set agree, *)
(* also when accept hands out a descriptor number that was just closed.      *)
THEOREM EpollIsConsistent == Spec => []EpollConsistent
<1>1. KInv => EpollConsistent
  BY DEF KInv, Agrees, EpollConsistent
<1> QED
  BY <1>1, KInvInit, KInvNext, PTL DEF Spec

(* A live session always waits for its client, its heartbeat is armed or     *)
(* due, and mWriting says exactly whether its write event is pending.        *)
THEOREM NoSessionIsDeaf == Spec => []NeverDeaf
<1>1. ASSUME KInv PROVE NeverDeaf
  <2>1. ASSUME NEW e \in Events, Armed(base, e) PROVE Pending(e)
    BY <1>1, <2>1 DEF KInv, IInv, BaseInv, FlagsMatchQueues, Armed, Pending
  <2>2. ASSUME NEW e \in Events, Pending(e) PROVE base.flags[e] # {}
    BY <1>1, <2>2 DEF KInv, IInv, BaseInv, FlagsMatchQueues, Pending
  <2>3. ASSUME NEW s \in alive
        PROVE  /\ session[s].reading = 1 /\ Pending(ReadEv[s])
               /\ TimeEv[s] \in base.timetree \cup base.activequeue
               /\ (session[s].writing = 1) <=> Pending(WriteEv[s])
    <3>1. /\ s \in Sessions /\ ReadEv[s] \in Events /\ WriteEv[s] \in Events
          /\ TimeEv[s] \in Events
      BY <1>1, EventsApart DEF KInv, IInv, TypeOK
    <3>2. Listens(base, s, session[s].reading, session[s].writing)
      BY <1>1 DEF KInv
    <3>3. session[s].writing \in {0, 1} /\ (session[s].writing = 0 => base.flags[WriteEv[s]] = {})
      BY <1>1, <3>1 DEF KInv, IInv, TypeOK, SessionType, NotWriting
    <3>4. TimeEv[s] \in base.timetree \cup base.activequeue
      BY <1>1, <3>1, <3>2 DEF Listens, KInv, IInv, BaseInv, FlagsMatchQueues
    <3> QED
      BY <2>1, <2>2, <3>1, <3>2, <3>3, <3>4 DEF Listens
  <2> QED
    BY <2>3 DEF NeverDeaf
<1> QED
  BY <1>1, KInvInit, KInvNext, PTL DEF Spec

-----------------------------------------------------------------------------
(* The SessionManager *)

(* The entry of a key is the live session with that key.                     *)
Entries == \A k \in Keys : \A s \in Sessions :
  manager.session[k] = s <=> (s \in alive /\ KeyOf(FdOf[s]) = k)

(* The row of a live session is allocated and holds its sequence number.     *)
Numbers == \A s \in alive : /\ RowOf(KeyOf(FdOf[s])) \in manager.rows
                            /\ session[s].seq = manager.seq[KeyOf(FdOf[s])]

(* A row that is missing has handed out no number: get_seq may say 0.        *)
Fresh == \A k \in Keys : RowOf(k) \notin manager.rows => manager.seq[k] = 0

Counted == IsFiniteSet(alive) /\ manager.count = Cardinality(alive)

MInv == KInv /\ Entries /\ Numbers /\ Fresh /\ Counted

(* Sessions with different descriptors have different keys.                  *)
LEMMA KeysApart ==
  ASSUME KInv, NEW s \in alive
  PROVE  /\ KeyOf(FdOf[s]) \in Keys /\ FdOf[s] \in Fds
         /\ \A u \in alive \ {s} : KeyOf(FdOf[u]) # KeyOf(FdOf[s])
<1>1. /\ FdOf[s] \in Fds
      /\ \A u \in alive : FdOf[u] \in Fds /\ (FdOf[u] = FdOf[s] => u = s)
  BY DEF KInv, Placed
<1>2. \A f, g \in Fds : KeyOf(f) = KeyOf(g) => f = g
  BY EventCallAssumption
<1> QED
  BY <1>1, <1>2, KeyType

(* A step that neither accepts nor closes leaves the manager alone.          *)
LEMMA MInvFrame ==
  ASSUME MInv, KInv', UNCHANGED <<alive, manager>>,
         \A u \in Sessions : session'[u].fd = session[u].fd /\ session'[u].seq = session[u].seq
  PROVE  MInv'
<1>1. FdOf' = FdOf /\ alive \subseteq Sessions
  BY DEF FdOf, MInv, KInv, IInv, TypeOK
<1> QED
  BY <1>1 DEF MInv, Entries, Numbers, Fresh, Counted

(* onAccept puts a session under a key and number nobody has.                *)
LEMMA MInvAccept ==
  ASSUME MInv, KInv', NEW s \in Sessions, NEW f \in Fds, onAccept(s, f)
  PROVE  MInv'
<1>1. PICK k \in Keys : k = KeyOf(f)
  BY KeyType
<1>2. /\ manager' = put(manager, k, s) /\ alive' = alive \cup {s} /\ s \notin alive
      /\ alive \subseteq Sessions /\ manager \in ManagerType
      /\ session'[s].fd = f /\ session'[s].seq = get_seq(manager, k)
      /\ \A u \in Sessions \ {s} : session'[u] = session[u]
  BY <1>1 DEF MInv, KInv, IInv, TypeOK, onAccept
<1>3. FdOf'[s] = f /\ \A u \in alive : FdOf'[u] = FdOf[u]
  BY <1>2 DEF FdOf
<1>4. /\ manager'.session = [manager.session EXCEPT ![k] = s]
      /\ manager'.seq = manager.seq /\ manager'.count = manager.count + 1
      /\ manager'.rows = manager.rows \cup {RowOf(k)}
      /\ manager.session \in [Keys -> Sessions \cup {NoSession}]
  BY <1>2 DEF put, ManagerType
<1>5. \A u \in alive : KeyOf(FdOf[u]) # k
  <2>1. \A u \in alive' \ {s} : KeyOf(FdOf'[u]) # KeyOf(FdOf'[s])
    <3>1. s \in alive' /\ \A u \in alive' : FdOf'[u] \in Fds /\ (FdOf'[u] = FdOf'[s] => u = s)
      BY <1>2 DEF KInv, Placed
    <3>2. \A x, y \in Fds : KeyOf(x) = KeyOf(y) => x = y
      BY EventCallAssumption
    <3> QED
      BY <3>1, <3>2
  <2> QED
    BY <1>1, <1>2, <1>3, <2>1
<1>6. Entries'
  <2>1. ASSUME NEW j \in Keys, NEW u \in Sessions
        PROVE  manager'.session[j] = u <=> (u \in alive' /\ KeyOf(FdOf'[u]) = j)
    <3>1. CASE j = k
      BY <1>1, <1>2, <1>3, <1>4, <1>5, <3>1
    <3>2. CASE j # k
      <4>1. manager'.session[j] = manager.session[j]
        BY <1>4, <3>2
      <4>2. manager.session[j] = u <=> (u \in alive /\ KeyOf(FdOf[u]) = j)
        BY DEF MInv, Entries
      <4> QED
        BY <1>1, <1>2, <1>3, <3>2, <4>1, <4>2
    <3> QED
      BY <3>1, <3>2
  <2> QED
    BY <2>1 DEF Entries
<1>7. Numbers'
  <2>1. session'[s].seq = manager.seq[k]
    BY <1>2 DEF get_seq, MInv, Fresh
  <2>2. ASSUME NEW u \in alive
        PROVE  /\ RowOf(KeyOf(FdOf'[u])) \in manager'.rows
               /\ session'[u].seq = manager'.seq[KeyOf(FdOf'[u])]
    BY <1>2, <1>3, <1>4 DEF MInv, Numbers
  <2> QED
    BY <1>1, <1>2, <1>3, <1>4, <2>1, <2>2 DEF Numbers
<1>8. Fresh' /\ Counted'
  BY <1>2, <1>4, FS_AddElement DEF MInv, Fresh, Counted
<1> QED
  BY <1>6, <1>7, <1>8 DEF MInv

(* A callback that ends its session removes exactly its entry.               *)
LEMMA MInvClose ==
  ASSUME MInv, KInv', NEW s \in alive,
         manager' = remove(manager, KeyOf(FdOf[s])), alive' = alive \ {s},
         \A u \in Sessions \ {s} : session'[u] = session[u]
  PROVE  MInv'
<1>1. PICK k \in Keys : k = KeyOf(FdOf[s])
  BY KeysApart DEF MInv
<1>2. /\ alive \subseteq Sessions /\ manager \in ManagerType
      /\ \A u \in alive' : FdOf'[u] = FdOf[u] /\ session'[u] = session[u] /\ KeyOf(FdOf[u]) # k
  <2>1. alive \subseteq Sessions /\ manager \in ManagerType
    BY DEF MInv, KInv, IInv, TypeOK
  <2> QED
    BY <1>1, <2>1, KeysApart DEF MInv, FdOf
<1>3. RowOf(k) \in manager.rows
  BY <1>1 DEF MInv, Numbers
<1>4. /\ manager'.session = [manager.session EXCEPT ![k] = NoSession]
      /\ manager'.seq = [manager.seq EXCEPT ![k] = (@ + 1) % SeqMod]
      /\ manager'.rows = manager.rows /\ manager'.count = manager.count - 1
      /\ manager.session \in [Keys -> Sessions \cup {NoSession}]
      /\ manager.seq \in [Keys -> 0..(SeqMod - 1)]
  BY <1>1, <1>2, <1>3 DEF remove, ManagerType
<1>5. Entries'
  <2>1. ASSUME NEW j \in Keys, NEW u \in Sessions
        PROVE  manager'.session[j] = u <=> (u \in alive' /\ KeyOf(FdOf'[u]) = j)
    <3>1. CASE j = k
      BY <1>2, <1>4, <3>1, ManagerAssumption
    <3>2. CASE j # k
      <4>1. manager'.session[j] = manager.session[j]
        BY <1>4, <3>2
      <4>2. manager.session[j] = u <=> (u \in alive /\ KeyOf(FdOf[u]) = j)
        BY DEF MInv, Entries
      <4> QED
        BY <1>1, <1>2, <3>2, <4>1, <4>2
    <3> QED
      BY <3>1, <3>2
  <2> QED
    BY <2>1 DEF Entries
<1>6. Numbers'
  <2>1. ASSUME NEW u \in alive'
        PROVE  /\ RowOf(KeyOf(FdOf'[u])) \in manager'.rows
               /\ session'[u].seq = manager'.seq[KeyOf(FdOf'[u])]
    <3>1. KeyOf(FdOf[u]) \in Keys
      BY KeysApart DEF MInv
    <3> QED
      BY <1>2, <1>4, <3>1 DEF MInv, Numbers
  <2> QED
    BY <2>1 DEF Numbers
<1>7. Fresh'
  BY <1>3, <1>4 DEF MInv, Fresh
<1>8. Counted'
  BY <1>4, FS_RemoveElement DEF MInv, Counted
<1> QED
  BY <1>5, <1>6, <1>7, <1>8 DEF MInv

(* Initially the manager is empty and no session exists.                     *)
LEMMA MInvInit == Init => MInv
<1> SUFFICES ASSUME Init PROVE MInv
  OBVIOUS
<1>1. alive = {} /\ manager = EmptyManager
  BY DEF Init
<1>2. Entries
  BY <1>1, ManagerAssumption DEF Entries, EmptyManager
<1>3. Numbers /\ Fresh
  BY <1>1 DEF Numbers, Fresh, EmptyManager
<1>4. Counted
  BY <1>1, FS_EmptySet DEF Counted, EmptyManager
<1> QED
  BY <1>2, <1>3, <1>4, KInvInit DEF MInv

(* Every step keeps manager and sessions in step.                            *)
LEMMA MInvNext == MInv /\ [Next]_vars => MInv'
<1> SUFFICES ASSUME MInv, [Next]_vars PROVE MInv'
  OBVIOUS
<1>1. KInv /\ KInv'
  BY KInvNext DEF MInv
<1>2. /\ session \in [Sessions -> SessionType]
      /\ \A s \in alive : base.fd[ReadEv[s]] = FdOf[s] /\ base.fd[WriteEv[s]] = FdOf[s]
  BY <1>1 DEF KInv, IInv, TypeOK, Placed
<1>3. ASSUME NEW s \in Sessions, NEW e \in EventsOf(s), Callback(e),
             NEW f, f = base.fd[ReadEv[s]] \/ f = base.fd[WriteEv[s]],
             CloseSession(Dequeue(base, e), s, f)
      PROVE  MInv'
  <2>1. s \in alive
    BY <1>1, <1>3, CalledBack DEF KInv
  <2>2. /\ manager' = remove(manager, KeyOf(FdOf[s])) /\ alive' = alive \ {s}
        /\ \A u \in Sessions \ {s} : session'[u] = session[u]
    BY <1>2, <1>3, <2>1 DEF CloseSession
  <2> QED
    BY <1>1, <2>1, <2>2, MInvClose
<1>4. ASSUME NEW s \in Sessions, ReadMore(s) \/ WriteStop(s) \/ WriteMore(s) \/ WriteFails(s) \/ onTimer(s)
      PROVE  MInv'
  <2>1. UNCHANGED <<alive, manager>>
    BY <1>4 DEF ReadMore, WriteStop, WriteMore, WriteFails, Rearm, onTimer
  <2>2. \A u \in Sessions : session'[u].fd = session[u].fd /\ session'[u].seq = session[u].seq
    <3>1. CASE ReadMore(s)
      <4>1. \E w, t : session' = [session EXCEPT ![s].reading = 1, ![s].writing = w, ![s].task = t]
        BY <3>1 DEF ReadMore
      <4> QED
        BY <1>2, <4>1 DEF SessionType
    <3>2. CASE WriteStop(s)
      BY <1>2, <3>2 DEF WriteStop, SessionType
    <3>3. CASE WriteMore(s) \/ WriteFails(s)
      BY <1>2, <3>3 DEF WriteMore, WriteFails, Rearm, SessionType
    <3>4. CASE onTimer(s)
      <4>1. \E w : session' = [session EXCEPT ![s].writing = w]
        BY <3>4 DEF onTimer
      <4> QED
        BY <1>2, <4>1 DEF SessionType
    <3> QED
      BY <1>4, <3>1, <3>2, <3>3, <3>4
  <2> QED
    BY <1>1, <2>1, <2>2, MInvFrame
<1>5. CASE Callbacks
  <2>1. CASE AcceptFails
    BY <1>1, <2>1, MInvFrame DEF AcceptFails
  <2>2. ASSUME NEW s \in Sessions, NEW f \in Fds, onAccept(s, f) PROVE MInv'
    BY <1>1, <2>2, MInvAccept
  <2>3. ASSUME NEW s \in Sessions, ReadClose(s) PROVE MInv'
    <3>1. ReadEv[s] \in EventsOf(s)
      BY DEF EventsOf
    <3>2. Callback(ReadEv[s])
      BY <2>3 DEF ReadClose
    <3>3. CloseSession(Dequeue(base, ReadEv[s]), s, base.fd[ReadEv[s]])
      BY <2>3 DEF ReadClose
    <3> QED
      BY <1>3, <3>1, <3>2, <3>3
  <2>4. ASSUME NEW s \in Sessions, WriteExit(s) PROVE MInv'
    <3>1. WriteEv[s] \in EventsOf(s)
      BY DEF EventsOf
    <3>2. Callback(WriteEv[s])
      BY <2>4 DEF WriteExit, Writes
    <3>3. CloseSession(Dequeue(base, WriteEv[s]), s, base.fd[WriteEv[s]])
      BY <2>4 DEF WriteExit
    <3> QED
      BY <1>3, <3>1, <3>2, <3>3
  <2> QED
    BY <1>4, <1>5, <2>1, <2>2, <2>3, <2>4 DEF Callbacks, onRead, onWrite
<1>6. CASE (Loop /\ ~Callbacks) \/ Clients \/ UNCHANGED vars
  <2>1. UNCHANGED <<alive, manager, session>>
    BY <1>6 DEF Loop, Clients, vars, EpollWait, Report, ReportDone, Expire, ExpireDone, ActiveDone,
       Connect, ClientSend, ClientClose, ClientDrain
  <2> QED
    BY <1>1, <2>1, MInvFrame
<1> QED
  BY <1>5, <1>6 DEF Next, Loop

(* The SessionManager agrees with the connections: one entry per live        *)
(* session, under the key of its descriptor, with its sequence number, one   *)
(* open descriptor for each of them, and mCount counts them.                 *)
THEOREM ManagerIsRight == Spec => []ManagerAgrees
<1>1. ASSUME MInv PROVE ManagerAgrees
  <2>1. alive \subseteq Sessions /\ \A s \in Sessions : FdOf[s] = session[s].fd
    BY <1>1 DEF MInv, KInv, IInv, TypeOK, FdOf
  <2>2. \A k \in Keys : \A s \in Sessions :
          manager.session[k] = s <=> (s \in alive /\ KeyOf(session[s].fd) = k)
    BY <1>1, <2>1 DEF MInv, Entries
  <2>3. \A s \in alive : session[s].seq = get_seq(manager, KeyOf(session[s].fd))
    BY <1>1, <2>1 DEF MInv, Numbers, get_seq
  <2>4. net.open = {ListenFd} \cup {session[s].fd : s \in alive}
    BY <1>1, <2>1 DEF MInv, KInv
  <2>5. manager.count = Cardinality(alive)
    BY <1>1 DEF MInv, Counted
  <2> QED
    BY <2>2, <2>3, <2>4, <2>5 DEF ManagerAgrees
<1> QED
  BY <1>1, MInvInit, MInvNext, PTL DEF Spec

=============================================================================
