------------------------------ MODULE EventBase ------------------------------
(***************************************************************************)
(* The event base of EventServer/net (a fork of libevent 1.1b): event.c     *)
(* and its epoll back end epoll.c.  The base is one record, so that a       *)
(* callback which makes several calls composes them as operators.           *)
(*                                                                          *)
(* An event belongs to the queues its ev_flags name; the queues themselves  *)
(* are kept apart from the flags, because event_set clears the flags of an  *)
(* event without unlinking it.  The active queue is the set of its members: *)
(* epoll_wait reports descriptors in any order, and every order of the      *)
(* callbacks of one batch is allowed.                                       *)
(***************************************************************************)
EXTENDS Naturals, FiniteSets

CONSTANTS
  Events,    \* the struct event objects the program allocates
  Fds,       \* file descriptors
  What,      \* ev_events of each event: a subset of READ, WRITE, PERSIST
  NoEvent,   \* a null struct event pointer
  NoFd       \* the descriptor -1 of a pure timer

Queues    == {"TIMEOUT", "INSERTED", "ACTIVE"}   \* EVLIST_* bits of ev_flags
Results   == {"READ", "WRITE", "TIMEOUT"}        \* EV_* bits of ev_res
Interests == {"IN", "OUT"}                       \* EPOLLIN, EPOLLOUT

ASSUME EventsAssumption ==
  /\ NoEvent \notin Events
  /\ NoFd \notin Fds
  /\ What \in [Events -> SUBSET {"READ", "WRITE", "PERSIST"}]

\* struct event (flags, fd, res), struct event_base (timetree, eventqueue,
\* activequeues), the table epollop.fds (evread, evwrite) and the interest
\* set the kernel holds for each descriptor ({}: not registered).
BaseType ==
  [ flags       : [Events -> SUBSET Queues],
    fd          : [Events -> Fds \cup {NoFd}],
    res         : [Events -> SUBSET Results],
    timetree    : SUBSET Events,
    eventqueue  : SUBSET Events,
    activequeue : SUBSET Events,
    evread      : [Fds -> Events \cup {NoEvent}],
    evwrite     : [Fds -> Events \cup {NoEvent}],
    kernel      : [Fds -> SUBSET Interests] ]

\* event_init: no event on any queue, an empty epoll table.
EmptyBase ==
  [ flags       |-> [e \in Events |-> {}],
    fd          |-> [e \in Events |-> NoFd],
    res         |-> [e \in Events |-> {}],
    timetree    |-> {},
    eventqueue  |-> {},
    activequeue |-> {},
    evread      |-> [f \in Fds |-> NoEvent],
    evwrite     |-> [f \in Fds |-> NoEvent],
    kernel      |-> [f \in Fds |-> {}] ]

-----------------------------------------------------------------------------
(* epoll.c *)

WantsOf(e) == (IF "READ" \in What[e] THEN {"IN"} ELSE {})
                \cup (IF "WRITE" \in What[e] THEN {"OUT"} ELSE {})

Registered(b, f) == (IF b.evread[f] # NoEvent THEN {"IN"} ELSE {})
                      \cup (IF b.evwrite[f] # NoEvent THEN {"OUT"} ELSE {})

\* epoll_ctl: EPOLL_CTL_ADD fails on a registered descriptor, EPOLL_CTL_MOD
\* on an unregistered one.
CtlFails(b, f, op) == (op = "ADD") <=> (b.kernel[f] # {})

epoll_add(b, e) ==
  LET f  == b.fd[e]
      op == IF Registered(b, f) = {} THEN "ADD" ELSE "MOD"
  IN  IF CtlFails(b, f, op)
      THEN b
      ELSE [b EXCEPT !.kernel[f]  = Registered(b, f) \cup WantsOf(e),
                     !.evread[f]  = IF "READ" \in What[e] THEN e ELSE @,
                     !.evwrite[f] = IF "WRITE" \in What[e] THEN e ELSE @]

\* Mutant of epoll_del: both entries are always cleared.
epoll_del_both(b, e) ==
  LET f == b.fd[e]
  IN  [b EXCEPT !.evread[f] = NoEvent, !.evwrite[f] = NoEvent, !.kernel[f] = {}]

\* Mutant of epoll_del: the kernel is told, the table is not.
epoll_del_kernel(b, e) == [b EXCEPT !.kernel[b.fd[e]] = {}]

\* Deleting one direction keeps the other one when the table has it
\* (needreaddelete, needwritedelete); otherwise both entries are cleared.
epoll_del(b, e) ==
  LET f    == b.fd[e]
      keep == (IF WantsOf(e) = {"OUT"} /\ b.evread[f] # NoEvent THEN {"IN"} ELSE {})
                \cup (IF WantsOf(e) = {"IN"} /\ b.evwrite[f] # NoEvent
                      THEN {"OUT"} ELSE {})
  IN  [b EXCEPT !.evread[f]  = IF "IN" \in keep THEN @ ELSE NoEvent,
                !.evwrite[f] = IF "OUT" \in keep THEN @ ELSE NoEvent,
                !.kernel[f]  = IF @ = {} THEN @ ELSE keep]

\* free of an event's memory: its fields are gone, a queue may still hold it.
Free(b, e) == [b EXCEPT !.fd[e] = NoFd]

\* close(2) drops the kernel's registration, never the table's.
CloseFd(b, f) == [b EXCEPT !.kernel[f] = {}]

-----------------------------------------------------------------------------
(* event.c.  ev_res means something on the active queue only: it is cleared *)
(* when the event leaves it.                                                *)

\* event_set with event_base_set: the flags are reset whatever queue the event
\* is on.  evtimer_set passes NoFd.
event_set(b, e, f) == [b EXCEPT !.flags[e] = {}, !.fd[e] = f]

\* event_add with a timeout (timed) or without.  An event active because of a
\* timeout is rescheduled: it leaves the active queue.
event_add(b, e, timed) ==
  LET resched == timed /\ "ACTIVE" \in b.flags[e] /\ "TIMEOUT" \in b.res[e]
      c == [b EXCEPT
              !.flags[e]    = (IF resched THEN @ \ {"ACTIVE"} ELSE @)
                                \cup (IF timed THEN {"TIMEOUT"} ELSE {}),
              !.timetree    = IF timed THEN @ \cup {e} ELSE @,
              !.activequeue = IF resched THEN @ \ {e} ELSE @]
  IN  IF WantsOf(e) # {} /\ c.flags[e] \cap {"INSERTED", "ACTIVE"} = {}
      THEN epoll_add([c EXCEPT !.flags[e]   = @ \cup {"INSERTED"},
                               !.eventqueue = @ \cup {e}], e)
      ELSE c

event_del(b, e) ==
  LET was == b.flags[e]
      c == [b EXCEPT
              !.flags[e]    = {},
              !.res[e]      = {},
              !.timetree    = IF "TIMEOUT" \in was THEN @ \ {e} ELSE @,
              !.activequeue = IF "ACTIVE" \in was THEN @ \ {e} ELSE @,
              !.eventqueue  = IF "INSERTED" \in was THEN @ \ {e} ELSE @]
  IN  IF "INSERTED" \in was THEN epoll_del(c, e) ELSE c

event_active(b, e, r) ==
  IF "ACTIVE" \in b.flags[e]
  THEN [b EXCEPT !.res[e] = @ \cup {r}]
  ELSE [b EXCEPT !.res[e]      = {r},
                 !.flags[e]    = @ \cup {"ACTIVE"},
                 !.activequeue = @ \cup {e}]

-----------------------------------------------------------------------------
(* One step of each loop of event_base_loop *)

\* Mutant of DelIfOneShot: EV_PERSIST is ignored.
DelAlways(b, e) == IF e = NoEvent THEN b ELSE event_del(b, e)

DelIfOneShot(b, e) ==
  IF e = NoEvent THEN b
  ELSE IF "PERSIST" \in What[e] THEN b ELSE event_del(b, e)

ActiveIfAny(b, e, r) == IF e = NoEvent THEN b ELSE event_active(b, e, r)

\* The body of epoll_dispatch's loop for descriptor f reported with `what'.
epoll_report(b, f, what) ==
  LET evread  == IF "IN" \in what THEN b.evread[f] ELSE NoEvent
      evwrite == IF "OUT" \in what THEN b.evwrite[f] ELSE NoEvent
      c == DelIfOneShot(DelIfOneShot(b, evread), evwrite)
  IN  ActiveIfAny(ActiveIfAny(c, evread, "READ"), evwrite, "WRITE")

\* The body of timeout_process's loop for the expired event e.
timeout_expire(b, e) ==
  LET c == [b EXCEPT !.flags[e] = @ \ {"TIMEOUT"}, !.timetree = @ \ {e}]
  IN  event_active(event_del(c, e), e, "TIMEOUT")

\* event_process_active unlinks the event before it calls back.
Dequeue(b, e) == [b EXCEPT !.flags[e]    = @ \ {"ACTIVE"},
                           !.res[e]      = {},
                           !.activequeue = @ \ {e}]

-----------------------------------------------------------------------------
(* What the base promises *)

\* An event is linked on exactly the queues its flags name: no call reset the
\* flags of a linked event (event_set) or unlinked it twice.
FlagsMatchQueues(b) ==
  \A e \in Events :
    /\ ("TIMEOUT"  \in b.flags[e]) <=> (e \in b.timetree)
    /\ ("INSERTED" \in b.flags[e]) <=> (e \in b.eventqueue)
    /\ ("ACTIVE"   \in b.flags[e]) <=> (e \in b.activequeue)

\* The epoll table, the event queue and the kernel agree on who waits for what.
EpollAgrees(b) ==
  /\ \A f \in Fds :
       /\ b.kernel[f] = Registered(b, f)
       /\ b.evread[f] # NoEvent =>
            /\ b.evread[f] \in b.eventqueue
            /\ b.fd[b.evread[f]] = f
            /\ WantsOf(b.evread[f]) = {"IN"}
       /\ b.evwrite[f] # NoEvent =>
            /\ b.evwrite[f] \in b.eventqueue
            /\ b.fd[b.evwrite[f]] = f
            /\ WantsOf(b.evwrite[f]) = {"OUT"}
  /\ \A e \in b.eventqueue :
       /\ b.fd[e] \in Fds
       /\ "READ"  \in What[e] => b.evread[b.fd[e]] = e
       /\ "WRITE" \in What[e] => b.evwrite[b.fd[e]] = e

\* Every event the base could still touch or call back.
Referenced(b) ==
  b.timetree \cup b.eventqueue \cup b.activequeue
    \cup {b.evread[f] : f \in Fds} \cup {b.evwrite[f] : f \in Fds}
=============================================================================
