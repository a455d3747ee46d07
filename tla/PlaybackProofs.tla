----------------------------- MODULE PlaybackProofs -----------------------------
(***************************************************************************)
(* What holds of a playback for every file, section, buffer and number of   *)
(* commands: frames arrive in order, only a seek breaks the framing, and a  *)
(* stopped stream is announced.                                             *)
(***************************************************************************)
EXTENDS Playback, SequenceTheorems, TLAPS

(* Sequences, as callbacks extend them and as the client reads them. *)

(* What a callback sends is added one item after the other.                  *)
LEMMA SendIsAppend ==
  ASSUME NEW s \in Seq(Items), NEW x \in Items, NEW y \in Items
  PROVE  s \o <<x>> = Append(s, x) /\ s \o <<x, y>> = Append(Append(s, x), y)
OBVIOUS

(* The stream as seen by the client: what it last heard comes first.         *)
LEMMA HeardFirst ==
  ASSUME NEW h \in Items, NEW s \in Seq(Items)
  PROVE  /\ <<h>> \o s \in Seq(Items)
         /\ Len(<<h>> \o s) = Len(s) + 1
         /\ (<<h>> \o s)[1] = h
         /\ \A i \in 1..Len(s) : (<<h>> \o s)[i + 1] = s[i]
OBVIOUS

(* Sending extends the stream the client will see.                           *)
LEMMA HeardAppend ==
  ASSUME NEW h \in Items, NEW s \in Seq(Items), NEW x \in Items
  PROVE  <<h>> \o Append(s, x) = Append(<<h>> \o s, x)
OBVIOUS

(* Reading replaces the first two items of the stream by what was heard.     *)
Drops(S, T) == /\ S \in Seq(Items) /\ T \in Seq(Items)
               /\ Len(T) >= 1 /\ Len(S) = Len(T) + 1
               /\ \A i \in 2..Len(T) : T[i] = S[i + 1]

(* Reading an item, with or without hearing something new, drops it.         *)
LEMMA HeardDrops ==
  ASSUME NEW h \in Items, NEW g \in Items, NEW s \in Seq(Items), s # <<>>
  PROVE  /\ Drops(<<h>> \o s, <<g>> \o Tail(s))
         /\ (<<h>> \o s)[1] = h /\ (<<h>> \o s)[2] = Head(s)
         /\ (<<g>> \o Tail(s))[1] = g
BY DEF Drops

(* Heard and Item are items, whatever the number.                            *)
LEMMA ItemsAreItems ==
  /\ \A n \in Nat : Heard(n) \in Items
  /\ \A c \in Commands \cup {"PAYLOAD"}, n \in Nat : Item(c, n) \in Items
BY DEF Heard, Item, Items, Commands

-----------------------------------------------------------------------------
(* Types. *)

(* The numbers that the model counts with.                                   *)
LEMMA Numbers ==
  /\ FileFrames \in Nat /\ FileFrames >= 1 /\ SegFrames \in Nat /\ Capacity \in Nat
  /\ MaxRequests \in Nat /\ MaxSeeks \in Nat /\ Keyframes \subseteq 1..FileFrames
BY PlaybackAssumption

WireOK(s) == /\ s \in Seq(Items)
             /\ \A i \in 1..Len(s) : s[i].cmd = "VIDEO" => s[i].n \in 1..FileFrames

(* A callback that sends one item or two, of which a header names a frame of *)
(* the file, keeps the type of the wire and its bound.                       *)
LEMMA SendOne ==
  ASSUME TypeOK, Running, NEW x \in Items, x.cmd = "VIDEO" => x.n \in 1..FileFrames,
         Send(<<x>>)
  PROVE  WireOK(toClient') /\ Len(toClient') <= Capacity + 2
<1>1. toClient \in Seq(Items) /\ WireOK(toClient)
  BY DEF TypeOK, WireOK
<1>2. CASE conn = "open"
  <2>1. toClient' = Append(toClient, x)
    BY <1>1, <1>2, SendIsAppend DEF Send
  <2>2. Len(toClient) <= Capacity
    BY <1>2 DEF Running
  <2> QED
    BY <1>1, <2>1, <2>2, Numbers DEF WireOK
<1>3. CASE conn # "open"
  BY <1>1, <1>3 DEF Send, TypeOK
<1> QED
  BY <1>2, <1>3

(* The same of two items that are no headers.                                *)
LEMMA SendTwo ==
  ASSUME TypeOK, Running, NEW x \in Items, NEW y \in Items,
         x.cmd # "VIDEO", y.cmd # "VIDEO", Send(<<x, y>>)
  PROVE  WireOK(toClient') /\ Len(toClient') <= Capacity + 2
<1>1. toClient \in Seq(Items) /\ WireOK(toClient)
  BY DEF TypeOK, WireOK
<1>2. CASE conn = "open"
  <2>1. toClient' = Append(Append(toClient, x), y)
    BY <1>1, <1>2, SendIsAppend DEF Send
  <2>2. Len(toClient) <= Capacity
    BY <1>2 DEF Running
  <2>3. WireOK(Append(toClient, x)) /\ Len(Append(toClient, x)) = Len(toClient) + 1
    BY <1>1 DEF WireOK
  <2> QED
    BY <2>1, <2>2, <2>3, Numbers DEF WireOK
<1>3. CASE conn # "open"
  BY <1>1, <1>3 DEF Send, TypeOK
<1> QED
  BY <1>2, <1>3

TaskType == [ next : 1..(FileFrames + 1), count : 0..SegFrames, sending : BOOLEAN,
              buffer : {Empty, Unsent} \cup {Payload(n) : n \in 1..FileFrames},
              queue : Seq({"PING", "SEEK_CMPD"}) ]

(* What tcpSendData leaves in the buffer is empty, a payload or unsent.      *)
LEMMA SentBuffer ==
  ASSUME NEW b
  PROVE  tcpSendData(b) \in {b, Unsent}
BY DEF tcpSendData

(* The write callback keeps the types.                                       *)
LEMMA TypeWrite ==
  ASSUME TypeOK, writeBuffer
  PROVE  TypeOK'
<1>0. task \in TaskType /\ Running
  BY DEF TypeOK, TaskType, writeBuffer, WritePending, WriteQueued, WriteNothing, WriteSectionEnd,
     WriteFrame, WriteDataEnd, Idle, OnWrite
<1>1. CASE WritePending
  <2>1. Item("PAYLOAD", task.buffer.n) \in Items /\ Item("PAYLOAD", task.buffer.n).cmd = "PAYLOAD"
    <3>1. task.buffer.n \in Nat
      BY <1>0, <1>1 DEF TaskType, Empty, Unsent, Payload
    <3> QED
      BY <3>1, ItemsAreItems DEF Item
  <2>2. WireOK(toClient') /\ Len(toClient') <= Capacity + 2
    BY <1>0, <1>1, <2>1, SendOne DEF WritePending
  <2>3. task' \in TaskType
    BY <1>0, <1>1 DEF WritePending, TaskType
  <2> QED
    BY <1>1, <2>2, <2>3 DEF WritePending, TypeOK, TaskType, WireOK
<1>2. CASE WriteQueued
  <2>1. Head(task.queue) \in {"PING", "SEEK_CMPD"} /\ Tail(task.queue) \in Seq({"PING", "SEEK_CMPD"})
    BY <1>0, <1>2 DEF WriteQueued, TaskType
  <2>2. Item(Head(task.queue), 0) \in Items /\ Item(Head(task.queue), 0).cmd # "VIDEO"
    BY <2>1, ItemsAreItems DEF Item, Commands
  <2>3. WireOK(toClient') /\ Len(toClient') <= Capacity + 2
    BY <1>0, <1>2, <2>2, SendOne DEF WriteQueued
  <2>4. task' \in TaskType
    BY <1>0, <1>2, <2>1, SentBuffer DEF WriteQueued, TaskType
  <2> QED
    BY <1>2, <2>3, <2>4 DEF WriteQueued, TypeOK, TaskType, WireOK
<1>3. CASE WriteNothing
  BY <1>3 DEF WriteNothing, TypeOK
<1>4. CASE WriteSectionEnd
  <2>1. Item("SECTION_END", 0) \in Items /\ Item("SECTION_END", 0).cmd # "VIDEO"
    BY ItemsAreItems DEF Item, Commands
  <2>2. WireOK(toClient') /\ Len(toClient') <= Capacity + 2
    BY <1>0, <1>4, <2>1, SendOne DEF WriteSectionEnd
  <2>3. 0 \in 0..SegFrames /\ tcpSendData(Empty) \in {Empty, Unsent}
    BY SentBuffer, Numbers
  <2>4. task' = [task EXCEPT !.count = 0, !.sending = FALSE, !.buffer = tcpSendData(Empty)]
    BY <1>4 DEF WriteSectionEnd
  <2>5. task' \in TaskType
    BY <1>0, <2>3, <2>4 DEF TaskType
  <2> QED
    BY <1>4, <2>2, <2>5 DEF WriteSectionEnd, TypeOK, TaskType, WireOK
<1>5. CASE WriteFrame
  <2>1. task.next \in 1..FileFrames
    BY <1>0, <1>5, Numbers DEF WriteFrame, TaskType
  <2>2. Item("VIDEO", task.next) \in Items /\ Item("VIDEO", task.next).n \in 1..FileFrames
    BY <2>1, ItemsAreItems DEF Item, Commands
  <2>3. WireOK(toClient') /\ Len(toClient') <= Capacity + 2
    BY <1>0, <1>5, <2>2, SendOne DEF WriteFrame
  <2>4. tcpSendData(Payload(task.next)) \in {Unsent} \cup {Payload(n) : n \in 1..FileFrames}
    BY <2>1, SentBuffer
  <2>5. task.count + 1 \in 0..SegFrames /\ task.next + 1 \in 1..(FileFrames + 1)
    BY <1>0, <1>5, <2>1, Numbers DEF WriteFrame, TaskType
  <2>6. task' \in TaskType
    BY <1>0, <1>5, <2>4, <2>5 DEF WriteFrame, TaskType
  <2> QED
    BY <1>5, <2>3, <2>6 DEF WriteFrame, TypeOK, TaskType, WireOK
<1>6. CASE WriteDataEnd
  <2>1. Item("DATAEND", 0) \in Items /\ Item("DATAEND", 0).cmd # "VIDEO"
    BY ItemsAreItems DEF Item, Commands
  <2>2. WireOK(toClient') /\ Len(toClient') <= Capacity + 2
    BY <1>0, <1>6, <2>1, SendOne DEF WriteDataEnd
  <2>3. task.count + 1 \in 0..SegFrames
    BY <1>0, <1>6, Numbers DEF WriteDataEnd, TaskType
  <2>4. task' \in TaskType
    BY <1>0, <1>6, <2>3, SentBuffer DEF WriteDataEnd, TaskType
  <2> QED
    BY <1>6, <2>2, <2>4 DEF WriteDataEnd, TypeOK, TaskType, WireOK
<1> QED
  BY <1>1, <1>2, <1>3, <1>4, <1>5, <1>6 DEF writeBuffer

(* What has been read is off the wire, the rest is as it was.                *)
LEMMA Shorter ==
  ASSUME NEW S, NEW s \in Seq(S), s # <<>>
  PROVE  /\ Head(s) \in S /\ Head(s) = s[1]
         /\ Tail(s) \in Seq(S) /\ Len(Tail(s)) = Len(s) - 1
         /\ \A i \in 1..Len(Tail(s)) : Tail(s)[i] = s[i + 1]
OBVIOUS

(* The read callbacks keep the types.                                        *)
LEMMA TypeRead ==
  ASSUME TypeOK, Start \/ Pause \/ Resume \/ Seek \/ ReadZero
  PROVE  TypeOK'
<1>0. task \in TaskType
  BY DEF TypeOK, TaskType
<1>1. CASE Start \/ Pause \/ Resume
  <2>1. toServer # <<>> /\ toServer' = Tail(toServer)
    BY <1>1 DEF Start, Pause, Resume, OnRead
  <2>2. toServer' \in Seq([req : Requests, n : Nat]) /\ Len(toServer') <= MaxRequests
    BY <2>1, Shorter, Numbers DEF TypeOK
  <2>3. task' \in TaskType
    BY <1>0, <1>1 DEF Start, Pause, Resume, TaskType
  <2> QED
    BY <1>1, <2>2, <2>3 DEF Start, Pause, Resume, TypeOK, TaskType
<1>2. CASE Seek
  <2>1. toServer # <<>> /\ toServer' = Tail(toServer) /\ Running
    BY <1>2 DEF Seek, OnRead
  <2>2. toServer' \in Seq([req : Requests, n : Nat]) /\ Len(toServer') <= MaxRequests
    BY <2>1, Shorter, Numbers DEF TypeOK
  <2>3. Head(toServer).n \in Nat
    <3>1. toServer \in Seq([req : Requests, n : Nat])
      BY DEF TypeOK
    <3>2. Head(toServer) \in [req : Requests, n : Nat]
      BY <2>1, <3>1, Shorter
    <3> QED
      BY <3>2
  <2>4. /\ Item("SEEK_CMPD", Head(toServer).n) \in Items /\ Item("EXERET", Head(toServer).n) \in Items
        /\ Item("SEEK_CMPD", Head(toServer).n).cmd # "VIDEO"
        /\ Item("EXERET", Head(toServer).n).cmd # "VIDEO"
    BY <2>3, ItemsAreItems DEF Item, Commands
  <2>5. WireOK(toClient') /\ Len(toClient') <= Capacity + 2
    BY <1>2, <2>1, <2>4, SendTwo DEF Seek
  <2>6. Landings \subseteq 1..(FileFrames + 1)
    <3>1. task.next \in 1..(FileFrames + 1) /\ 1..FileFrames \subseteq 1..(FileFrames + 1)
      BY <1>0, Numbers DEF TaskType
    <3> QED
      BY <3>1, Numbers DEF Landings
  <2>7. Append(task.queue, "SEEK_CMPD") \in Seq({"PING", "SEEK_CMPD"})
    BY <1>0 DEF TaskType
  <2>8. task' \in TaskType
    BY <1>0, <1>2, <2>6, <2>7, SentBuffer DEF Seek, TaskType
  <2> QED
    BY <1>2, <2>2, <2>5, <2>8 DEF Seek, TypeOK, TaskType, WireOK
<1>3. CASE ReadZero
  BY <1>3 DEF ReadZero, TypeOK
<1> QED
  BY <1>1, <1>2, <1>3

ClientType == [ want : 0..FileFrames, frame : 0..FileFrames, heard : Commands,
                left : BOOLEAN, seeks : 0..MaxSeeks, answered : Nat ]

(* What is left on the wire has the type of the wire.                        *)
LEMMA ReadOne ==
  ASSUME TypeOK, toClient # <<>>
  PROVE  /\ WireOK(Tail(toClient)) /\ Len(Tail(toClient)) <= Capacity + 2
         /\ Head(toClient) \in Items
         /\ Head(toClient).cmd = "VIDEO" => Head(toClient).n \in 1..FileFrames
<1>1. WireOK(toClient) /\ Len(toClient) <= Capacity + 2
  BY DEF TypeOK, WireOK
<1>2. /\ Tail(toClient) \in Seq(Items) /\ Len(Tail(toClient)) = Len(toClient) - 1
      /\ \A i \in 1..Len(Tail(toClient)) : Tail(toClient)[i] = toClient[i + 1]
      /\ Head(toClient) \in Items /\ Head(toClient) = toClient[1]
  BY <1>1, Shorter DEF WireOK
<1>3. Len(toClient) \in Nat \ {0}
  BY <1>1 DEF WireOK
<1>4. WireOK(Tail(toClient))
  BY <1>1, <1>2, <1>3 DEF WireOK
<1>5. Len(Tail(toClient)) <= Capacity + 2
  BY <1>1, <1>2, <1>3, Numbers
<1> QED
  BY <1>1, <1>2, <1>3, <1>4, <1>5 DEF WireOK

(* The client keeps the types.                                               *)
LEMMA TypeClient ==
  ASSUME TypeOK, Client
  PROVE  TypeOK'
<1>0. client \in ClientType
  BY DEF TypeOK, ClientType
<1>1. CASE ReadHeader
  <2>1. toClient # <<>> /\ toClient' = Tail(toClient)
    BY <1>1 DEF ReadHeader, Reading
  <2>2. WireOK(toClient') /\ Len(toClient') <= Capacity + 2
    BY <2>1, ReadOne
  <2>3. /\ Head(toClient) \in Items
        /\ Head(toClient).cmd = "VIDEO" => Head(toClient).n \in 1..FileFrames
    BY <2>1, ReadOne
  <2>4. Head(toClient).n \in Nat /\ Head(toClient).cmd \in Commands /\ 0 \in 0..FileFrames
        /\ 1..FileFrames \subseteq 0..FileFrames
    BY <1>1, <2>3, Numbers DEF ReadHeader, Items
  <2>5. client' \in ClientType
    BY <1>0, <1>1, <2>3, <2>4 DEF ReadHeader, ClientType
  <2> QED
    BY <1>1, <2>2, <2>5 DEF ReadHeader, TypeOK, ClientType, WireOK
<1>2. CASE ReadPayload
  <2>1. toClient # <<>> /\ toClient' = Tail(toClient)
    BY <1>2 DEF ReadPayload, Reading
  <2>2. WireOK(toClient') /\ Len(toClient') <= Capacity + 2
    BY <2>1, ReadOne
  <2>3. client' = [client EXCEPT !.want = 0, !.left = Head(toClient).cmd # "PAYLOAD"]
    BY <1>2 DEF ReadPayload
  <2>4. 0 \in 0..FileFrames /\ (Head(toClient).cmd # "PAYLOAD") \in BOOLEAN
    BY Numbers
  <2>5. client' \in ClientType
    BY <1>0, <2>3, <2>4 DEF ClientType
  <2> QED
    BY <1>2, <2>2, <2>5 DEF ReadPayload, TypeOK, ClientType, WireOK
<1>3. ASSUME NEW req \in Requests, ClientRequest(req)
      PROVE  TypeOK'
  <2>1. client'.seeks \in 0..MaxSeeks
    <3>1. client.seeks \in 0..MaxSeeks /\ (req = "seek" => client.seeks < MaxSeeks)
      BY <1>0, <1>3 DEF ClientRequest, ClientType
    <3>2. client'.seeks = IF req = "seek" THEN client.seeks + 1 ELSE client.seeks
      BY <1>0, <1>3 DEF ClientRequest, ClientType
    <3> QED
      BY <3>1, <3>2, Numbers
  <2>2. client' \in ClientType
    <3>1. client' \in {client, [client EXCEPT !.seeks = client.seeks + 1]}
      BY <1>3 DEF ClientRequest
    <3> QED
      BY <1>0, <2>1, <3>1 DEF ClientType
  <2>3. [req |-> req, n |-> client'.seeks] \in [req : Requests, n : Nat]
    BY <2>1, Numbers
  <2>4. toServer' \in Seq([req : Requests, n : Nat]) /\ Len(toServer') <= MaxRequests
    <3>1. toServer \in Seq([req : Requests, n : Nat])
      BY DEF TypeOK
    <3>2. Len(toServer) < MaxRequests /\ toServer' = Append(toServer, [req |-> req, n |-> client'.seeks])
      BY <1>3 DEF ClientRequest
    <3> QED
      BY <2>3, <3>1, <3>2, Numbers
  <2> QED
    BY <1>3, <2>2, <2>4 DEF ClientRequest, TypeOK, ClientType
<1>4. CASE ClientClose
  BY <1>4 DEF ClientClose, TypeOK
<1> QED
  BY <1>1, <1>2, <1>3, <1>4 DEF Client, ClientRead

(* Initially only the answer to the login is on the wire.                    *)
LEMMA TypeInit == Init => TypeOK
<1> SUFFICES ASSUME Init PROVE TypeOK
  OBVIOUS
<1>1. Item("LOGINRET", 0) \in Items /\ Item("LOGINRET", 0).cmd # "VIDEO"
  BY ItemsAreItems DEF Item, Commands
<1>2. WireOK(toClient) /\ Len(toClient) = 1
  BY <1>1 DEF Init, WireOK
<1> QED
  BY <1>2, Numbers DEF Init, TypeOK, WireOK, Commands

(* Every step keeps the types.                                               *)
LEMMA TypeNext == TypeOK /\ [Next]_vars => TypeOK'
<1> SUFFICES ASSUME TypeOK, [Next]_vars PROVE TypeOK'
  OBVIOUS
<1>1. CASE Heartbeat
  <2>1. task'.queue \in Seq({"PING", "SEEK_CMPD"})
    BY <1>1 DEF Heartbeat, TypeOK
  <2> QED
    BY <1>1, <2>1 DEF Heartbeat, TypeOK
<1>2. CASE WriteTimeout
  BY <1>2 DEF WriteTimeout, TypeOK
<1>3. CASE UNCHANGED vars
  BY <1>3 DEF vars, TypeOK
<1> QED
  BY <1>1, <1>2, <1>3, TypeWrite, TypeRead, TypeClient DEF Next, Server

(* The types of a playback's state.                                          *)
LEMMA TypeCorrect == Spec => []TypeOK
BY TypeInit, TypeNext, PTL DEF Spec

-----------------------------------------------------------------------------
(* Frames in order. *)

(* Sending anything but a header leaves the headers consecutive.             *)
LEMMA OrderAppend ==
  ASSUME NEW s \in Seq(Items), NEW x \in Items, Consecutive(s), x.cmd # "VIDEO"
  PROVE  Consecutive(Append(s, x))
<1> DEFINE t == Append(s, x)
<1>1. t \in Seq(Items) /\ Len(t) = Len(s) + 1 /\ t[Len(s) + 1] = x /\ \A i \in 1..Len(s) : t[i] = s[i]
  OBVIOUS
<1> SUFFICES ASSUME NEW i \in 1..Len(t), NEW j \in 1..Len(t), i < j,
                    t[i].cmd = "VIDEO", t[j].cmd = "VIDEO", Quiet(t, i, j)
             PROVE  t[j].n = t[i].n + 1
  BY DEF Consecutive
<1> HIDE DEF t
<1>2. i \in 1..Len(s) /\ j \in 1..Len(s)
  BY <1>1
<1>3. Quiet(s, i, j)
  BY <1>1, <1>2 DEF Quiet
<1> QED
  BY <1>1, <1>2, <1>3 DEF Consecutive

(* A command that is neither a header nor a seek leaves the last frame last. *)
LEMMA EndsQuiet ==
  ASSUME NEW s \in Seq(Items), NEW x \in Items, NEW n \in Nat, EndsBefore(s, n),
         x.cmd \notin {"VIDEO", "SEEK_CMPD"}
  PROVE  EndsBefore(Append(s, x), n)
<1> DEFINE t == Append(s, x)
<1>1. t \in Seq(Items) /\ Len(t) = Len(s) + 1 /\ t[Len(s) + 1] = x /\ \A i \in 1..Len(s) : t[i] = s[i]
  OBVIOUS
<1> SUFFICES ASSUME NEW i \in 1..Len(t), t[i].cmd = "VIDEO", Quiet(t, i, Len(t) + 1)
             PROVE  n = t[i].n + 1
  BY DEF EndsBefore
<1> HIDE DEF t
<1>2. i \in 1..Len(s)
  BY <1>1
<1>3. Quiet(s, i, Len(s) + 1)
  BY <1>1, <1>2 DEF Quiet
<1> QED
  BY <1>1, <1>2, <1>3 DEF EndsBefore

(* After the answer to a seek any frame may come.                            *)
LEMMA EndsSeek ==
  ASSUME NEW s \in Seq(Items), NEW x \in Items, NEW n \in Nat, x.cmd = "SEEK_CMPD"
  PROVE  EndsBefore(Append(s, x), n)
<1> DEFINE t == Append(s, x)
<1>1. t \in Seq(Items) /\ Len(t) = Len(s) + 1 /\ t[Len(s) + 1] = x /\ \A i \in 1..Len(s) : t[i] = s[i]
  OBVIOUS
<1> HIDE DEF t
<1>2. \A i \in 1..Len(t) : t[i].cmd = "VIDEO" => ~Quiet(t, i, Len(t) + 1)
  BY <1>1 DEF Quiet
<1>3. EndsBefore(t, n)
  BY <1>2 DEF EndsBefore
<1> QED
  BY <1>3 DEF t

(* The header of the packet that was to come next keeps the order, and the   *)
(* one after it is next.                                                     *)
LEMMA OrderFrame ==
  ASSUME NEW s \in Seq(Items), NEW n \in Nat, Consecutive(s), EndsBefore(s, n)
  PROVE  /\ Consecutive(Append(s, Item("VIDEO", n)))
         /\ EndsBefore(Append(s, Item("VIDEO", n)), n + 1)
<1> DEFINE x == Item("VIDEO", n)
           t == Append(s, x)
<1>0. x \in Items /\ x.cmd = "VIDEO" /\ x.n = n
  BY DEF Item, Items, Commands
<1> HIDE DEF x
<1>1. t \in Seq(Items) /\ Len(t) = Len(s) + 1 /\ t[Len(s) + 1] = x /\ \A i \in 1..Len(s) : t[i] = s[i]
  BY <1>0
<1> HIDE DEF t
<1>2. ASSUME NEW i \in 1..Len(t), NEW j \in 1..Len(t), i < j,
             t[i].cmd = "VIDEO", t[j].cmd = "VIDEO", Quiet(t, i, j)
      PROVE  t[j].n = t[i].n + 1
  <2>1. i \in 1..Len(s)
    BY <1>1, <1>2
  <2>2. CASE j \in 1..Len(s)
    <3>1. Quiet(s, i, j)
      BY <1>1, <1>2, <2>1, <2>2 DEF Quiet
    <3> QED
      BY <1>1, <1>2, <2>1, <2>2, <3>1 DEF Consecutive
  <2>3. CASE j = Len(s) + 1
    <3>1. Quiet(s, i, Len(s) + 1)
      BY <1>1, <1>2, <2>1, <2>3 DEF Quiet
    <3>2. n = s[i].n + 1
      BY <1>1, <1>2, <2>1, <3>1 DEF EndsBefore
    <3> QED
      BY <1>0, <1>1, <2>1, <2>3, <3>2
  <2> QED
    BY <1>1, <2>2, <2>3
<1>3. ASSUME NEW i \in 1..Len(t), t[i].cmd = "VIDEO", Quiet(t, i, Len(t) + 1)
      PROVE  n + 1 = t[i].n + 1
  <2>1. i = Len(s) + 1
    BY <1>0, <1>1, <1>3 DEF Quiet
  <2> QED
    BY <1>0, <1>1, <2>1
<1>4. Consecutive(t)
  BY <1>2 DEF Consecutive
<1>5. EndsBefore(t, n + 1)
  BY <1>3 DEF EndsBefore
<1> QED
  BY <1>4, <1>5 DEF t, x

(* Reading an item keeps the order of what is still to come: what was read   *)
(* is now what was heard, or it was neither a header nor a seek, or a seek   *)
(* has put an end to what was heard.                                         *)
LEMMA OrderDrops ==
  ASSUME NEW S, NEW T, Drops(S, T),
         \/ T[1] = S[2]
         \/ T[1] = S[1] /\ S[2].cmd \notin {"VIDEO", "SEEK_CMPD"}
         \/ T[1].cmd # "VIDEO"
  PROVE  /\ Consecutive(S) => Consecutive(T)
         /\ \A n \in Nat : EndsBefore(S, n) => EndsBefore(T, n)
<1>0. /\ S \in Seq(Items) /\ T \in Seq(Items) /\ Len(S) = Len(T) + 1
      /\ \A i \in 2..Len(T) : T[i] = S[i + 1]
  BY DEF Drops
<1>1. ASSUME NEW i \in 1..Len(T), T[i].cmd = "VIDEO", NEW j \in (i + 1)..(Len(T) + 1),
             Quiet(T, i, j)
      PROVE  \E h \in 1..Len(S) : h < j + 1 /\ S[h] = T[i] /\ Quiet(S, h, j + 1)
  <2>1. CASE i > 1 \/ T[1] = S[2]
    <3>1. \A k \in 1..Len(T) : i <= k => T[k] = S[k + 1]
      BY <1>0, <2>1
    <3>2. Quiet(S, i + 1, j + 1)
      <4> SUFFICES ASSUME NEW k \in 1..Len(S), i + 1 < k, k < j + 1
                   PROVE  S[k].cmd \notin {"VIDEO", "SEEK_CMPD"}
        BY DEF Quiet
      <4>1. k - 1 \in 1..Len(T) /\ i < k - 1 /\ k - 1 < j
        BY <1>0
      <4>2. T[k - 1] = S[k]
        BY <3>1, <4>1
      <4> QED
        BY <1>1, <4>1, <4>2 DEF Quiet
    <3> QED
      BY <1>0, <3>1, <3>2
  <2>2. CASE i = 1 /\ T[1] = S[1] /\ S[2].cmd \notin {"VIDEO", "SEEK_CMPD"}
    <3>1. Quiet(S, 1, j + 1)
      <4> SUFFICES ASSUME NEW k \in 1..Len(S), 1 < k, k < j + 1
                   PROVE  S[k].cmd \notin {"VIDEO", "SEEK_CMPD"}
        BY DEF Quiet
      <4>1. CASE k = 2
        BY <2>2, <4>1
      <4>2. CASE k > 2
        <5>1. k - 1 \in 2..Len(T) /\ k - 1 < j
          BY <1>0, <4>2
        <5>2. T[k - 1] = S[k]
          BY <1>0, <5>1
        <5> QED
          BY <1>1, <2>2, <5>1, <5>2 DEF Quiet
      <4> QED
        BY <4>1, <4>2
    <3> QED
      BY <1>0, <2>2, <3>1
  <2> QED
    BY <1>1, <2>1, <2>2
<1>2. ASSUME Consecutive(S) PROVE Consecutive(T)
  <2> SUFFICES ASSUME NEW i \in 1..Len(T), NEW j \in 1..Len(T), i < j,
                      T[i].cmd = "VIDEO", T[j].cmd = "VIDEO", Quiet(T, i, j)
               PROVE  T[j].n = T[i].n + 1
    BY DEF Consecutive
  <2>1. PICK h \in 1..Len(S) : h < j + 1 /\ S[h] = T[i] /\ Quiet(S, h, j + 1)
    BY <1>0, <1>1
  <2>2. j + 1 \in 1..Len(S) /\ T[j] = S[j + 1]
    BY <1>0
  <2> QED
    BY <1>2, <2>1, <2>2 DEF Consecutive
<1>3. ASSUME NEW n \in Nat, EndsBefore(S, n) PROVE EndsBefore(T, n)
  <2> SUFFICES ASSUME NEW i \in 1..Len(T), T[i].cmd = "VIDEO", Quiet(T, i, Len(T) + 1)
               PROVE  n = T[i].n + 1
    BY DEF EndsBefore
  <2>1. PICK h \in 1..Len(S) : S[h] = T[i] /\ Quiet(S, h, Len(S) + 1)
    BY <1>0, <1>1
  <2> QED
    BY <1>3, <2>1 DEF EndsBefore
<1> QED
  BY <1>2, <1>3

(* The stream is one of items, and what is sent comes last in it.            *)
LEMMA StreamSend ==
  ASSUME TypeOK
  PROVE  /\ Stream \in Seq(Items)
         /\ \A x \in Items : toClient' = Append(toClient, x) /\ client'.frame = client.frame
                               => Stream' = Append(Stream, x)
<1>1. Heard(client.frame) \in Items /\ toClient \in Seq(Items)
  BY ItemsAreItems DEF TypeOK
<1>2. \A x \in Items : <<Heard(client.frame)>> \o Append(toClient, x)
                          = Append(<<Heard(client.frame)>> \o toClient, x)
  BY <1>1, HeardAppend
<1> QED
  BY <1>1, <1>2, HeardFirst DEF Stream

(* A step that sends nothing and reads nothing keeps the order.              *)
LEMMA OrderSame ==
  ASSUME FramesInOrder, toClient' = toClient,
         client'.frame = client.frame, client'.left = client.left,
         conn' = "open" => conn = "open" /\ task'.next = task.next
  PROVE  FramesInOrder'
BY DEF FramesInOrder, Stream

(* A callback that sends a command which is neither a header nor a seek's    *)
(* answer, and reads no packet, keeps the order.                             *)
LEMMA OrderSend ==
  ASSUME TypeOK, FramesInOrder, UNCHANGED <<conn, client>>, task'.next = task.next,
         NEW x \in Items, x.cmd \notin {"VIDEO", "SEEK_CMPD"}, Send(<<x>>)
  PROVE  FramesInOrder'
<1>1. CASE conn = "open"
  <2>1. toClient' = Append(toClient, x)
    BY <1>1, SendIsAppend DEF Send, TypeOK
  <2>2. Stream' = Append(Stream, x) /\ Stream \in Seq(Items)
    BY <2>1, StreamSend
  <2>3. task.next \in Nat
    BY Numbers DEF TypeOK
  <2> QED
    BY <1>1, <2>2, <2>3, OrderAppend, EndsQuiet DEF FramesInOrder
<1>2. CASE conn # "open"
  BY <1>2, OrderSame DEF Send
<1> QED
  BY <1>1, <1>2

(* The callbacks that write keep the order: only WriteFrame sends a header,  *)
(* and it is the one of the packet that comes next.                          *)
LEMMA OrderWrite ==
  ASSUME TypeOK, FramesInOrder, writeBuffer
  PROVE  FramesInOrder'
<1>0. task \in TaskType
  BY DEF TypeOK, TaskType
<1>1. CASE WritePending
  <2>1. task.buffer.n \in Nat
    BY <1>0, <1>1 DEF TaskType, Empty, Unsent, Payload
  <2>2. Item("PAYLOAD", task.buffer.n) \in Items
        /\ Item("PAYLOAD", task.buffer.n).cmd \notin {"VIDEO", "SEEK_CMPD"}
    BY <2>1, ItemsAreItems DEF Item
  <2>3. task'.next = task.next
    BY <1>0, <1>1 DEF WritePending, TaskType
  <2> QED
    BY <1>1, <2>2, <2>3, OrderSend DEF WritePending
<1>2. CASE WriteQueued
  <2>1. Head(task.queue) \in {"PING", "SEEK_CMPD"}
    BY <1>0, <1>2 DEF WriteQueued, TaskType
  <2>2. Item(Head(task.queue), 0) \in Items /\ Item(Head(task.queue), 0).cmd = Head(task.queue)
    BY <2>1, ItemsAreItems DEF Item, Commands
  <2>3. task'.next = task.next
    BY <1>0, <1>2 DEF WriteQueued, TaskType
  <2>4. CASE Head(task.queue) = "PING"
    BY <1>2, <2>2, <2>3, <2>4, OrderSend DEF WriteQueued
  <2>5. CASE Head(task.queue) = "SEEK_CMPD" /\ conn = "open"
    <3>1. toClient' = Append(toClient, Item(Head(task.queue), 0))
      BY <1>2, <2>2, <2>5, SendIsAppend DEF WriteQueued, Send, TypeOK
    <3>2. Stream' = Append(Stream, Item(Head(task.queue), 0)) /\ Stream \in Seq(Items)
      BY <1>2, <2>2, <3>1, StreamSend DEF WriteQueued
    <3>3. task'.next \in Nat
      BY <1>0, <2>3, Numbers DEF TaskType
    <3> QED
      BY <1>2, <2>2, <2>5, <3>2, <3>3, OrderAppend, EndsSeek DEF FramesInOrder, WriteQueued
  <2>6. CASE conn # "open"
    BY <1>2, <2>6, OrderSame DEF WriteQueued, Send
  <2> QED
    BY <2>1, <2>4, <2>5, <2>6
<1>3. CASE WriteNothing
  BY <1>3, OrderSame DEF WriteNothing
<1>4. CASE WriteSectionEnd
  <2>1. Item("SECTION_END", 0) \in Items /\ Item("SECTION_END", 0).cmd \notin {"VIDEO", "SEEK_CMPD"}
    BY ItemsAreItems DEF Item, Commands
  <2>2. task'.next = task.next
    BY <1>0, <1>4 DEF WriteSectionEnd, TaskType
  <2> QED
    BY <1>4, <2>1, <2>2, OrderSend DEF WriteSectionEnd
<1>5. CASE WriteFrame
  <2>1. task.next \in Nat /\ task'.next = task.next + 1
    BY <1>0, <1>5, Numbers DEF WriteFrame, TaskType
  <2>2. Item("VIDEO", task.next) \in Items
    BY <2>1, ItemsAreItems DEF Commands
  <2>3. CASE conn = "open"
    <3>1. toClient' = Append(toClient, Item("VIDEO", task.next))
      BY <1>5, <2>2, <2>3, SendIsAppend DEF WriteFrame, Send, TypeOK
    <3>2. Stream' = Append(Stream, Item("VIDEO", task.next)) /\ Stream \in Seq(Items)
      BY <1>5, <2>2, <3>1, StreamSend DEF WriteFrame
    <3> QED
      BY <1>5, <2>1, <2>3, <3>2, OrderFrame DEF FramesInOrder, WriteFrame
  <2>4. CASE conn # "open"
    BY <1>5, <2>4, OrderSame DEF WriteFrame, Send
  <2> QED
    BY <2>3, <2>4
<1>6. CASE WriteDataEnd
  <2>1. Item("DATAEND", 0) \in Items /\ Item("DATAEND", 0).cmd \notin {"VIDEO", "SEEK_CMPD"}
    BY ItemsAreItems DEF Item, Commands
  <2>2. task'.next = task.next
    BY <1>0, <1>6 DEF WriteDataEnd, TaskType
  <2> QED
    BY <1>6, <2>1, <2>2, OrderSend DEF WriteDataEnd
<1> QED
  BY <1>1, <1>2, <1>3, <1>4, <1>5, <1>6 DEF writeBuffer

(* The callbacks that read keep the order: a seek answers before a frame of  *)
(* its new place is sent.                                                    *)
LEMMA OrderRead ==
  ASSUME TypeOK, FramesInOrder, Start \/ Pause \/ Resume \/ Seek \/ ReadZero
  PROVE  FramesInOrder'
<1>0. task \in TaskType
  BY DEF TypeOK, TaskType
<1>1. CASE Start \/ Pause \/ Resume \/ ReadZero
  <2>1. toClient' = toClient /\ client' = client /\ task'.next = task.next
        /\ (conn' = "open" => conn = "open")
    BY <1>0, <1>1 DEF Start, Pause, Resume, ReadZero, TaskType
  <2> QED
    BY <2>1, OrderSame
<1>2. CASE Seek
  <2>1. Head(toServer).n \in Nat
    <3>1. toServer # <<>> /\ toServer \in Seq([req : Requests, n : Nat])
      BY <1>2 DEF Seek, OnRead, TypeOK
    <3>2. Head(toServer) \in [req : Requests, n : Nat]
      BY <3>1, Shorter
    <3> QED
      BY <3>2
  <2> DEFINE x == Item("SEEK_CMPD", Head(toServer).n)
             y == Item("EXERET", Head(toServer).n)
  <2>2. x \in Items /\ y \in Items /\ x.cmd = "SEEK_CMPD" /\ y.cmd = "EXERET"
    BY <2>1, ItemsAreItems DEF Item, Commands
  <2>3. Send(<<x, y>>) /\ conn' = conn /\ client' = client
    BY <1>2 DEF Seek
  <2> HIDE DEF x, y
  <2>4. CASE conn = "open"
    <3>1. toClient' = Append(Append(toClient, x), y)
      BY <2>2, <2>3, <2>4, SendIsAppend DEF Send, TypeOK
    <3>2. /\ Heard(client.frame) \in Items
          /\ toClient \in Seq(Items) /\ Append(toClient, x) \in Seq(Items)
      BY <2>2, ItemsAreItems DEF TypeOK
    <3>3. Stream' = Append(Append(Stream, x), y)
      BY <2>2, <2>3, <3>1, <3>2, HeardAppend DEF Stream
    <3>4. Stream \in Seq(Items) /\ Append(Stream, x) \in Seq(Items)
      BY <2>2, StreamSend
    <3>5. task'.next \in Nat
      <4>1. TypeOK'
        BY <1>2, TypeRead
      <4>2. task'.next \in 1..(FileFrames + 1)
        BY <4>1 DEF TypeOK
      <4> QED
        BY <4>2, Numbers
    <3>6. EndsBefore(Append(Stream, x), task'.next)
      BY <2>2, <3>4, <3>5, EndsSeek
    <3>7. EndsBefore(Append(Append(Stream, x), y), task'.next)
      BY <2>2, <3>4, <3>5, <3>6, EndsQuiet
    <3>8. Consecutive(Stream) => Consecutive(Append(Append(Stream, x), y))
      BY <2>2, <3>4, OrderAppend
    <3> QED
      BY <2>3, <3>3, <3>7, <3>8 DEF FramesInOrder
  <2>5. CASE conn # "open"
    BY <2>3, <2>5, OrderSame DEF Send
  <2> QED
    BY <2>4, <2>5
<1> QED
  BY <1>1, <1>2

(* The client keeps the order as long as it finds payloads where it expects  *)
(* them.                                                                     *)
LEMMA OrderClient ==
  ASSUME TypeOK, FramesInOrder, Client
  PROVE  FramesInOrder'
<1>1. CASE ReadHeader \/ ReadPayload
  <2>1. /\ toClient # <<>> /\ toClient' = Tail(toClient) /\ ~client.left
        /\ task' = task /\ conn' = conn
    BY <1>1 DEF ReadHeader, ReadPayload, Reading
  <2>2. Heard(client.frame) \in Items /\ Heard(client'.frame) \in Items /\ toClient \in Seq(Items)
    <3>1. TypeOK'
      BY <1>1, TypeClient DEF Client, ClientRead
    <3>2. client.frame \in Nat /\ client'.frame \in Nat /\ toClient \in Seq(Items)
      BY <3>1, Numbers DEF TypeOK
    <3> QED
      BY <3>2, ItemsAreItems
  <2>3. /\ Drops(Stream, Stream')
        /\ Stream[1] = Heard(client.frame) /\ Stream[2] = Head(toClient)
        /\ Stream'[1] = Heard(client'.frame)
    BY <2>1, <2>2, HeardDrops DEF Stream
  <2>4. Head(toClient) \in Items
        /\ (Head(toClient).cmd = "VIDEO" => Head(toClient).n \in 1..FileFrames)
    BY <2>1, Shorter DEF TypeOK
  <2>5. \/ client'.left
        \/ Stream'[1] = Stream[2]
        \/ Stream'[1] = Stream[1] /\ Stream[2].cmd \notin {"VIDEO", "SEEK_CMPD"}
        \/ Stream'[1].cmd # "VIDEO"
    <3>1. CASE ReadPayload
      <4>1. client'.left = (Head(toClient).cmd # "PAYLOAD") /\ client'.frame = client.frame
        BY <3>1 DEF ReadPayload, TypeOK
      <4> QED
        BY <2>3, <4>1
    <3>2. CASE ReadHeader
      <4>1. CASE Head(toClient).cmd = "VIDEO"
        <5>1. client'.frame = Head(toClient).n
          BY <3>2, <4>1 DEF ReadHeader, TypeOK
        <5>2. Heard(client'.frame) = Head(toClient)
          BY <2>4, <4>1, <5>1, Numbers DEF Heard, Item, Items
        <5> QED
          BY <2>3, <5>2
      <4>2. CASE Head(toClient).cmd = "SEEK_CMPD"
        <5>1. client'.frame = 0
          BY <3>2, <4>2 DEF ReadHeader, TypeOK
        <5> QED
          BY <2>3, <5>1 DEF Heard, Item
      <4>3. CASE Head(toClient).cmd \notin {"VIDEO", "SEEK_CMPD"}
        <5>1. client'.frame = client.frame
          BY <3>2, <4>3 DEF ReadHeader, TypeOK
        <5> QED
          BY <2>3, <4>3, <5>1
      <4> QED
        BY <4>1, <4>2, <4>3
    <3> QED
      BY <1>1, <3>1, <3>2
  <2>6. task.next \in Nat
    BY Numbers DEF TypeOK
  <2>7. CASE client'.left
    BY <2>7 DEF FramesInOrder
  <2>8. CASE ~client'.left
    BY <2>1, <2>3, <2>5, <2>6, <2>8, OrderDrops DEF FramesInOrder
  <2> QED
    BY <2>7, <2>8
<1>2. ASSUME NEW req \in Requests, ClientRequest(req)
      PROVE  FramesInOrder'
  <2>1. client'.frame = client.frame /\ client'.left = client.left
    BY <1>2 DEF ClientRequest, TypeOK
  <2> QED
    BY <1>2, <2>1, OrderSame DEF ClientRequest
<1>3. CASE ClientClose
  BY <1>3, OrderSame DEF ClientClose
<1> QED
  BY <1>1, <1>2, <1>3 DEF Client, ClientRead

(* Every step keeps the order.                                               *)
LEMMA OrderNext == TypeOK /\ FramesInOrder /\ [Next]_vars => FramesInOrder'
<1> SUFFICES ASSUME TypeOK, FramesInOrder, [Next]_vars PROVE FramesInOrder'
  OBVIOUS
<1>1. CASE Heartbeat
  <2>1. task'.next = task.next
    BY <1>1 DEF Heartbeat, TypeOK
  <2> QED
    BY <1>1, <2>1, OrderSame DEF Heartbeat
<1>2. CASE WriteTimeout
  BY <1>2, OrderSame DEF WriteTimeout
<1>3. CASE UNCHANGED vars
  BY <1>3, OrderSame DEF vars
<1> QED
  BY <1>1, <1>2, <1>3, OrderWrite, OrderRead, OrderClient DEF Next, Server

(* Whatever the file, the sections and the commands: the headers a client    *)
(* parses between two seeks are those of consecutive packets, and the server *)
(* goes on with the next one (TaskPlayback's writeBuffer, setpause, seek).   *)
THEOREM FramesAreInOrder == Spec => []FramesInOrder
<1>1. Init => FramesInOrder
  <2> SUFFICES ASSUME Init PROVE FramesInOrder
    OBVIOUS
  <2>1. Item("LOGINRET", 0) \in Items /\ Heard(0) \in Items
    BY ItemsAreItems DEF Commands
  <2>2. \A i \in 1..Len(Stream) : Stream[i].cmd # "VIDEO"
    BY <2>1, HeardFirst DEF Init, Stream, Heard, Item
  <2> QED
    BY <2>2 DEF FramesInOrder, Consecutive, EndsBefore
<1> QED
  BY <1>1, TypeCorrect, OrderNext, PTL DEF Spec

-----------------------------------------------------------------------------
(* Framing. *)

\* What the client waits for and what comes, as Framed sees it.
Wire == <<Heard(client.want)>> \o toClient

\* A header in s is followed by its payload, or is the last and b holds the
\* payload; loosely, a seek's answer may have come in between.
Followed(s, b, loose) ==
  \A i \in 1..Len(s) : s[i].cmd = "VIDEO" =>
    IF i < Len(s) THEN s[i + 1] = Item("PAYLOAD", s[i].n) \/ (loose /\ s[i + 1].cmd = "SEEK_CMPD")
                  ELSE b = Payload(s[i].n)

(* A command sent while no payload is held follows no header.                *)
LEMMA FollowedCommand ==
  ASSUME NEW s \in Seq(Items), NEW b, NEW c, NEW loose \in BOOLEAN, NEW x \in Items,
         Followed(s, b, loose), b.state # "payload", x.cmd # "VIDEO"
  PROVE  Followed(Append(s, x), c, loose)
<1>1. \A i \in 1..Len(s) : s[i].cmd = "VIDEO" => i < Len(s)
  BY DEF Followed, Payload
<1> QED
  BY <1>1 DEF Followed

(* The payload that is held follows its header.                              *)
LEMMA FollowedPayload ==
  ASSUME NEW s \in Seq(Items), NEW n \in Nat, NEW c, NEW loose \in BOOLEAN,
         Followed(s, Payload(n), loose)
  PROVE  Followed(Append(s, Item("PAYLOAD", n)), c, loose)
<1>1. Item("PAYLOAD", n) \in Items /\ Item("PAYLOAD", n).cmd = "PAYLOAD"
  BY ItemsAreItems DEF Item
<1>2. \A i \in 1..Len(s) : s[i].cmd = "VIDEO" /\ ~(i < Len(s)) => s[i].n = n
  BY DEF Followed, Payload
<1> QED
  BY <1>1, <1>2 DEF Followed

(* A seek's answer may follow a header, loosely.                             *)
LEMMA FollowedSeek ==
  ASSUME NEW s \in Seq(Items), NEW b, NEW c, NEW x \in Items,
         Followed(s, b, TRUE), x.cmd = "SEEK_CMPD"
  PROVE  Followed(Append(s, x), c, TRUE)
BY DEF Followed

(* A header is sent when no payload is held, and its own is held from then.  *)
LEMMA FollowedHeader ==
  ASSUME NEW s \in Seq(Items), NEW b, NEW n \in Nat, NEW loose \in BOOLEAN,
         Followed(s, b, loose), b.state # "payload"
  PROVE  Followed(Append(s, Item("VIDEO", n)), Payload(n), loose)
<1>1. Item("VIDEO", n) \in Items /\ Item("VIDEO", n).n = n
  BY ItemsAreItems DEF Item, Commands
<1>2. \A i \in 1..Len(s) : s[i].cmd = "VIDEO" => i < Len(s)
  BY DEF Followed, Payload
<1> QED
  BY <1>1, <1>2 DEF Followed

(* Reading keeps the framing of what is to come.                             *)
LEMMA FollowedDrops ==
  ASSUME NEW S, NEW T, Drops(S, T), NEW b, NEW loose \in BOOLEAN, Followed(S, b, loose),
         T[1] = S[2] \/ T[1].cmd # "VIDEO"
  PROVE  Followed(T, b, loose)
<1> SUFFICES ASSUME NEW i \in 1..Len(T), T[i].cmd = "VIDEO"
             PROVE  IF i < Len(T)
                    THEN T[i + 1] = Item("PAYLOAD", T[i].n) \/ (loose /\ T[i + 1].cmd = "SEEK_CMPD")
                    ELSE b = Payload(T[i].n)
  BY DEF Followed
<1>1. i + 1 \in 1..Len(S) /\ T[i] = S[i + 1] /\ (i < Len(T) <=> i + 1 < Len(S))
  BY DEF Drops
<1>2. i < Len(T) => T[i + 1] = S[(i + 1) + 1]
  BY DEF Drops
<1>3. IF i + 1 < Len(S)
      THEN \/ S[(i + 1) + 1] = Item("PAYLOAD", S[i + 1].n)
           \/ loose /\ S[(i + 1) + 1].cmd = "SEEK_CMPD"
      ELSE b = Payload(S[i + 1].n)
  BY <1>1 DEF Followed
<1> QED
  BY <1>1, <1>2, <1>3

(* What is sent comes last on the wire.                                      *)
LEMMA WireSend ==
  ASSUME TypeOK
  PROVE  /\ Wire \in Seq(Items)
         /\ \A x \in Items : toClient' = Append(toClient, x) /\ client'.want = client.want
                               => Wire' = Append(Wire, x)
<1>1. Heard(client.want) \in Items /\ toClient \in Seq(Items)
  BY ItemsAreItems DEF TypeOK
<1>2. \A x \in Items : <<Heard(client.want)>> \o Append(toClient, x)
                          = Append(<<Heard(client.want)>> \o toClient, x)
  BY <1>1, HeardAppend
<1> QED
  BY <1>1, <1>2, HeardFirst DEF Wire

(* Every callback that writes keeps the framing.                             *)
LEMMA FollowedWrite ==
  ASSUME TypeOK, writeBuffer, conn = "open", NEW loose \in BOOLEAN,
         Followed(Wire, task.buffer, loose)
  PROVE  Followed(Wire', task'.buffer, loose)
<1>0. task \in TaskType /\ Wire \in Seq(Items) /\ Empty.state # "payload" /\ Unsent.state # "payload"
  BY WireSend DEF TypeOK, TaskType, Empty, Unsent
<1>1. CASE WritePending
  <2>1. task.buffer.n \in Nat
        /\ (task.buffer.state = "payload" => task.buffer = Payload(task.buffer.n))
    BY <1>0, <1>1 DEF TaskType, Empty, Unsent, Payload
  <2>2. Item("PAYLOAD", task.buffer.n) \in Items /\ Item("PAYLOAD", task.buffer.n).cmd # "VIDEO"
    BY <2>1, ItemsAreItems DEF Item
  <2>3. Wire' = Append(Wire, Item("PAYLOAD", task.buffer.n))
    BY <1>1, <2>2, WireSend, SendIsAppend DEF WritePending, Send, TypeOK
  <2> QED
    BY <1>0, <2>1, <2>2, <2>3, FollowedCommand, FollowedPayload
<1>2. CASE WriteQueued
  <2>1. Head(task.queue) \in {"PING", "SEEK_CMPD"}
    BY <1>0, <1>2 DEF WriteQueued, TaskType
  <2>2. Item(Head(task.queue), 0) \in Items /\ Item(Head(task.queue), 0).cmd # "VIDEO"
    BY <2>1, ItemsAreItems DEF Item, Commands
  <2>3. Wire' = Append(Wire, Item(Head(task.queue), 0))
    BY <1>2, <2>2, WireSend, SendIsAppend DEF WriteQueued, Send, TypeOK
  <2>4. task.buffer = Empty
    BY <1>2 DEF WriteQueued
  <2> QED
    BY <1>0, <2>2, <2>3, <2>4, FollowedCommand
<1>3. CASE WriteNothing
  BY <1>3 DEF WriteNothing, Wire
<1>4. CASE WriteSectionEnd
  <2>1. Item("SECTION_END", 0) \in Items /\ Item("SECTION_END", 0).cmd # "VIDEO"
    BY ItemsAreItems DEF Item, Commands
  <2>2. Wire' = Append(Wire, Item("SECTION_END", 0)) /\ task.buffer = Empty
    BY <1>4, <2>1, WireSend, SendIsAppend DEF WriteSectionEnd, Send, TypeOK, Idle
  <2> QED
    BY <1>0, <2>1, <2>2, FollowedCommand
<1>5. CASE WriteFrame
  <2>1. task.next \in Nat /\ Item("VIDEO", task.next) \in Items
    BY <1>0, ItemsAreItems, Numbers DEF TaskType, Commands
  <2>2. Wire' = Append(Wire, Item("VIDEO", task.next)) /\ task.buffer = Empty
    BY <1>5, <2>1, WireSend, SendIsAppend DEF WriteFrame, Send, TypeOK, Idle
  <2>3. task'.buffer = Payload(task.next)
    BY <1>0, <1>5 DEF WriteFrame, tcpSendData, TaskType
  <2> QED
    BY <1>0, <2>1, <2>2, <2>3, FollowedHeader
<1>6. CASE WriteDataEnd
  <2>1. Item("DATAEND", 0) \in Items /\ Item("DATAEND", 0).cmd # "VIDEO"
    BY ItemsAreItems DEF Item, Commands
  <2>2. Wire' = Append(Wire, Item("DATAEND", 0)) /\ task.buffer = Empty
    BY <1>6, <2>1, WireSend, SendIsAppend DEF WriteDataEnd, Send, TypeOK, Idle
  <2> QED
    BY <1>0, <2>1, <2>2, FollowedCommand
<1> QED
  BY <1>1, <1>2, <1>3, <1>4, <1>5, <1>6 DEF writeBuffer

(* What a seek sends on an open connection.                                  *)
LEMMA SeekSends ==
  ASSUME TypeOK, Seek, conn = "open"
  PROVE  \E x, y \in Items : /\ x.cmd = "SEEK_CMPD" /\ y.cmd = "EXERET"
                             /\ toClient' = Append(Append(toClient, x), y)
<1>1. Head(toServer).n \in Nat
  <2>1. toServer # <<>> /\ toServer \in Seq([req : Requests, n : Nat])
    BY DEF Seek, OnRead, TypeOK
  <2>2. Head(toServer) \in [req : Requests, n : Nat]
    BY <2>1, Shorter
  <2> QED
    BY <2>2
<1> DEFINE x == Item("SEEK_CMPD", Head(toServer).n)
           y == Item("EXERET", Head(toServer).n)
<1>2. x \in Items /\ y \in Items /\ x.cmd = "SEEK_CMPD" /\ y.cmd = "EXERET"
  BY <1>1, ItemsAreItems DEF Item, Commands
<1>3. toClient' = toClient \o <<x, y>>
  BY DEF Seek, Send
<1> HIDE DEF x, y
<1>4. toClient' = Append(Append(toClient, x), y)
  BY <1>2, <1>3, SendIsAppend DEF TypeOK
<1> QED
  BY <1>2, <1>4

(* A seek keeps the framing, unless a packet is half sent: then loosely.     *)
LEMMA FollowedBySeek ==
  ASSUME TypeOK, Seek, conn = "open", NEW loose \in BOOLEAN,
         Followed(Wire, task.buffer, loose), loose \/ task.buffer.state # "payload"
  PROVE  Followed(Wire', task'.buffer, loose)
<1>1. PICK x, y \in Items : /\ x.cmd = "SEEK_CMPD" /\ y.cmd = "EXERET"
                            /\ toClient' = Append(Append(toClient, x), y)
  BY SeekSends
<1>2. Heard(client.want) \in Items /\ toClient \in Seq(Items) /\ Append(toClient, x) \in Seq(Items)
  BY ItemsAreItems DEF TypeOK
<1>3. client' = client /\ task'.buffer = Empty /\ Empty.state # "payload"
  BY DEF Seek, tcpSendData, TypeOK, Empty
<1>4. Wire' = Append(Append(Wire, x), y)
  BY <1>1, <1>2, <1>3, HeardAppend DEF Wire
<1>5. Wire \in Seq(Items) /\ Append(Wire, x) \in Seq(Items)
  BY WireSend
<1>6. Followed(Append(Wire, x), Empty, loose)
  <2>1. CASE task.buffer.state # "payload"
    BY <1>1, <1>5, <2>1, FollowedCommand
  <2>2. CASE loose = TRUE
    BY <1>1, <1>5, <2>2, FollowedSeek
  <2> QED
    BY <2>1, <2>2
<1>7. Followed(Append(Append(Wire, x), y), Empty, loose)
  BY <1>1, <1>3, <1>5, <1>6, FollowedCommand
<1> QED
  BY <1>3, <1>4, <1>7

(* What the client reads keeps the framing of the rest.                      *)
LEMMA FollowedClient ==
  ASSUME TypeOK, ReadHeader \/ ReadPayload, NEW loose \in BOOLEAN,
         Followed(Wire, task.buffer, loose)
  PROVE  Followed(Wire', task'.buffer, loose)
<1>1. toClient # <<>> /\ toClient' = Tail(toClient) /\ task' = task
  BY DEF ReadHeader, ReadPayload, Reading
<1>2. Heard(client.want) \in Items /\ Heard(client'.want) \in Items /\ toClient \in Seq(Items)
  <2>1. TypeOK'
    BY TypeClient DEF Client, ClientRead
  <2>2. client.want \in Nat /\ client'.want \in Nat /\ toClient \in Seq(Items)
    BY <2>1, Numbers DEF TypeOK
  <2> QED
    BY <2>2, ItemsAreItems
<1>3. Drops(Wire, Wire') /\ Wire[2] = Head(toClient) /\ Wire'[1] = Heard(client'.want)
  BY <1>1, <1>2, HeardDrops DEF Wire
<1>4. Head(toClient) \in Items
      /\ (Head(toClient).cmd = "VIDEO" => Head(toClient).n \in 1..FileFrames)
  BY <1>1, Shorter DEF TypeOK
<1>5. Wire'[1] = Wire[2] \/ Wire'[1].cmd # "VIDEO"
  <2>1. CASE ReadHeader /\ Head(toClient).cmd = "VIDEO"
    <3>1. client'.want = Head(toClient).n
      BY <2>1 DEF ReadHeader, TypeOK
    <3>2. Heard(client'.want) = Head(toClient)
      BY <1>4, <2>1, <3>1, Numbers DEF Heard, Item, Items
    <3> QED
      BY <1>3, <3>2
  <2>2. CASE ReadPayload \/ (ReadHeader /\ Head(toClient).cmd # "VIDEO")
    <3>1. client'.want = 0
      BY <2>2 DEF ReadHeader, ReadPayload, TypeOK
    <3> QED
      BY <1>3, <3>1 DEF Heard, Item
  <2> QED
    BY <2>1, <2>2
<1> QED
  BY <1>1, <1>3, <1>5, FollowedDrops

(* Every step keeps the framing, but for a seek that finds a packet half     *)
(* sent, which keeps it loosely.                                             *)
LEMMA FollowedNext ==
  ASSUME TypeOK, [Next]_vars, conn' = "open", NEW loose \in BOOLEAN,
         Followed(Wire, task.buffer, loose),
         loose \/ ~(Seek /\ task.buffer.state = "payload")
  PROVE  conn = "open" /\ Followed(Wire', task'.buffer, loose)
<1>1. CASE writeBuffer
  <2>1. conn' = conn
    BY <1>1 DEF writeBuffer, WritePending, WriteQueued, WriteNothing, WriteSectionEnd, WriteFrame,
       WriteDataEnd
  <2> QED
    BY <1>1, <2>1, FollowedWrite
<1>2. CASE Seek
  <2>1. conn' = conn
    BY <1>2 DEF Seek
  <2> QED
    BY <1>2, <2>1, FollowedBySeek
<1>3. CASE ReadHeader \/ ReadPayload
  <2>1. conn' = conn
    BY <1>3 DEF ReadHeader, ReadPayload
  <2> QED
    BY <1>3, <2>1, FollowedClient
<1>4. CASE WriteTimeout \/ Start \/ Pause \/ Resume \/ Heartbeat \/ UNCHANGED vars
  <2>1. conn' = conn /\ toClient' = toClient /\ client' = client /\ task'.buffer = task.buffer
    BY <1>4 DEF WriteTimeout, Start, Pause, Resume, Heartbeat, vars, TypeOK
  <2> QED
    BY <2>1 DEF Wire
<1>5. ASSUME NEW req \in Requests, ClientRequest(req)
      PROVE  conn = "open" /\ Followed(Wire', task'.buffer, loose)
  <2>1. conn' = conn /\ toClient' = toClient /\ client'.want = client.want /\ task' = task
    BY <1>5 DEF ClientRequest, TypeOK
  <2> QED
    BY <2>1 DEF Wire
<1>6. CASE ReadZero \/ ClientClose
  BY <1>6 DEF ReadZero, ClientClose
<1> QED
  BY <1>1, <1>2, <1>3, <1>4, <1>5, <1>6 DEF Next, Server, Client, ClientRead

(* Framed is the strict form.                                                *)
LEMMA FramedIsFollowed == Framed <=> (conn = "open" => Followed(Wire, task.buffer, FALSE))
BY DEF Framed, Followed, Wire

(* Whatever commands, heartbeats and writes come between: a header is        *)
(* followed by the payload it announces, until a seek resets mSendBuffer     *)
(* between the two (TaskPlayback::seek calls reset).                         *)
THEOREM OnlySeekBreaksFraming == Spec => FramingOutlivesAllButSeek
<1>1. ASSUME TypeOK, [Next]_vars, Framed, ~Framed'
      PROVE  Seek /\ task.buffer.state = "payload"
  <2>1. conn' = "open" /\ ~Followed(Wire', task'.buffer, FALSE)
    BY <1>1 DEF Framed, Followed, Wire
  <2>2. conn = "open"
    BY <1>1, <2>1 DEF Next, Server, Client, ClientRead, writeBuffer, WritePending, WriteQueued,
       WriteNothing, WriteSectionEnd, WriteFrame, WriteDataEnd, WriteTimeout, Start, Pause,
       Resume, Seek, ReadZero, Heartbeat, ReadHeader, ReadPayload, ClientRequest, ClientClose, vars
  <2>3. Followed(Wire, task.buffer, FALSE)
    BY <1>1, <2>2, FramedIsFollowed
  <2> QED
    BY <1>1, <2>1, <2>3, FollowedNext
<1>2. TypeOK /\ [Next]_vars => [Framed /\ ~Framed' => Seek /\ task.buffer.state = "payload"]_vars
  BY <1>1
<1> QED
  BY <1>2, TypeCorrect, PTL DEF Spec, FramingOutlivesAllButSeek

-----------------------------------------------------------------------------
(* Announcements. *)

\* The last command of s, pings apart, tells that the stream has stopped.
Told(s) ==
  \E i \in 1..Len(s) : /\ s[i].cmd \in {"SECTION_END", "DATAEND"}
                       /\ \A k \in (i + 1)..Len(s) : s[k].cmd \in {"PING", "PAYLOAD"}

\* What the client has heard and will hear, as StopsAreAnnounced sees it.
Talk == <<Item(client.heard, 0)>> \o toClient

\* While the connection is open nothing is left unsent, and no seek's answer
\* is queued.
OpenCalm ==
  conn = "open" => /\ task.buffer # Unsent
                   /\ \A i \in 1..Len(task.queue) : task.queue[i] = "PING"

\* Between a header and its payload there is at most a seek's answer.
LooselyFramed == conn = "open" => Followed(Wire, task.buffer, TRUE)

StopInv == TypeOK /\ OpenCalm /\ LooselyFramed /\ StopsAreAnnounced

(* The invariant says of Talk what StopsAreAnnounced says.                   *)
LEMMA StopsAreTold == StopsAreAnnounced <=> (conn = "open" /\ ~task.sending => Told(Talk))
BY DEF StopsAreAnnounced, Told, Talk

(* A ping and a payload leave the announcement the last word.                *)
LEMMA ToldQuiet ==
  ASSUME NEW s \in Seq(Items), NEW x \in Items, Told(s), x.cmd \in {"PING", "PAYLOAD"}
  PROVE  Told(Append(s, x))
<1>1. PICK i \in 1..Len(s) : /\ s[i].cmd \in {"SECTION_END", "DATAEND"}
                             /\ \A k \in (i + 1)..Len(s) : s[k].cmd \in {"PING", "PAYLOAD"}
  BY DEF Told
<1> DEFINE t == Append(s, x)
<1>2. Len(t) = Len(s) + 1 /\ t[Len(s) + 1] = x /\ \A k \in 1..Len(s) : t[k] = s[k]
  OBVIOUS
<1> HIDE DEF t
<1>3. i \in 1..Len(t) /\ t[i].cmd \in {"SECTION_END", "DATAEND"}
  BY <1>1, <1>2
<1>4. \A k \in (i + 1)..Len(t) : t[k].cmd \in {"PING", "PAYLOAD"}
  BY <1>1, <1>2
<1>5. Told(t)
  BY <1>3, <1>4 DEF Told
<1> QED
  BY <1>5 DEF t

(* An announcement is the last word when it is sent.                         *)
LEMMA ToldNow ==
  ASSUME NEW s \in Seq(Items), NEW x \in Items, x.cmd \in {"SECTION_END", "DATAEND"}
  PROVE  Told(Append(s, x))
<1>1. Len(Append(s, x)) = Len(s) + 1 /\ Append(s, x)[Len(s) + 1] = x
  OBVIOUS
<1> QED
  BY <1>1 DEF Told

(* Reading keeps the last word: what is read becomes what was heard, or is   *)
(* no announcement.                                                          *)
LEMMA ToldDrops ==
  ASSUME NEW S, NEW T, Drops(S, T), Told(S),
         \/ T[1].cmd = S[2].cmd /\ S[2].cmd \notin {"PING", "PAYLOAD"}
         \/ T[1].cmd = S[1].cmd /\ S[2].cmd \notin {"SECTION_END", "DATAEND"}
  PROVE  Told(T)
<1>0. Len(T) >= 1 /\ Len(S) = Len(T) + 1 /\ Len(T) \in Nat /\ \A i \in 2..Len(T) : T[i] = S[i + 1]
  BY DEF Drops
<1>1. PICK i \in 1..Len(S) : /\ S[i].cmd \in {"SECTION_END", "DATAEND"}
                             /\ \A k \in (i + 1)..Len(S) : S[k].cmd \in {"PING", "PAYLOAD"}
  BY DEF Told
<1>2. CASE i >= 3
  <2>1. i - 1 \in 2..Len(T) /\ T[i - 1] = S[i]
    BY <1>0, <1>2
  <2>3. i - 1 \in 1..Len(T) /\ T[i - 1].cmd \in {"SECTION_END", "DATAEND"}
    BY <1>0, <1>1, <2>1
  <2>2. \A k \in ((i - 1) + 1)..Len(T) : T[k].cmd \in {"PING", "PAYLOAD"}
    <3> SUFFICES ASSUME NEW k \in ((i - 1) + 1)..Len(T) PROVE T[k].cmd \in {"PING", "PAYLOAD"}
      OBVIOUS
    <3>1. k \in 2..Len(T) /\ k + 1 \in (i + 1)..Len(S)
      BY <1>0, <1>2
    <3> QED
      BY <1>0, <1>1, <3>1
  <2> QED
    BY <2>2, <2>3 DEF Told
<1>3. CASE i <= 2
  <2>1. T[1].cmd \in {"SECTION_END", "DATAEND"}
    <3>1. 2 \in 1..Len(S) /\ (i = 1 \/ i = 2)
      BY <1>0, <1>3
    <3>2. i = 1 => S[2].cmd \in {"PING", "PAYLOAD"}
      BY <1>1, <3>1
    <3> QED
      BY <1>1, <3>1, <3>2
  <2>2. \A k \in (1 + 1)..Len(T) : T[k].cmd \in {"PING", "PAYLOAD"}
    <3> SUFFICES ASSUME NEW k \in (1 + 1)..Len(T) PROVE T[k].cmd \in {"PING", "PAYLOAD"}
      OBVIOUS
    <3>1. k \in 2..Len(T) /\ k + 1 \in (i + 1)..Len(S)
      BY <1>0, <1>3
    <3> QED
      BY <1>0, <1>1, <3>1
  <2> QED
    BY <1>0, <2>1, <2>2 DEF Told
<1> QED
  BY <1>2, <1>3

(* What is sent comes last in the talk.                                      *)
LEMMA TalkSend ==
  ASSUME TypeOK
  PROVE  /\ Talk \in Seq(Items)
         /\ \A x \in Items : toClient' = Append(toClient, x) /\ client' = client
                               => Talk' = Append(Talk, x)
<1>1. Item(client.heard, 0) \in Items /\ toClient \in Seq(Items)
  BY ItemsAreItems DEF TypeOK
<1>2. \A x \in Items : <<Item(client.heard, 0)>> \o Append(toClient, x)
                          = Append(<<Item(client.heard, 0)>> \o toClient, x)
  BY <1>1, HeardAppend
<1> QED
  BY <1>1, <1>2, HeardFirst DEF Talk

(* On an open connection nothing becomes unsent.                             *)
LEMMA CalmNext == TypeOK /\ OpenCalm /\ [Next]_vars => OpenCalm'
<1> SUFFICES ASSUME TypeOK, OpenCalm, [Next]_vars, conn' = "open"
             PROVE  /\ task'.buffer # Unsent
                    /\ \A i \in 1..Len(task'.queue) : task'.queue[i] = "PING"
  BY DEF OpenCalm
<1>0. task \in TaskType /\ Empty # Unsent /\ \A n \in Nat : Payload(n) # Unsent
  BY DEF TypeOK, TaskType, Empty, Unsent, Payload
<1>1. CASE WriteQueued
  <2>1. conn = "open" /\ task.queue # <<>> /\ task'.queue = Tail(task.queue) /\ task'.buffer = Empty
    BY <1>0, <1>1 DEF WriteQueued, tcpSendData, TaskType
  <2>2. \A i \in 1..Len(Tail(task.queue)) : Tail(task.queue)[i] = task.queue[i + 1]
        /\ i + 1 \in 1..Len(task.queue)
    BY <1>0, <2>1, Shorter DEF TaskType
  <2> QED
    BY <1>0, <2>1, <2>2 DEF OpenCalm
<1>2. CASE WritePending \/ WriteNothing \/ WriteSectionEnd \/ WriteFrame \/ WriteDataEnd
  <2>1. conn = "open" /\ task'.queue = task.queue
    BY <1>0, <1>2 DEF WritePending, WriteNothing, WriteSectionEnd, WriteFrame, WriteDataEnd, TaskType
  <2>2. task'.buffer \in {task.buffer, Empty, Payload(task.next)}
    BY <1>0, <1>2, <2>1 DEF WritePending, WriteNothing, WriteSectionEnd, WriteFrame, WriteDataEnd,
       tcpSendData, TaskType
  <2>3. task.next \in Nat
    BY <1>0, Numbers DEF TaskType
  <2> QED
    BY <1>0, <2>1, <2>2, <2>3 DEF OpenCalm
<1>3. CASE Seek
  <2>1. conn = "open" /\ task'.queue = task.queue /\ task'.buffer = Empty
    BY <1>0, <1>3 DEF Seek, tcpSendData, TaskType
  <2> QED
    BY <1>0, <2>1 DEF OpenCalm
<1>4. CASE Heartbeat
  <2>1. conn = "open" /\ task'.buffer = task.buffer
        /\ task'.queue \in {task.queue, Append(task.queue, "PING")}
    BY <1>0, <1>4 DEF Heartbeat, TaskType
  <2>2. \A i \in 1..Len(Append(task.queue, "PING")) :
          Append(task.queue, "PING")[i] = "PING" \/ (i \in 1..Len(task.queue)
            /\ Append(task.queue, "PING")[i] = task.queue[i])
    BY <1>0 DEF TaskType
  <2> QED
    BY <2>1, <2>2 DEF OpenCalm
<1>5. CASE WriteTimeout \/ Start \/ Pause \/ Resume \/ ReadZero \/ Client \/ UNCHANGED vars
  <2>1. conn = "open" /\ task'.buffer = task.buffer /\ task'.queue = task.queue
    BY <1>0, <1>5 DEF WriteTimeout, Start, Pause, Resume, ReadZero, Client, ClientRead, ReadHeader,
       ReadPayload, ClientRequest, ClientClose, vars, Reading, TaskType
  <2> QED
    BY <2>1 DEF OpenCalm
<1> QED
  BY <1>1, <1>2, <1>3, <1>4, <1>5 DEF Next, Server, writeBuffer

(* The callbacks that write tell before they stop, and say nothing but pings *)
(* and payloads afterwards.                                                  *)
LEMMA ToldWrite ==
  ASSUME TypeOK, OpenCalm, StopsAreAnnounced, writeBuffer, conn' = "open", ~task'.sending
  PROVE  Told(Talk')
<1>0. task \in TaskType /\ conn = "open" /\ client' = client /\ Talk \in Seq(Items)
  BY TalkSend DEF TypeOK, TaskType, writeBuffer, WritePending, WriteQueued, WriteNothing,
     WriteSectionEnd, WriteFrame, WriteDataEnd
<1>1. CASE WritePending
  <2>1. Item("PAYLOAD", task.buffer.n) \in Items /\ Item("PAYLOAD", task.buffer.n).cmd = "PAYLOAD"
    <3>1. task.buffer.n \in Nat
      BY <1>0 DEF TaskType, Empty, Unsent, Payload
    <3> QED
      BY <3>1, ItemsAreItems DEF Item
  <2>2. Talk' = Append(Talk, Item("PAYLOAD", task.buffer.n))
    BY <1>0, <1>1, <2>1, TalkSend, SendIsAppend DEF WritePending, Send, TypeOK
  <2>3. ~task.sending
    BY <1>0, <1>1 DEF WritePending, TaskType
  <2> QED
    BY <1>0, <2>1, <2>2, <2>3, StopsAreTold, ToldQuiet
<1>2. CASE WriteQueued
  <2>1. Head(task.queue) = "PING"
    <3>1. task.queue # <<>> /\ task.queue \in Seq({"PING", "SEEK_CMPD"})
      BY <1>0, <1>2 DEF WriteQueued, TaskType
    <3>2. Head(task.queue) = task.queue[1] /\ 1 \in 1..Len(task.queue)
      BY <3>1
    <3> QED
      BY <1>0, <3>2 DEF OpenCalm
  <2>2. Item("PING", 0) \in Items /\ Item("PING", 0).cmd = "PING"
    BY ItemsAreItems DEF Item, Commands
  <2>3. Talk' = Append(Talk, Item("PING", 0))
    BY <1>0, <1>2, <2>1, <2>2, TalkSend, SendIsAppend DEF WriteQueued, Send, TypeOK
  <2>4. ~task.sending
    BY <1>0, <1>2 DEF WriteQueued, TaskType
  <2> QED
    BY <1>0, <2>2, <2>3, <2>4, StopsAreTold, ToldQuiet
<1>3. CASE WriteNothing
  <2>1. Talk' = Talk
    BY <1>3 DEF WriteNothing, Talk
  <2> QED
    BY <1>0, <1>3, <2>1, StopsAreTold DEF WriteNothing
<1>4. CASE WriteSectionEnd
  <2>1. Item("SECTION_END", 0) \in Items /\ Item("SECTION_END", 0).cmd = "SECTION_END"
    BY ItemsAreItems DEF Item, Commands
  <2>2. Talk' = Append(Talk, Item("SECTION_END", 0))
    BY <1>0, <1>4, <2>1, TalkSend, SendIsAppend DEF WriteSectionEnd, Send, TypeOK
  <2> QED
    BY <1>0, <2>1, <2>2, ToldNow
<1>5. CASE WriteFrame
  <2>1. task'.sending
    BY <1>0, <1>5 DEF WriteFrame, TaskType
  <2> QED
    BY <2>1
<1>6. CASE WriteDataEnd
  <2>1. Item("DATAEND", 0) \in Items /\ Item("DATAEND", 0).cmd = "DATAEND"
    BY ItemsAreItems DEF Item, Commands
  <2>2. Talk' = Append(Talk, Item("DATAEND", 0))
    BY <1>0, <1>6, <2>1, TalkSend, SendIsAppend DEF WriteDataEnd, Send, TypeOK
  <2> QED
    BY <1>0, <2>1, <2>2, ToldNow
<1> QED
  BY <1>1, <1>2, <1>3, <1>4, <1>5, <1>6 DEF writeBuffer

(* The client hears the announcement, or it is still to come: what it takes  *)
(* for a payload is one, or the answer to a seek.                            *)
LEMMA ToldClient ==
  ASSUME TypeOK, LooselyFramed, ReadHeader \/ ReadPayload, Told(Talk)
  PROVE  Told(Talk')
<1>1. toClient # <<>> /\ toClient' = Tail(toClient) /\ conn = "open"
  BY DEF ReadHeader, ReadPayload, Reading
<1>2. TypeOK'
  BY TypeClient DEF Client, ClientRead
<1>3. /\ Item(client.heard, 0) \in Items /\ Item(client'.heard, 0) \in Items
      /\ toClient \in Seq(Items) /\ Heard(client.want) \in Items
  <2>1. client.heard \in Commands /\ client'.heard \in Commands /\ client.want \in Nat
    BY <1>2, Numbers DEF TypeOK
  <2> QED
    BY <2>1, ItemsAreItems DEF TypeOK
<1>4. /\ Drops(Talk, Talk') /\ Talk[2] = Head(toClient)
      /\ Talk[1].cmd = client.heard /\ Talk'[1].cmd = client'.heard
  BY <1>1, <1>3, HeardDrops DEF Talk, Item
<1>5. CASE ReadHeader
  <2>1. client'.heard = IF Head(toClient).cmd = "PING" THEN client.heard ELSE Head(toClient).cmd
    BY <1>5 DEF ReadHeader, TypeOK
  <2>2. Head(toClient).cmd \in Commands
    BY <1>5 DEF ReadHeader
  <2>3. Head(toClient).cmd # "PAYLOAD"
    BY <2>2 DEF Commands
  <2>4. CASE Head(toClient).cmd = "PING"
    BY <1>4, <2>1, <2>4, ToldDrops
  <2>5. CASE Head(toClient).cmd # "PING"
    BY <1>4, <2>1, <2>3, <2>5, ToldDrops
  <2> QED
    BY <2>4, <2>5
<1>6. CASE ReadPayload
  <2>1. client'.heard = client.heard /\ client.want # 0
    BY <1>6 DEF ReadPayload, TypeOK
  <2>2. Wire[1] = Heard(client.want) /\ Wire[2] = toClient[1] /\ Len(Wire) = Len(toClient) + 1
        /\ Len(toClient) \in Nat \ {0} /\ Head(toClient) = toClient[1]
    BY <1>1, <1>3, HeardFirst DEF Wire
  <2>3. Wire[1].cmd = "VIDEO" /\ 1 \in 1..Len(Wire) /\ 1 < Len(Wire)
    BY <2>1, <2>2 DEF Heard, Item
  <2>4. Head(toClient).cmd \in {"PAYLOAD", "SEEK_CMPD"}
    <3>1. Followed(Wire, task.buffer, TRUE)
      BY <1>1 DEF LooselyFramed
    <3>2. Wire[1 + 1] = Item("PAYLOAD", Wire[1].n) \/ Wire[1 + 1].cmd = "SEEK_CMPD"
      BY <2>3, <3>1 DEF Followed
    <3> QED
      BY <2>2, <3>2 DEF Item
  <2> QED
    BY <1>4, <2>1, <2>4, ToldDrops
<1> QED
  BY <1>5, <1>6

(* Every step keeps the invariant.                                           *)
LEMMA StopNext == StopInv /\ [Next]_vars => StopInv'
<1> SUFFICES ASSUME StopInv, [Next]_vars PROVE StopInv'
  OBVIOUS
<1>0. TypeOK /\ OpenCalm /\ LooselyFramed /\ StopsAreAnnounced
  BY DEF StopInv
<1>1. TypeOK' /\ OpenCalm'
  BY <1>0, TypeNext, CalmNext
<1>2. LooselyFramed'
  <2>1. ASSUME conn' = "open" PROVE Followed(Wire', task'.buffer, TRUE)
    <3>1. conn = "open"
      BY <2>1 DEF Next, Server, Client, ClientRead, writeBuffer, WritePending, WriteQueued,
         WriteNothing, WriteSectionEnd, WriteFrame, WriteDataEnd, WriteTimeout, Start, Pause,
         Resume, Seek, ReadZero, Heartbeat, ReadHeader, ReadPayload, ClientRequest, ClientClose, vars
    <3> QED
      BY <1>0, <2>1, <3>1, FollowedNext DEF LooselyFramed
  <2> QED
    BY <2>1 DEF LooselyFramed
<1>3. ASSUME conn' = "open", ~task'.sending PROVE Told(Talk')
  <2>1. CASE writeBuffer
    BY <1>0, <1>3, <2>1, ToldWrite
  <2>2. CASE Resume \/ Seek
    <3>1. task'.sending
      BY <1>0, <2>2 DEF Resume, Seek, TypeOK
    <3> QED
      BY <1>3, <3>1
  <2>3. CASE ReadHeader \/ ReadPayload
    <3>1. conn = "open" /\ ~task.sending
      BY <1>3, <2>3 DEF ReadHeader, ReadPayload
    <3> QED
      BY <1>0, <2>3, <3>1, StopsAreTold, ToldClient
  <2>4. CASE WriteTimeout \/ Start \/ Pause \/ Heartbeat \/ UNCHANGED vars
    <3>1. conn = "open" /\ task'.sending = task.sending /\ Talk' = Talk
      BY <1>0, <1>3, <2>4 DEF WriteTimeout, Start, Pause, Heartbeat, vars, TypeOK, Talk
    <3> QED
      BY <1>0, <1>3, <3>1, StopsAreTold
  <2>5. ASSUME NEW req \in Requests, ClientRequest(req)
        PROVE  Told(Talk')
    <3>1. conn = "open" /\ task' = task /\ Talk' = Talk
      BY <1>0, <2>5 DEF ClientRequest, TypeOK, Talk
    <3> QED
      BY <1>0, <1>3, <3>1, StopsAreTold
  <2>6. CASE ReadZero \/ ClientClose
    BY <1>3, <2>6 DEF ReadZero, ClientClose
  <2> QED
    BY <2>1, <2>2, <2>3, <2>4, <2>5, <2>6 DEF Next, Server, Client, ClientRead
<1>4. StopsAreAnnounced'
  BY <1>3 DEF StopsAreAnnounced, Told, Talk
<1> QED
  BY <1>1, <1>2, <1>4 DEF StopInv

(* Whatever the interleaving of commands, heartbeats and writes: a client    *)
(* whose stream has stopped has been told by SECTION_END or DATAEND, or will *)
(* be by what is on its way.                                                 *)
THEOREM StopsAreTheLastWord == Spec => []StopsAreAnnounced
<1>1. Init => StopInv
  <2> SUFFICES ASSUME Init PROVE StopInv
    OBVIOUS
  <2>1. Item("LOGINRET", 0) \in Items /\ Heard(0) \in Items
    BY ItemsAreItems DEF Commands
  <2>2. \A i \in 1..Len(Wire) : Wire[i].cmd # "VIDEO"
    BY <2>1, HeardFirst DEF Init, Wire, Heard, Item
  <2>3. LooselyFramed /\ OpenCalm
    BY <2>2 DEF Init, LooselyFramed, Followed, OpenCalm, Empty, Unsent
  <2>4. StopsAreAnnounced
    BY DEF Init, StopsAreAnnounced
  <2> QED
    BY <2>3, <2>4, TypeInit DEF StopInv
<1>2. StopInv => StopsAreAnnounced
  BY DEF StopInv
<1> QED
  BY <1>1, <1>2, StopNext, PTL DEF Spec
=============================================================================
