------------------------------- MODULE Playback -------------------------------
(***************************************************************************)
(* One playback connection: the TaskPlayback of a session                   *)
(* (EventServer/TaskPlayback.cpp) streams the packets of a file, the client *)
(* (PlayerClient/NetDataClient.cpp) parses the stream and sends commands.   *)
(* Each server action is one callback of EventCall; sendEx does not return  *)
(* before everything is sent, so a callback puts whole items on the wire:   *)
(* a command, or the payload a VIDEO header has announced.                  *)
(***************************************************************************)
EXTENDS Naturals, Sequences

CONSTANTS
  FileFrames,  \* packets in the file
  Keyframes,   \* packets a seek can land on
  SegFrames,   \* SEG_FRAME_COUNT: frames of a section
  Requests,    \* the commands a client may send
  Capacity,    \* items the server's send buffer holds
  MaxPings,    \* bound: heartbeats waiting in mMsgQueue
  MaxRequests, \* bound: commands on their way to the server
  MaxSeeks     \* bound: seeks of one connection

ASSUME PlaybackAssumption ==
  /\ FileFrames \in Nat /\ 1 \in Keyframes /\ Keyframes \subseteq 1..FileFrames
  /\ SegFrames \in Nat \ {0} /\ Capacity \in Nat \ {0}
  /\ Requests \subseteq {"start", "pause", "resume", "seek"}
  /\ MaxPings \in Nat \ {0} /\ MaxRequests \in Nat \ {0} /\ MaxSeeks \in Nat

VARIABLES
  task,      \* the fields of the TaskPlayback
  writing,   \* the session's mWriting: its write event is pending
  toClient,  \* sent and not yet read by the client
  toServer,  \* commands not yet read by the server
  conn,      \* "open", "eof" (the client has closed), "closed" (by the server)
  client     \* the client's parser

vars == <<task, writing, toClient, toServer, conn, client>>

Commands == {"LOGINRET", "VIDEO", "SECTION_END", "DATAEND", "SEEK_CMPD", "EXERET", "PING"}

\* A command with its argument (a frame for VIDEO, dwIndex otherwise), or the
\* payload of frame n.
Items == [cmd : Commands \cup {"PAYLOAD"}, n : Nat]
Item(cmd, n) == [cmd |-> cmd, n |-> n]

\* mSendBuffer between two callbacks: empty, holding a command that could not
\* be sent, or holding a packet whose header is sent and whose payload is not.
Empty      == [state |-> "empty", n |-> 0]
Unsent     == [state |-> "command", n |-> 0]
Payload(n) == [state |-> "payload", n |-> n]

TypeOK ==
  /\ task \in [ next    : 1..(FileFrames + 1),   \* the packet av_read_frame returns next
                count   : 0..SegFrames,          \* mFrameCount
                sending : BOOLEAN,               \* mbSendingData
                buffer  : {Empty, Unsent} \cup {Payload(n) : n \in 1..FileFrames},
                queue   : Seq({"PING", "SEEK_CMPD"}) ]   \* mMsgQueue
  /\ writing \in {0, 1}
  /\ toClient \in Seq(Items) /\ Len(toClient) <= Capacity + 2
  /\ \A i \in 1..Len(toClient) : toClient[i].cmd = "VIDEO" => toClient[i].n \in 1..FileFrames
  /\ toServer \in Seq([req : Requests, n : Nat]) /\ Len(toServer) <= MaxRequests
  /\ conn \in {"open", "eof", "closed"}
  /\ client \in [ want     : 0..FileFrames,   \* the payload it waits for, 0: a header
                  frame    : 0..FileFrames,   \* the last frame since the last seek
                  heard    : Commands,        \* the last command but pings
                  left     : BOOLEAN,         \* Work has left its receive loop
                  seeks    : 0..MaxSeeks,     \* seeks sent
                  answered : Nat ]            \* index of the last EXERET

\* The constructor has sent the login answer.
Init ==
  /\ task = [next |-> 1, count |-> 0, sending |-> TRUE, buffer |-> Empty, queue |-> <<>>]
  /\ writing = 0
  /\ toClient = <<Item("LOGINRET", 0)>>
  /\ toServer = <<>>
  /\ conn = "open"
  /\ client = [want |-> 0, frame |-> 0, heard |-> "PING", left |-> FALSE,
               seeks |-> 0, answered |-> 0]

-----------------------------------------------------------------------------
(* Sending.  sendEx spins on EAGAIN until the client has read enough, and    *)
(* fails once the client is gone.                                            *)

\* No callback is inside sendEx: what it could not send yet is what exceeds
\* the capacity, and the one thread of the loop stands still until it is sent.
Running == conn # "closed" /\ (conn = "open" => Len(toClient) <= Capacity)

\* What is on the wire after a callback sent items.
Send(items) == toClient' = IF conn = "open" THEN toClient \o items ELSE toClient

\* tcpSendData: the buffer after sending what it holds.  After a header comes
\* the packet (setToVideo), after anything else nothing (reset).
tcpSendData(sent) == IF conn = "open" THEN sent ELSE Unsent

-----------------------------------------------------------------------------
(* TaskPlayback::writeBuffer, called by onWrite.  A result other than 0 arms *)
(* the write event again.                                                    *)

Writable == conn # "open" \/ Len(toClient) < Capacity
OnWrite  == Running /\ writing = 1 /\ Writable

\* The buffer still holds the payload of a packet, or a command that failed.
WritePending ==
  /\ OnWrite /\ task.buffer # Empty
  /\ task' = IF conn = "open" THEN [task EXCEPT !.buffer = Empty] ELSE task
  /\ Send(<<Item("PAYLOAD", task.buffer.n)>>)
  /\ UNCHANGED <<writing, toServer, conn, client>>

\* Queued commands go before frames (sendVariedCmd).
WriteQueued ==
  /\ OnWrite /\ task.buffer = Empty /\ task.queue # <<>>
  /\ task' = [task EXCEPT !.queue = Tail(@), !.buffer = tcpSendData(Empty)]
  /\ Send(<<Item(Head(task.queue), 0)>>)
  /\ UNCHANGED <<writing, toServer, conn, client>>

Idle == OnWrite /\ task.buffer = Empty /\ task.queue = <<>>

WriteNothing ==
  /\ Idle /\ ~task.sending
  /\ writing' = 0
  /\ UNCHANGED <<task, toClient, toServer, conn, client>>

\* Mutant of WriteSectionEnd: a packet is read before the section is closed.
WriteSectionEndLate ==
  /\ Idle /\ task.sending /\ task.count >= SegFrames
  /\ task' = [task EXCEPT !.count = 0, !.sending = FALSE, !.buffer = tcpSendData(Empty),
                          !.next = IF @ <= FileFrames THEN @ + 1 ELSE @]
  /\ Send(<<Item("SECTION_END", 0)>>)
  /\ UNCHANGED <<writing, toServer, conn, client>>

\* A section is full: the client must ask for the next one.
WriteSectionEnd ==
  /\ Idle /\ task.sending /\ task.count >= SegFrames
  /\ task' = [task EXCEPT !.count = 0, !.sending = FALSE, !.buffer = tcpSendData(Empty)]
  /\ Send(<<Item("SECTION_END", 0)>>)
  /\ UNCHANGED <<writing, toServer, conn, client>>

\* Mutant of WriteFrame: the packet is dropped with its header.
WriteFrameOnly ==
  /\ Idle /\ task.sending /\ task.count < SegFrames /\ task.next <= FileFrames
  /\ task' = [task EXCEPT !.count = @ + 1, !.next = @ + 1, !.buffer = tcpSendData(Empty)]
  /\ Send(<<Item("VIDEO", task.next)>>)
  /\ UNCHANGED <<writing, toServer, conn, client>>

WriteFrame ==
  /\ Idle /\ task.sending /\ task.count < SegFrames /\ task.next <= FileFrames
  /\ task' = [task EXCEPT !.count = @ + 1, !.next = @ + 1,
                          !.buffer = tcpSendData(Payload(task.next))]
  /\ Send(<<Item("VIDEO", task.next)>>)
  /\ UNCHANGED <<writing, toServer, conn, client>>

\* No packet left: the write event is not armed again.
WriteDataEnd ==
  /\ Idle /\ task.sending /\ task.count < SegFrames /\ task.next > FileFrames
  /\ task' = [task EXCEPT !.count = @ + 1, !.sending = FALSE, !.buffer = tcpSendData(Empty)]
  /\ Send(<<Item("DATAEND", 0)>>)
  /\ writing' = 0
  /\ UNCHANGED <<toServer, conn, client>>

\* onWrite called because the write event timed out.
WriteTimeout ==
  /\ Running /\ writing = 1 /\ ~Writable
  /\ writing' = 0
  /\ UNCHANGED <<task, toClient, toServer, conn, client>>

writeBuffer == \/ WritePending \/ WriteQueued \/ WriteNothing
               \/ WriteSectionEnd \/ WriteFrame \/ WriteDataEnd

-----------------------------------------------------------------------------
(* TaskPlayback::recvPackData, called by onRead for a complete command *)

OnRead(req) == Running /\ toServer # <<>> /\ Head(toServer).req = req

Start ==
  /\ OnRead("start")
  /\ writing' = 1
  /\ toServer' = Tail(toServer)
  /\ UNCHANGED <<task, toClient, conn, client>>

\* setpause with a value other than 0 is only logged.
Pause ==
  /\ OnRead("pause")
  /\ toServer' = Tail(toServer)
  /\ UNCHANGED <<task, writing, toClient, conn, client>>

Resume ==
  /\ OnRead("resume")
  /\ task' = [task EXCEPT !.sending = TRUE]
  /\ toServer' = Tail(toServer)
  /\ UNCHANGED <<writing, toClient, conn, client>>

\* av_seek_frame with AVSEEK_FLAG_BACKWARD: the a key frame, whatever the target.
\* A seek that fails leaves the position (seekFrame's result is not looked at).
Landings == Keyframes \cup {task.next}

\* Mutant of Seek: mbSendingData is left as it was.
SeekPaused ==
  LET answer == <<Item("SEEK_CMPD", Head(toServer).n), Item("EXERET", Head(toServer).n)>>
  IN  /\ OnRead("seek")
      /\ \E p \in Landings :
           task' = [task EXCEPT !.next = p, !.buffer = tcpSendData(Empty),
                                !.queue = IF conn = "open" THEN @ ELSE Append(@, "SEEK_CMPD")]
      /\ Send(answer)
      /\ toServer' = Tail(toServer)
      /\ UNCHANGED <<writing, conn, client>>

\* Mutant of Seek: MODULE_MSG_EXERET is forgotten.
SeekSilent ==
  LET answer == <<Item("SEEK_CMPD", Head(toServer).n)>>
  IN  /\ OnRead("seek")
      /\ \E p \in Landings :
           task' = [task EXCEPT !.next = p, !.buffer = tcpSendData(Empty),
                                !.sending = TRUE]
      /\ Send(answer)
      /\ toServer' = Tail(toServer)
      /\ UNCHANGED <<writing, conn, client>>

\* seek resets mSendBuffer, whatever it holds, and answers at once; an answer
\* that could not be sent is queued again.  The write event is left alone.
Seek ==
  LET answer == <<Item("SEEK_CMPD", Head(toServer).n), Item("EXERET", Head(toServer).n)>>
  IN  /\ OnRead("seek")
      /\ \E p \in Landings :
           task' = [task EXCEPT !.next = p, !.buffer = tcpSendData(Empty),
                                !.sending = TRUE,
                                !.queue = IF conn = "open" THEN @ ELSE Append(@, "SEEK_CMPD")]
      /\ Send(answer)
      /\ toServer' = Tail(toServer)
      /\ UNCHANGED <<writing, conn, client>>

\* recv returns 0: onRead deletes the session.
ReadZero ==
  /\ conn = "eof" /\ toServer = <<>>
  /\ conn' = "closed"
  /\ UNCHANGED <<task, writing, toClient, toServer, client>>

-----------------------------------------------------------------------------
(* TaskPlayback::setHeartCount, called by onTimer.  The queue is not bounded *)
(* in the code; here it takes no more pings than MaxPings.                   *)

\* Mutant of Heartbeat: the write event is not armed.
HeartbeatSilent ==
  /\ Running
  /\ task' = [task EXCEPT !.queue = IF Len(@) < MaxPings THEN Append(@, "PING") ELSE @]
  /\ UNCHANGED <<writing, toClient, toServer, conn, client>>

Heartbeat ==
  /\ Running
  /\ task' = [task EXCEPT !.queue = IF Len(@) < MaxPings THEN Append(@, "PING") ELSE @]
  /\ writing' = 1
  /\ UNCHANGED <<toClient, toServer, conn, client>>

-----------------------------------------------------------------------------
(* The client *)

Reading == conn = "open" /\ ~client.left /\ toClient # <<>>

\* RecvData reads a header, and after a VIDEO header as many bytes as it
\* announces.  Something else where the payload should be is taken for it, and
\* what follows fails the check of dwFlag.
ReadHeader ==
  LET item == Head(toClient) IN
    /\ Reading /\ client.want = 0 /\ item.cmd \in Commands
    /\ client' = [client EXCEPT
         !.want     = IF item.cmd = "VIDEO" THEN item.n ELSE 0,
         !.frame    = CASE item.cmd = "VIDEO"     -> item.n
                        [] item.cmd = "SEEK_CMPD" -> 0
                        [] OTHER                  -> @,
         !.heard    = IF item.cmd = "PING" THEN @ ELSE item.cmd,
         !.left     = item.cmd = "DATAEND",
         !.answered = IF item.cmd = "EXERET" THEN item.n ELSE @]
    /\ toClient' = Tail(toClient)
    /\ UNCHANGED <<task, writing, toServer, conn>>

ReadPayload ==
  /\ Reading /\ client.want # 0
  /\ client' = [client EXCEPT !.want = 0, !.left = Head(toClient).cmd # "PAYLOAD"]
  /\ toClient' = Tail(toClient)
  /\ UNCHANGED <<task, writing, toServer, conn>>

ClientRead == ReadHeader \/ ReadPayload

\* Start, SetPlayPause and Seek of the player.
ClientRequest(req) ==
  /\ conn = "open" /\ Len(toServer) < MaxRequests
  /\ req = "seek" => client.seeks < MaxSeeks
  /\ client' = IF req = "seek" THEN [client EXCEPT !.seeks = @ + 1] ELSE client
  /\ toServer' = Append(toServer, [req |-> req, n |-> client'.seeks])
  /\ UNCHANGED <<task, writing, toClient, conn>>

ClientClose ==
  /\ conn = "open"
  /\ conn' = "eof"
  /\ UNCHANGED <<task, writing, toClient, toServer, client>>

-----------------------------------------------------------------------------

Server == writeBuffer \/ WriteTimeout \/ Start \/ Pause \/ Resume \/ Seek \/ ReadZero
Client == ClientRead \/ ClientClose \/ \E req \in Requests : ClientRequest(req)

Next == Server \/ Heartbeat \/ Client

Spec == Init /\ [][Next]_vars

\* The loop calls back what is ready, heartbeats come (more slowly than
\* writes: see WriteFrame) and the client reads.
Fairness ==
  /\ WF_vars(Server) /\ WF_vars(Heartbeat) /\ WF_vars(ClientRead)
  /\ SF_vars(Start \/ Pause \/ Resume \/ Seek)
  /\ SF_vars(WriteFrame \/ WriteSectionEnd \/ WriteDataEnd)

FairSpec == Spec /\ Fairness

-----------------------------------------------------------------------------
(* The stream as the client will see it: what it last heard, then the wire. *)

\* The header of frame n; for 0 nothing was heard that matters.
Heard(n) == Item(IF n = 0 THEN "PING" ELSE "VIDEO", n)

Stream == <<Heard(client.frame)>> \o toClient

\* Neither a frame nor a seek between the places i and j of s.
Quiet(s, i, j) == \A k \in 1..Len(s) : i < k /\ k < j => s[k].cmd \notin {"VIDEO", "SEEK_CMPD"}

Consecutive(s) ==
  \A i, j \in 1..Len(s) :
    i < j /\ s[i].cmd = "VIDEO" /\ s[j].cmd = "VIDEO" /\ Quiet(s, i, j) => s[j].n = s[i].n + 1

\* n comes after the last frame of s, if no seek came after that.
EndsBefore(s, n) ==
  \A i \in 1..Len(s) : s[i].cmd = "VIDEO" /\ Quiet(s, i, Len(s) + 1) => n = s[i].n + 1

(* No frame is lost, repeated or reordered by heartbeats, section ends and    *)
(* pauses: between two seeks the headers on the wire are those of consecutive *)
(* packets, and the packet read next is the one after the last of them, as    *)
(* long as the client parses the stream.                                      *)
FramesInOrder ==
  ~client.left => Consecutive(Stream) /\ (conn = "open" => EndsBefore(Stream, task.next))

(* protocol.h:376, "nc.dwLength = nLength+sizeof(AV_FRAME)": a VIDEO header    *)
(* is followed by the payload it announces, or the server still holds it.     *)
Framed ==
  LET wire == <<Heard(client.want)>> \o toClient IN
    conn = "open" =>
      \A i \in 1..Len(wire) : wire[i].cmd = "VIDEO" =>
        IF i < Len(wire) THEN wire[i + 1] = Item("PAYLOAD", wire[i].n)
                         ELSE task.buffer = Payload(wire[i].n)

(* Only a seek that finds a packet half sent (header out, payload not) breaks  *)
(* the framing; a ping, a section end, a pause or a resume never does.         *)
FramingOutlivesAllButSeek ==
  [][Framed /\ ~Framed' => Seek /\ task.buffer.state = "payload"]_vars

(* The client can tell why no frames come: whenever mbSendingData is off, the  *)
(* last command it has heard or will hear, pings apart, is SECTION_END or      *)
(* DATAEND, however commands, heartbeats and writes were interleaved.          *)
StopsAreAnnounced ==
  LET talk == <<Item(client.heard, 0)>> \o toClient IN
    conn = "open" /\ ~task.sending =>
      \E i \in 1..Len(talk) :
        /\ talk[i].cmd \in {"SECTION_END", "DATAEND"}
        /\ \A k \in (i + 1)..Len(talk) : talk[k].cmd \in {"PING", "PAYLOAD"}

Gone == conn # "open" \/ client.left

(* Every seek gets its EXERET, the answer the client's ExecCmd waits for,      *)
(* unless the client has gone or has left its receive loop.                    *)
SeeksAreAnswered ==
  \A i \in 1..MaxSeeks : (client.seeks >= i) ~> (client.answered >= i \/ Gone)

(* The client reads faster than heartbeats fill the wire and writes time out.  *)
ClientKeepsUp ==
  /\ <>[][~WriteTimeout]_vars
  /\ []<>(writing = 1 => task.queue = <<>> /\ Writable)

(* A stream that is on goes on: the frames are sent up to the end of the       *)
(* section or of the file, even when the write event is not pending (nothing   *)
(* but the heartbeat arms it after a resume or a seek) or has timed out.       *)
StreamGoesOn == ClientKeepsUp => (task.sending ~> (~task.sending \/ Gone))
=============================================================================
