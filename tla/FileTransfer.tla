----------------------------- MODULE FileTransfer -----------------------------
(***************************************************************************)
(* A file sent by the server's TaskFileSend (EventServer/TaskFileSend.cpp)   *)
(* to the TaskFileRecv of another event loop (EventServer/TaskFileRecv.cpp), *)
(* over one connection.  The server's loop stays inside sendEx until a part *)
(* of a packet is sent whole, send by send; the client reads what has        *)
(* arrived, a packet in pieces.                                              *)
(*                                                                          *)
(* Lengths are counted in cells: a NET_CMD, a LOGIN_RET, a FILE_GET and a    *)
(* piece of the file are one cell each; a piece is named by its position.    *)
(***************************************************************************)
EXTENDS Integers, Sequences

CONSTANTS
  MaxLength,  \* the longest file
  ChunkLen,   \* BUFFER_LEN, the pieces a packet holds at most
  LenMod,     \* mFileLen and mHasReadLen are unsigned integers modulo LenMod
  Room        \* cells the socket holds on their way to the client

ASSUME FileTransferAssumption ==
  /\ MaxLength \in Nat /\ ChunkLen \in Nat \ {0}
  /\ LenMod \in Nat \ {0} /\ Room \in Nat \ {0}

VARIABLES
  disk,     \* the length of the file on the disk, or NoFile
  task,     \* the TaskFileSend: "none", "sending" (mFileLen is known), "deleted"
  fileLen,  \* mFileLen
  hasRead,  \* mHasReadLen, also the position of mpFile
  buffer,   \* mSendBuffer
  call,     \* the callback that is inside sendEx, or "none"
  out,      \* the cells this sendEx still has to send
  writing,  \* the session's mWriting: its write event is pending
  awaited,  \* mRecvBuffer: the command whose body has not arrived, or "none"
  toServer, \* commands on their way to the server
  toClient, \* cells on their way to the client
  client    \* the client's TaskFileRecv

serverVars == <<task, fileLen, hasRead, buffer, call, out, writing, awaited>>
vars == <<disk, serverVars, toServer, toClient, client>>

NoFile == -1

Head_(cmd, len) == [kind |-> "NET_CMD", cmd |-> cmd, n |-> len]
LoginRet(n)     == [kind |-> "LOGIN_RET", cmd |-> "none", n |-> n]
FileGet(n)      == [kind |-> "FILE_GET", cmd |-> "none", n |-> n]
Piece(i)        == [kind |-> "piece", cmd |-> "none", n |-> i]

Cells == {Head_(c, n) : c \in {"LOGINRET", "VIDEO", "DATAEND"}, n \in 0..(ChunkLen + 1)}
           \cup {LoginRet(n) : n \in 0..MaxLength}
           \cup {FileGet(n) : n \in 0..ChunkLen}
           \cup {Piece(i) : i \in 1..MaxLength}

\* The part being sent is a command or the data that follow it; the length of
\* each is totalLen and dataLen.
Reset == [bSendCmd |-> TRUE, part |-> <<>>, data |-> <<>>]
Command(cells, data) == [bSendCmd |-> TRUE, part |-> cells, data |-> data]
setToVideo(b) == [bSendCmd |-> FALSE, part |-> b.data, data |-> <<>>]

Min2(a, b) == IF a < b THEN a ELSE b
Pieces(a, b) == [i \in 1..(b - a) |-> Piece(a + i)]

\* The client has connected and sent its login.
Init ==
  /\ disk \in NoFile..MaxLength
  /\ task = "none" /\ fileLen = 0 /\ hasRead = 0
  /\ buffer = Reset /\ call = "none" /\ out = <<>>
  /\ writing = 0 /\ awaited = "none"
  /\ toServer = <<"get">>
  /\ toClient = <<>>
  /\ \E slow \in BOOLEAN :
       client = [ slow   |-> slow,    \* whether it may leave its socket full for a minute
                  status |-> "open",  \* "open", "end" (DATAEND), "eof", "left"
                  head   |-> <<>>,    \* the command whose body is awaited
                  body   |-> <<>>,    \* the cells of the body that have arrived
                  total  |-> 0,       \* mTotalLen
                  file   |-> <<>> ]   \* the pieces written to mwFile

Gone == client.status # "open"
-----------------------------------------------------------------------------
(* sendEx and what its callers do when it returns *)

\* One send(): as many cells as there is room for.
SendSome ==
  /\ call # "none" /\ out # <<>> /\ ~Gone /\ Len(toClient) < Room
  /\ LET n == Min2(Len(out), Room - Len(toClient)) IN
       /\ toClient' = toClient \o SubSeq(out, 1, n)
       /\ out' = SubSeq(out, n + 1, Len(out))
  /\ UNCHANGED <<disk, task, fileLen, hasRead, buffer, call, writing, awaited,
                 toServer, client>>

\* Mutant of Sent: the buffer is reset after the command.
SentResets ==
  /\ call \in {"login", "write"} /\ out = <<>>
  /\ buffer' = Reset
  /\ writing' = IF call = "write" THEN 1 ELSE writing
  /\ call' = "none"
  /\ UNCHANGED <<disk, task, fileLen, hasRead, out, awaited, toServer, toClient, client>>

\* Mutant of Sent: the write event is armed after the data only.
SentQuiet ==
  /\ call \in {"login", "write"} /\ out = <<>>
  /\ buffer' = IF buffer.bSendCmd THEN setToVideo(buffer) ELSE Reset
  /\ writing' = IF call = "write" /\ ~buffer.bSendCmd THEN 1 ELSE writing
  /\ call' = "none"
  /\ UNCHANGED <<disk, task, fileLen, hasRead, out, awaited, toServer, toClient, client>>

\* Everything is sent.  The end of a command turns to its data, the end of the
\* data makes room for the next packet; onWrite arms the write event again.
Sent ==
  /\ call \in {"login", "write"} /\ out = <<>>
  /\ buffer' = IF buffer.bSendCmd THEN setToVideo(buffer) ELSE Reset
  /\ writing' = IF call = "write" THEN 1 ELSE writing
  /\ call' = "none"
  /\ UNCHANGED <<disk, task, fileLen, hasRead, out, awaited, toServer, toClient, client>>

\* send fails once the peer is gone: the buffer stays as it is.  onWrite arms
\* the event again on a negative result too.
SendFails ==
  /\ call \in {"login", "write"} /\ out # <<>> /\ Gone
  /\ writing' = IF call = "write" THEN 1 ELSE writing
  /\ call' = "none" /\ out' = <<>>
  /\ UNCHANGED <<disk, task, fileLen, hasRead, buffer, awaited, toServer, toClient, client>>

\* After DATAEND, sent or not, writeBuffer returns OWN_SOCK_EXIT: onWrite deletes
\* the session and closes the socket.
Exit ==
  /\ call = "exit" /\ (out = <<>> \/ Gone)
  /\ task' = "deleted" /\ call' = "none" /\ out' = <<>> /\ writing' = 0
  /\ UNCHANGED <<disk, fileLen, hasRead, buffer, awaited, toServer, toClient, client>>

-----------------------------------------------------------------------------
(* writeBuffer *)

\* The write event is pending, and reported when the socket has room or the
\* peer is gone.
Writes == task = "sending" /\ call = "none" /\ writing = 1
            /\ (Len(toClient) < Room \/ Gone)

Begin(c, b) == /\ buffer' = b /\ call' = c /\ out' = b.part /\ writing' = 0
               /\ UNCHANGED <<disk, task, fileLen, awaited, toServer, toClient, client>>

\* Mutant of WritePacket: counts what it asked for, not what fread returned.
WritePacketAsked ==
  LET n   == Min2(fileLen - hasRead, ChunkLen)
      got == IF disk <= hasRead THEN 0 ELSE Min2(n, disk - hasRead)
  IN  /\ Writes /\ buffer.part = <<>> /\ hasRead < fileLen
      /\ Begin("write", Command(<<Head_("VIDEO", got + 1), FileGet(got)>>,
                                Pieces(hasRead, hasRead + got)))
      /\ hasRead' = hasRead + n

\* The next packet; fread returns less than asked when the file was truncated.
WritePacket ==
  LET n   == Min2(fileLen - hasRead, ChunkLen)
      got == IF disk <= hasRead THEN 0 ELSE Min2(n, disk - hasRead)
  IN  /\ Writes /\ buffer.part = <<>> /\ hasRead < fileLen
      /\ Begin("write", Command(<<Head_("VIDEO", got + 1), FileGet(got)>>,
                                Pieces(hasRead, hasRead + got)))
      /\ hasRead' = hasRead + got

\* The rest of a packet, or of a command that could not be sent.
WriteRest ==
  /\ Writes /\ buffer.part # <<>>
  /\ Begin("write", buffer)
  /\ UNCHANGED hasRead

WriteEnd ==
  /\ Writes /\ buffer.part = <<>> /\ hasRead >= fileLen
  /\ Begin("exit", Command(<<Head_("DATAEND", 0)>>, <<>>))
  /\ UNCHANGED hasRead

\* The client has not read for a minute: the event times out and nothing arms
\* it again, the heartbeat of a file sender does nothing.
WriteTimeout ==
  /\ client.slow
  /\ task = "sending" /\ call = "none" /\ writing = 1
  /\ Len(toClient) >= Room /\ ~Gone
  /\ writing' = 0
  /\ UNCHANGED <<disk, task, fileLen, hasRead, buffer, call, out, awaited,
                 toServer, toClient, client>>

-----------------------------------------------------------------------------
(* onRead: Session::recvPackData for the login, TaskFileSend::recvPackData    *)
(* for what follows.                                                         *)

Reads == task # "deleted" /\ call = "none"

\* The head of a command has arrived and its body has not.
ReadHead ==
  /\ Reads /\ awaited = "none" /\ toServer # <<>>
  /\ awaited' = Head(toServer)
  /\ toServer' = Tail(toServer)
  /\ UNCHANGED <<disk, task, fileLen, hasRead, buffer, call, out, writing,
                 toClient, client>>

\* The constructor of the task: fopen, stat, and the answer to the login.
ReadGet ==
  /\ Reads /\ awaited = "get" /\ task = "none" /\ disk # NoFile
  /\ task' = "sending"
  /\ fileLen' = disk % LenMod
  /\ buffer' = Command(<<Head_("LOGINRET", 1), LoginRet(disk % LenMod)>>, <<>>)
  /\ call' = "login" /\ out' = buffer'.part
  /\ awaited' = "none"
  /\ UNCHANGED <<disk, hasRead, writing, toServer, toClient, client>>

\* The login names no file: recvPackData returns 0 and onRead deletes the session.
ReadNoFile ==
  /\ Reads /\ awaited = "get" /\ task = "none" /\ disk = NoFile
  /\ task' = "deleted" /\ awaited' = "none"
  /\ UNCHANGED <<disk, fileLen, hasRead, buffer, call, out, writing, toServer,
                 toClient, client>>

\* "start": EventCall::addEvent arms the write event.
ReadStart ==
  /\ Reads /\ awaited = "start" /\ task = "sending"
  /\ writing' = 1
  /\ awaited' = "none"
  /\ UNCHANGED <<disk, task, fileLen, hasRead, buffer, call, out, toServer,
                 toClient, client>>

\* recv returns 0: onRead deletes the session.
ReadEof ==
  /\ Reads /\ Gone /\ toServer = <<>>
  /\ task' = "deleted" /\ writing' = 0 /\ awaited' = "none"
  /\ UNCHANGED <<disk, fileLen, hasRead, buffer, call, out, toServer, toClient, client>>

-----------------------------------------------------------------------------
(* The client's onRead: readBuffer and recvPackData of TaskFileRecv *)

\* What recvPackData does once the whole body is there: write the pieces, or
\* note the length and answer "start".
Received(c, body) ==
  LET d == [c EXCEPT !.head = <<>>, !.body = <<>>] IN
    IF c.head[1].cmd = "LOGINRET"
    THEN /\ client' = [d EXCEPT !.total = body[1].n]
         /\ toServer' = IF task = "deleted" THEN toServer ELSE Append(toServer, "start")
    ELSE /\ client' = [d EXCEPT !.file = @ \o [i \in 1..(Len(body) - 1) |-> body[i + 1].n]]
         /\ UNCHANGED toServer

\* recv of what has arrived of the body; the head may just have been read.
ReadBody(c, cells) ==
  LET want == c.head[1].n - Len(c.body)
      n    == Min2(want, Len(cells))
      body == c.body \o SubSeq(cells, 1, n)
  IN  /\ toClient' = SubSeq(cells, n + 1, Len(cells))
      /\ IF n = want THEN Received(c, body)
         ELSE client' = [c EXCEPT !.body = body] /\ UNCHANGED toServer

ClientReadsHead ==
  LET c == [client EXCEPT !.head = <<Head(toClient)>>] IN
    /\ ~Gone /\ client.head = <<>> /\ toClient # <<>>
    /\ Head(toClient).n > 0
    /\ ReadBody(c, Tail(toClient))
    /\ UNCHANGED <<disk, serverVars>>

\* DATAEND has no body: recv of no bytes returns 0, and onRead closes.
ClientReadsEnd ==
  /\ ~Gone /\ client.head = <<>> /\ toClient # <<>>
  /\ Head(toClient).n = 0
  /\ client' = [client EXCEPT !.status = "end"]
  /\ toClient' = <<>>
  /\ UNCHANGED <<disk, serverVars, toServer>>

ClientReadsBody ==
  /\ ~Gone /\ client.head # <<>> /\ toClient # <<>>
  /\ ReadBody(client, toClient)
  /\ UNCHANGED <<disk, serverVars>>

ClientReadsEof ==
  /\ ~Gone /\ toClient = <<>> /\ task = "deleted"
  /\ client' = [client EXCEPT !.status = "eof"]
  /\ UNCHANGED <<disk, serverVars, toServer, toClient>>

ClientReads == ClientReadsHead \/ ClientReadsEnd \/ ClientReadsBody \/ ClientReadsEof

\* TcpClient::disConnect; what is on its way is lost.
ClientLeaves ==
  /\ ~Gone
  /\ client' = [client EXCEPT !.status = "left"]
  /\ toClient' = <<>>
  /\ UNCHANGED <<disk, serverVars, toServer>>

-----------------------------------------------------------------------------
\* Somebody shortens the file.
Truncate ==
  /\ \E n \in 0..(disk - 1) : disk' = n
  /\ UNCHANGED <<serverVars, toServer, toClient, client>>

Sending == SendSome \/ Sent \/ SendFails \/ Exit
Writing == WritePacket \/ WriteRest \/ WriteEnd
Reading == ReadHead \/ ReadGet \/ ReadNoFile \/ ReadStart \/ ReadEof

Server == Sending \/ Writing \/ Reading

Next == Server \/ WriteTimeout \/ ClientReads \/ ClientLeaves \/ Truncate

Spec == Init /\ [][Next]_vars

\* Both loops run; a reported event is handled even while others come.
FairSpec ==
  /\ Spec
  /\ WF_vars(Sending) /\ SF_vars(Writing) /\ SF_vars(Reading)
  /\ WF_vars(ClientReads)
-----------------------------------------------------------------------------
(* Type invariant. *)
TypeOK ==
  /\ disk \in NoFile..MaxLength
  /\ task \in {"none", "sending", "deleted"}
  /\ fileLen \in 0..(LenMod - 1) /\ hasRead \in 0..fileLen
  /\ buffer \in [bSendCmd : BOOLEAN, part : Seq(Cells), data : Seq(Cells)]
  /\ call \in {"none", "login", "write", "exit"}
  /\ out \in Seq(Cells)
  /\ writing \in {0, 1}
  /\ awaited \in {"none", "get", "start"}
  /\ toServer \in Seq({"get", "start"})
  /\ toClient \in Seq(Cells) /\ Len(toClient) <= Room
  /\ client \in [ slow : BOOLEAN, status : {"open", "end", "eof", "left"},
                  head : {<<>>} \cup {<<c>> : c \in Cells},
                  body : Seq(Cells), total : 0..MaxLength,
                  file : Seq(1..MaxLength) ]

\* The cells of mSendBuffer that no sendEx has handed to the socket.
Unsent == CASE task = "deleted" -> <<>>
            [] task # "deleted" /\ call = "none" -> buffer.part \o buffer.data
            [] OTHER -> out \o buffer.data

\* From the packet the client is receiving back to the server's buffer.
Pipeline == (client.head \o client.body) \o (toClient \o Unsent)

\* The pieces in s are those from first to last, each once and in order.
Carries(s, first, last) ==
  /\ \A i \in 1..Len(s) : s[i].kind = "piece" => s[i].n \in first..last
  /\ \A i, j \in 1..Len(s) :
       i < j /\ s[i].kind = "piece" /\ s[j].kind = "piece" => s[i].n < s[j].n
  /\ \A k \in first..last : \E i \in 1..Len(s) : s[i] = Piece(k)

(* Nothing is lost, doubled or reordered between the disk and the client:    *)
(* what was read from the file is, in order, in the client's file, in the    *)
(* packet it is receiving, in the socket or in mSendBuffer.                  *)
EveryPieceIsSomewhere ==
  ~Gone => /\ \A i \in 1..Len(client.file) : client.file[i] = i
           /\ Carries(Pipeline, Len(client.file) + 1, hasRead)

(* The transfer is a FileCopy: the client's file is always a prefix of the   *)
(* mFileLen pieces the server announced, also when the file is truncated     *)
(* under it, and DATAEND comes only when it has them all.                    *)
Copy == INSTANCE FileCopy WITH
  length <- IF task = "none" \/ disk = NoFile THEN -1 ELSE fileLen,
  copy   <- client.file,
  status <- CASE client.status = "open" -> "copying"
              [] client.status = "end"  -> "done"
              [] OTHER                  -> "broken"
CopiesTheFile == Copy!Spec

(* A transfer whose client stays and is not slow ends with DATAEND, or, when *)
(* there is no file, with the end of the connection; unless the file was     *)
(* truncated meanwhile: then packets without pieces go on for ever.          *)
TransferEnds ==
  []<>(\/ client.slow
       \/ client.status \in {"end", "left"}
       \/ client.status = "eof" /\ disk = NoFile
       \/ disk \in 0..(fileLen - 1))
=============================================================================
