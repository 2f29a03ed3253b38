--------------------------- MODULE FileTransfers ---------------------------
(***************************************************************************)
(* Files between kserver and its clients.  An upload is announced with the *)
(* FileUpload operation; from then on the bytes of every client go to the  *)
(* file handlers until the announced file is whole (m_file_pending is one  *)
(* flag for the server).  A schedule request names the uploads of its task *)
(* by their second of arrival.  A download is asked for by task, and then  *)
(* fetched file by file with Ack and Ready from one queue for all clients  *)
(* (protocol.mmd).                                                         *)
(*                                                                         *)
(* A worker decides where bytes go and then runs the handler: two steps,   *)
(* between which other workers and the controller's sweep may run.  A      *)
(* handler is one step.  Clients follow the protocol: they log in first,   *)
(* send a file after File Ready, and answer each file's metadata with one  *)
(* Ready.  A file is FileParts packets, everything else one packet.  One   *)
(* user logs in from each descriptor.                                      *)
(***************************************************************************)
EXTENDS Naturals, Sequences, SequencesExt, FiniteSets

CONSTANTS Fds,         \* descriptors the kernel hands out for clients
          NoFd,        \* -1, the descriptor of no client
          MaxConns,    \* bound on the connections accepted
          FileParts,   \* packets of an uploaded file
          MaxRequests, \* bound on the uploads, and on the downloads, asked for
          Workloads,   \* what clients are going to ask for in a run
          MaxReceived, \* bound on the files that arrive
          MaxTime      \* bound on the clock, in seconds

ASSUME FdAssumption == NoFd \notin Fds
ASSUME BoundAssumption ==
  /\ MaxConns \in Nat /\ MaxRequests \in Nat /\ MaxReceived \in Nat
  /\ MaxTime \in Nat \ {0}
  /\ FileParts \in Nat \ {0}
  /\ Workloads \subseteq [uploads : 0..MaxRequests, fetches : 0..MaxRequests]

VARIABLES
  accepted,           \* connections accepted so far
  open,               \* the descriptor refers to a connection
  client,             \* what the client at the other end is doing
  gone,               \* the client closed its end
  m_fds,              \* descriptors that are neither shut down nor revoked
  m_sessions,         \* whether a descriptor has a session, and it expired
  worker,             \* where the worker of a descriptor is, with its bytes
  m_file_pending_fd,  \* whose upload is pending; m_file_pending says it is set
  m_file_handlers,    \* packets of the file a descriptor is receiving
  m_message_handlers, \* packets of the message a descriptor is receiving
  m_received_files,   \* FileManager: uploads that are whole
  saved,              \* uploads written to a task's directory
  acks,               \* File Transfer Complete events
  m_outbound_files,   \* FileManager: downloads that wait
  requested, sent,    \* downloads asked for and made
  todo,               \* requests the clients are still going to make
  emptyFront,         \* front() of an empty deque was used
  now                 \* the second of the last arrival

netVars    == <<accepted, open, gone>>
endVars    == <<m_fds, m_sessions>>
uploadVars == <<m_file_pending_fd, m_file_handlers, m_message_handlers,
                m_received_files, saved, acks, now>>
downVars   == <<m_outbound_files, requested, sent, emptyFront>>
vars == <<netVars, client, endVars, worker, uploadVars, downVars, todo>>
-----------------------------------------------------------------------------
Times    == 1..MaxTime
Requests == 1..MaxRequests
Files    == 1..(2 * MaxRequests)

\* A packet of an upload, or a whole message
Part    == [kind : {"part"}, n : 1..FileParts]
Message == [kind : {"login", "ping", "stop", "upload", "ack", "ready"}]
           \cup [kind : {"fetch"}, fetch : Requests]
           \cup [kind : {"schedule"}, files : Seq(Times)]
IsPart(p) == p.kind = "part"

\* What a client at the other end knows.  up: where its upload is; sends: the
\* packets of it that are sent; times: uploads it was told of; want: files it
\* expects; owes: whether it is its turn to Ack; metas: metadata to answer
NewClient == [in |-> FALSE, up |-> "none", sends |-> 0, times |-> <<>>,
              want |-> 0, owes |-> FALSE, metas |-> 0]

\* m_sessions.has(fd): a session that was ended stays until the sweep
HasSession(f) == m_sessions[f] # "none"

\* A kiqoder::FileHandler: the packets it has been told to expect and how many
\* it has.  One that was just made is like one that starts over
NoHandler == [need |-> 0, have |-> 0]

Init ==
  /\ accepted = 0
  /\ open = [f \in Fds |-> FALSE]
  /\ client = [f \in Fds |-> NewClient]
  /\ gone = [f \in Fds |-> FALSE]
  /\ m_fds = [f \in Fds |-> FALSE]
  /\ m_sessions = [f \in Fds |-> "none"]
  /\ worker = [f \in Fds |-> [pc |-> "none"]]
  /\ m_file_pending_fd = NoFd
  /\ m_file_handlers = [f \in Fds |-> NoHandler]
  /\ m_message_handlers = [f \in Fds |-> NoHandler]
  /\ m_received_files = <<>> /\ saved = <<>> /\ acks = <<>>
  /\ m_outbound_files = <<>> /\ requested = <<>> /\ sent = <<>>
  /\ todo \in Workloads
  /\ emptyFront = FALSE
  /\ now = 1
-----------------------------------------------------------------------------
(***************************************************************************)
(* kiqoder (external): the first packet announces the size; the callback   *)
(* runs when as many packets are in, and the handler starts over.  What    *)
(* the middle of a file announces is arbitrary.                            *)
(***************************************************************************)
Announced(p) ==
  CASE ~IsPart(p)            -> {1}
    [] IsPart(p) /\ p.n = 1  -> {FileParts}
    [] OTHER                 -> 1..(FileParts + 1)

\* processPacket: the states of the handler after it, before the callback
ProcessPacket(handler, p) ==
  {[need |-> n, have |-> handler.have + 1] :
     n \in IF handler.have = 0 THEN Announced(p) ELSE {handler.need}}

Whole(handler)     == handler.have = handler.need

StartOver(handler) == IF Whole(handler) THEN NoHandler ELSE handler
-----------------------------------------------------------------------------
(***************************************************************************)
(* EndSession and OnClientExit.  OnClientExit deletes from                 *)
(* KServer::m_outbound_files, which nothing fills: the queue of            *)
(* FileManager keeps the files of a client that left.                      *)
(***************************************************************************)
SetFilePending(f) == m_file_pending_fd' = f
SetFileNotPending == m_file_pending_fd' = NoFd
HandlingFile(f)   == m_file_pending_fd = f

\* Slip: the pending upload of the session is not ended
EndSessionKeepsPending(f) ==
  /\ UNCHANGED m_file_pending_fd
  /\ m_fds' = [m_fds EXCEPT ![f] = FALSE]

\* shutdown(SHUT_RD) and revoke go together
EndSession(f) ==
  /\ IF HasSession(f) /\ HandlingFile(f) THEN SetFileNotPending
     ELSE UNCHANGED m_file_pending_fd
  /\ m_fds' = [m_fds EXCEPT ![f] = FALSE]

OnClientExit(f) ==
  /\ m_message_handlers' = [m_message_handlers EXCEPT ![f] = NoHandler]
  /\ m_file_handlers' = [m_file_handlers EXCEPT ![f] = NoHandler]
-----------------------------------------------------------------------------
(***************************************************************************)
(* Uploads                                                                 *)
(***************************************************************************)
\* WaitForFile: the reply is sent before a missing session is noticed
WaitForFile(f) ==
  /\ SetFilePending(f)
  /\ client' = [client EXCEPT ![f].up = IF @ = "asked" THEN "ready" ELSE @]
  /\ UNCHANGED <<endVars, m_file_handlers, m_received_files, saved, acks, now, downVars>>

\* Slip: the client is told and the file is not kept
AckWithoutAdd(f) ==
  /\ \E t \in now..MaxTime :
       /\ now' = t
       /\ acks' = Append(acks, [fd |-> f, time |-> t])
       /\ client' = [client EXCEPT ![f].up = "none", ![f].times = Append(@, t)]
  /\ SetFileNotPending
  /\ UNCHANGED m_received_files

\* FileManager: the uploads that are whole, the downloads that wait
Add(file)    == m_received_files' = Append(m_received_files, file)
OutboundNext == Head(m_outbound_files)
Dequeue      == m_outbound_files' = Tail(m_outbound_files)

\* OnFileHandled for the client that is awaited, in second t.  Without a
\* session the event is sent, SendMessage throws, and the upload stays pending
FileArrived(f) ==
  /\ \E t \in now..MaxTime :
       /\ now' = t
       /\ Add([fd |-> f, time |-> t])
       /\ acks' = Append(acks, [fd |-> f, time |-> t])
       /\ client' = [client EXCEPT ![f].up = "none", ![f].times = Append(@, t)]
  /\ IF HasSession(f) THEN SetFileNotPending ELSE UNCHANGED m_file_pending_fd

OnFileHandled(f) ==
  IF HandlingFile(f) THEN FileArrived(f)
  ELSE UNCHANGED <<m_received_files, acks, now, client, m_file_pending_fd>>

ReceiveFileData(f, p) ==
  /\ \E handler \in ProcessPacket(m_file_handlers[f], p) :
       /\ m_file_handlers' = [m_file_handlers EXCEPT ![f] = StartOver(handler)]
       /\ IF Whole(handler) THEN OnFileHandled(f)
          ELSE UNCHANGED <<m_received_files, acks, now, client, m_file_pending_fd>>
  /\ UNCHANGED <<endVars, m_message_handlers, saved, downVars>>

\* FindReceived: the first file of the descriptor with that second
FindReceived(f, t) ==
  {i \in DOMAIN m_received_files :
     /\ m_received_files[i].fd = f /\ m_received_files[i].time = t
     /\ \A j \in 1..(i - 1) : m_received_files[j].fd # f
                              \/ m_received_files[j].time # t}

SaveReceived(i) ==
  /\ saved' = Append(saved, m_received_files[i])
  /\ m_received_files' = RemoveAt(m_received_files, i)

\* Controller::operator(): on_file_update for each file of the task, until one
\* is found.  After it is saved payload.at(3) throws unless it is the only
\* file of the task; the files after it are not looked for
ScheduleRequest(f, times) ==
  /\ \/ \E k \in DOMAIN times :
          /\ \A j \in 1..(k - 1) : FindReceived(f, times[j]) = {}
          /\ \E i \in FindReceived(f, times[k]) : SaveReceived(i)
          /\ m_file_handlers' = IF Len(times) = 1
                                THEN [m_file_handlers EXCEPT ![f] = NoHandler]
                                ELSE m_file_handlers
     \/ /\ \A k \in DOMAIN times : FindReceived(f, times[k]) = {}
        /\ UNCHANGED <<saved, m_received_files, m_file_handlers>>
  /\ UNCHANGED <<client, endVars, m_file_pending_fd, acks, now, downVars>>
-----------------------------------------------------------------------------
(***************************************************************************)
(* Downloads                                                               *)
(***************************************************************************)
\* on_files_send: the files found for the tasks, and the list of them
EnqueueOutbound(f, files) ==
  /\ LET queued == [i \in DOMAIN files |-> [fd |-> f, file |-> files[i]]]
     IN  /\ m_outbound_files' = m_outbound_files \o queued
         /\ requested' = requested \o queued
  /\ client' = [client EXCEPT ![f].want = Len(files), ![f].owes = TRUE]
  /\ UNCHANGED <<endVars, m_file_pending_fd, m_file_handlers, m_received_files,
                 saved, acks, now, sent, emptyFront>>

\* on_files_send_ack: the metadata of the front of the queue, to its client
SendMeta(f) ==
  /\ IF m_outbound_files = <<>>
     THEN emptyFront' = TRUE /\ UNCHANGED client
     ELSE LET to == OutboundNext.fd
          IN  /\ client' = [client EXCEPT ![to].metas =
                              IF open[to] THEN @ + 1 ELSE @]
              /\ UNCHANGED emptyFront
  /\ UNCHANGED <<endVars, m_file_pending_fd, m_file_handlers, m_received_files,
                 saved, acks, now, m_outbound_files, requested, sent>>

\* Slip: the file goes to the client that sent Ready
SendToCaller(f) ==
  /\ IF m_outbound_files = <<>>
     THEN emptyFront' = TRUE /\ UNCHANGED <<client, m_outbound_files, sent>>
     ELSE /\ m_outbound_files' = Tail(m_outbound_files)
          /\ sent' = Append(sent, [Head(m_outbound_files) EXCEPT !.fd = f])
          /\ UNCHANGED <<client, emptyFront>>
  /\ UNCHANGED <<endVars, m_file_pending_fd, m_file_handlers, m_received_files,
                 saved, acks, now, requested>>

\* on_files_send_ready: the front of the queue goes to its client, which
\* sends another Ack if it expects another file
SendFile(f) ==
  /\ IF m_outbound_files = <<>>
     THEN emptyFront' = TRUE /\ UNCHANGED <<client, m_outbound_files, sent>>
     ELSE LET to   == OutboundNext.fd
              left == client[to].want - 1
          IN  /\ Dequeue
              /\ sent' = Append(sent, OutboundNext)
              /\ client' = IF open[to] /\ client[to].want > 0
                           THEN [client EXCEPT ![to].want = left,
                                               ![to].owes = left > 0]
                           ELSE client
              /\ UNCHANGED emptyFront
  /\ UNCHANGED <<endVars, m_file_pending_fd, m_file_handlers, m_received_files,
                 saved, acks, now, requested>>
-----------------------------------------------------------------------------
(***************************************************************************)
(* ReceiveMessage: a whole message is processed; what is no message, or    *)
(* several packets that never were one, fails to decode.  InitClient, the  *)
(* tokens and the other requests are in Connections.                       *)
(***************************************************************************)
Login(f) ==
  /\ m_sessions' = [m_sessions EXCEPT ![f] = "live"]
  /\ UNCHANGED <<client, m_fds, m_file_pending_fd, m_file_handlers,
                 m_received_files, saved, acks, now, downVars>>

SendPong(f) ==
  /\ m_sessions' = [m_sessions EXCEPT ![f] = IF HasSession(f) THEN "live" ELSE @]
  /\ UNCHANGED <<client, m_fds, m_file_pending_fd, m_file_handlers,
                 m_received_files, saved, acks, now, downVars>>

Stop(f) ==
  /\ EndSession(f)
  /\ UNCHANGED <<client, m_sessions, m_file_handlers, m_received_files, saved, acks, now, downVars>>

Undecodable == UNCHANGED <<client, endVars, m_file_pending_fd, m_file_handlers,
                           m_received_files, saved, acks, now, downVars>>

FilesOf(fetch) == {<<2 * fetch - 1>>, <<2 * fetch - 1, 2 * fetch>>}

ProcessMessage(f, m) ==
  \/ m.kind = "login"    /\ Login(f)
  \/ m.kind = "ping"     /\ SendPong(f)
  \/ m.kind = "stop"     /\ Stop(f)
  \/ m.kind = "upload"   /\ WaitForFile(f)
  \/ m.kind = "schedule" /\ ScheduleRequest(f, m.files)
  \/ m.kind = "fetch"    /\ \E files \in FilesOf(m.fetch) : EnqueueOutbound(f, files)
  \/ m.kind = "ack"      /\ SendMeta(f)
  \/ m.kind = "ready"    /\ SendFile(f)

ReceiveMessage(f, p) ==
  \E handler \in ProcessPacket(m_message_handlers[f], p) :
    /\ m_message_handlers' = [m_message_handlers EXCEPT ![f] = StartOver(handler)]
    /\ IF handler.need = 1 /\ ~IsPart(p)
       THEN ProcessMessage(f, p)
       ELSE Undecodable
-----------------------------------------------------------------------------
(***************************************************************************)
(* What a client that follows the protocol may send next, and what it has  *)
(* done once it is sent.                                                   *)
(***************************************************************************)
Offer(condition, packets) == IF condition THEN packets ELSE {}

MaySend(f) ==
  LET c == client[f] IN
  Offer(~c.in, {[kind |-> "login"]})
  \cup Offer(c.in, {[kind |-> "ping"], [kind |-> "stop"]})
  \cup Offer(c.in /\ c.up = "none" /\ todo.uploads > 0, {[kind |-> "upload"]})
  \cup Offer(c.up = "ready" /\ c.sends < FileParts,
             {[kind |-> "part", n |-> c.sends + 1]})
  \cup Offer(c.in /\ c.want = 0 /\ todo.fetches > 0,
             {[kind |-> "fetch", fetch |-> todo.fetches]})
  \cup Offer(c.owes, {[kind |-> "ack"]})
  \cup Offer(c.metas > 0, {[kind |-> "ready"]})
  \cup Offer(c.times # <<>>, {[kind |-> "schedule", files |-> c.times]})
  \cup {[kind |-> "schedule", files |-> <<c.times[i]>>] : i \in DOMAIN c.times}

AfterSending(c, p) ==
  CASE p.kind = "login"  -> [c EXCEPT !.in = TRUE]
    [] p.kind = "upload" -> [c EXCEPT !.up = "asked", !.sends = 0]
    [] p.kind = "part"   -> [c EXCEPT !.sends = @ + 1]
    [] p.kind = "ack"    -> [c EXCEPT !.owes = FALSE]
    [] p.kind = "ready"  -> [c EXCEPT !.metas = @ - 1]
    [] OTHER             -> c
-----------------------------------------------------------------------------
(***************************************************************************)
(* The worker of a descriptor (handleClientSocket) and its client          *)
(***************************************************************************)
Accept(f) ==
  /\ ~open[f]
  /\ accepted < MaxConns
  /\ accepted' = accepted + 1
  /\ open' = [open EXCEPT ![f] = TRUE]
  /\ m_fds' = [m_fds EXCEPT ![f] = TRUE]
  /\ worker' = [worker EXCEPT ![f] = [pc |-> "recv"]]
  /\ UNCHANGED <<client, gone, m_sessions, uploadVars, downVars, todo>>

Close(f) ==
  /\ open' = [open EXCEPT ![f] = FALSE]
  /\ gone' = [gone EXCEPT ![f] = FALSE]
  /\ client' = [client EXCEPT ![f] = NewClient]
  /\ worker' = [worker EXCEPT ![f] = [pc |-> "none"]]

\* The loop ends for a revoked descriptor, without onConnectionClose: after a
\* handler that revoked it, or when recv timed out
CloseRevoked(f) ==
  /\ worker[f].pc \in {"revoked", "recv"}
  /\ ~m_fds[f]
  /\ Close(f)
  /\ UNCHANGED <<accepted, endVars, uploadVars, downVars, todo>>

\* recv, and where onMessageReceived finds the bytes have to go
RecvData(f) ==
  /\ worker[f].pc = "recv"
  /\ ~gone[f]
  /\ Len(acks) < MaxReceived \/ m_file_pending_fd = NoFd
  /\ \E p \in MaySend(f) :
       /\ client' = [client EXCEPT ![f] = AfterSending(@, p)]
       /\ todo' = CASE p.kind = "upload" -> [todo EXCEPT !.uploads = @ - 1]
                    [] p.kind = "fetch"  -> [todo EXCEPT !.fetches = @ - 1]
                    [] OTHER             -> todo
       /\ worker' = [worker EXCEPT ![f] =
                       [pc |-> "handle", packet |-> p,
                        to |-> IF m_file_pending_fd # NoFd THEN "file"
                               ELSE "message"]]
  /\ UNCHANGED <<netVars, endVars, uploadVars, downVars>>

\* The handler; an exception ends it and nothing else
OnMessageReceived(f) ==
  /\ worker[f].pc = "handle"
  /\ IF worker[f].to = "file"
     THEN ReceiveFileData(f, worker[f].packet)
     ELSE ReceiveMessage(f, worker[f].packet)
  /\ worker' = [worker EXCEPT ![f] = [pc |-> IF m_fds'[f] THEN "recv" ELSE "revoked"]]
  /\ UNCHANGED <<netVars, todo>>

\* recv returned 0: onConnectionClose, and close
RecvClosed(f) ==
  /\ worker[f].pc = "recv"
  /\ gone[f] \/ ~m_fds[f]
  /\ EndSession(f)
  /\ OnClientExit(f)
  /\ Close(f)
  /\ UNCHANGED <<accepted, m_sessions, m_received_files, saved, acks, now, downVars,
                 todo>>

\* The client closes its end; only recv notices
Hangup(f) ==
  /\ worker[f].pc = "recv" /\ ~gone[f]
  /\ gone' = [gone EXCEPT ![f] = TRUE]
  /\ UNCHANGED <<accepted, open, client, endVars, worker, uploadVars, downVars,
                 todo>>
-----------------------------------------------------------------------------
\* Twenty seconds without a ping that reached the session
Expire(f) ==
  /\ m_sessions[f] = "live"
  /\ m_sessions' = [m_sessions EXCEPT ![f] = "expired"]
  /\ UNCHANGED <<netVars, client, m_fds, worker, uploadVars, downVars, todo>>

\* ValidateClients, for one session: EndSession and erase
Sweep(f) ==
  /\ m_sessions[f] = "expired"
  /\ EndSession(f)
  /\ m_sessions' = [m_sessions EXCEPT ![f] = "none"]
  /\ UNCHANGED <<netVars, client, worker, m_file_handlers, m_message_handlers,
                 m_received_files, saved, acks, now, downVars, todo>>

WorkerStep(f) ==
  CloseRevoked(f) \/ RecvData(f) \/ OnMessageReceived(f) \/ RecvClosed(f)

Next ==
  \E f \in Fds : Accept(f) \/ WorkerStep(f) \/ Hangup(f) \/ Expire(f) \/ Sweep(f)

Spec == Init /\ [][Next]_vars

(***************************************************************************)
(* The controller's thread sweeps for ever.  While an upload is pending no *)
(* ping reaches a session (SendPong is behind the same flag), so that a    *)
(* session does expire.                                                    *)
(***************************************************************************)
Fairness ==
  \A f \in Fds : /\ WF_vars(Sweep(f))
                 /\ WF_vars(m_file_pending_fd # NoFd /\ Expire(f))

FairSpec == Spec /\ Fairness
-----------------------------------------------------------------------------
Handler  == [need : 0..(FileParts + 1), have : 0..FileParts]
Upload   == [fd : Fds, time : Times]
Outbound == [fd : Fds, file : Files]
Client   == [in : BOOLEAN, up : {"none", "asked", "ready"}, sends : 0..FileParts, times : Seq(Times), want : 0..2,
             owes : BOOLEAN, metas : Nat]

\* Every variable has its type
TypeOK ==
  /\ accepted \in 0..MaxConns
  /\ open \in [Fds -> BOOLEAN]
  /\ client \in [Fds -> Client]
  /\ gone \in [Fds -> BOOLEAN]
  /\ m_fds \in [Fds -> BOOLEAN]
  /\ m_sessions \in [Fds -> {"none", "live", "expired"}]
  /\ worker \in [Fds -> [pc : {"none", "recv", "revoked"}]
                        \cup [pc : {"handle"}, packet : Part \cup Message,
                              to : {"file", "message"}]]
  /\ m_file_pending_fd \in Fds \cup {NoFd}
  /\ m_file_handlers \in [Fds -> Handler]
  /\ m_message_handlers \in [Fds -> Handler]
  /\ m_received_files \in Seq(Upload)
  /\ saved \in Seq(Upload)
  /\ acks \in Seq(Upload)
  /\ m_outbound_files \in Seq(Outbound)
  /\ requested \in Seq(Outbound)
  /\ sent \in Seq(Outbound)
  /\ todo \in [uploads : 0..MaxRequests, fetches : 0..MaxRequests]
  /\ emptyFront \in BOOLEAN
  /\ now \in Times

Count(seq, f, t) == Cardinality({i \in DOMAIN seq : seq[i].fd = f /\ seq[i].time = t})

(***************************************************************************)
(* A client that was sent File Transfer Complete with a second can name    *)
(* its file by it: there are as many files of its descriptor and that      *)
(* second, kept or already saved, as such events.  The events and the list *)
(* are written by the workers of all clients, and two files may arrive in  *)
(* one second (OnFileHandled, on_file_update).                             *)
(***************************************************************************)
AckedFileIsHeld ==
  \A f \in Fds, t \in Times :
    Count(acks, f, t) = Count(m_received_files, f, t) + Count(saved, f, t)

(***************************************************************************)
(* The files sent and those still queued are the files asked for, once     *)
(* each, to the descriptors that asked and in the order of the requests,   *)
(* whichever clients' Acks and Readys move the one queue; and as long as   *)
(* clients follow the protocol, the front of an empty queue is never used, *)
(* although a Ready may take another's file (EnqueueOutbound, Dequeue).    *)
(***************************************************************************)
SentAsRequested == sent \o m_outbound_files = requested /\ ~emptyFront

(***************************************************************************)
(* A client that announces a file and stalls does not keep the server from *)
(* hearing its other clients for ever: its session expires, and the sweep  *)
(* ends the upload (EndSession).                                           *)
(***************************************************************************)
StalledUploadEnds ==
  \A f \in Fds :
    (m_file_pending_fd = f /\ HasSession(f)) ~> (m_file_pending_fd # f)

(***************************************************************************)
(* protocol.mmd: the server answers an Ack with the metadata of a file, so *)
(* metadata only reaches a client that waits for it: one that expects      *)
(* files and has sent an Ack it has no answer to.                          *)
(***************************************************************************)
MetaAnswersAck ==
  [][\A f \in Fds : client'[f].metas > client[f].metas =>
       client[f].want > 0 /\ ~client[f].owes /\ client[f].metas = 0]_vars
=============================================================================
