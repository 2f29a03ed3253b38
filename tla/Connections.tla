---------------------------- MODULE Connections ----------------------------
(***************************************************************************)
(* Client connections of kserver: SocketListener::run accepts them, a      *)
(* worker of the pool serves each one in handleClientSocket, KServer's     *)
(* handlers open and end sessions (SessionMap), and the controller's       *)
(* thread sweeps expired sessions in ValidateClients.  What else   *)
(* the handlers do with a client's bytes, its uploads too, is left out.    *)
(*                                                                         *)
(* Connections are numbered as they are accepted; connection c is the job  *)
(* c of JobPool.  The kernel gives a connection any descriptor that is not *)
(* open, so descriptors are reused.  A handler runs in one step; the       *)
(* listener's push and registration, a worker's test of m_fds, recv and    *)
(* close, and the two halves of a sweep interleave with everything else.   *)
(***************************************************************************)
EXTENDS Naturals, FiniteSets

CONSTANTS Fds,       \* descriptors the kernel hands out for clients
          Users,     \* user names
          Workers,   \* threads of the pool
          MaxConns,  \* bound on the connections accepted
          NoFd,      \* -1, the descriptor of no client
          NoUser,    \* no entry for the key
          Freed      \* a pointer to a session that was erased

Conns == 1..MaxConns

ASSUME ConnsAssumption == MaxConns \in Nat
ASSUME SentinelAssumption ==
  /\ NoFd \notin Fds
  /\ NoUser \notin Users
  /\ Freed \notin Users \cup {NoUser}

VARIABLES
  submitted, started, holding,  \* the pool (JobPool)
  accepted,         \* connections accepted so far
  fdOf,             \* the descriptor a connection was accepted on
  sock,             \* the connection an open descriptor refers to, 0 if closed
  gone,             \* the client closed its end
  shut,             \* the server called shutdown(SHUT_RD)
  m_fds,            \* descriptors that are still to be handled
  listener,         \* where SocketListener::run is
  pc,               \* where each worker is in handleClientSocket
  m_sessions,       \* user name -> session
  m_session_ptrs,   \* descriptor -> the user whose session it points to
  sweep             \* the user whose session ValidateClients is ending

poolVars    == <<submitted, started, holding>>
kernelVars  == <<accepted, fdOf, sock, gone>>
sessionVars == <<m_sessions, m_session_ptrs>>
vars == <<poolVars, kernelVars, shut, m_fds, listener, pc, sessionVars, sweep>>

Pool == INSTANCE JobPool

\* The token a client presents: the one issued to a user, or another string
Tokens == Users \cup {NoUser}

\* A KSession.  conn is no field of it: the connection it was opened on, kept
\* for the properties.
NoSession == [fd |-> NoFd, status |-> "NONE", expired |-> FALSE,
              token |-> NoUser, conn |-> 0]
Session   == [fd : Fds, status : {"ACTIVE", "INACTIVE", "INVALID"},
              expired : BOOLEAN, token : Tokens, conn : Conns]
             \cup {NoSession}

Init ==
  /\ Pool!Init
  /\ accepted = 0
  /\ fdOf = [c \in Conns |-> NoFd]
  /\ sock = [f \in Fds |-> 0]
  /\ gone = [c \in Conns |-> FALSE]
  /\ shut = [c \in Conns |-> FALSE]
  /\ m_fds = [f \in Fds |-> FALSE]   \* no entry reads as false
  /\ listener = "accept"
  /\ pc = [w \in Workers |-> "idle"]
  /\ m_sessions = [u \in Users |-> NoSession]
  /\ m_session_ptrs = [f \in Fds |-> NoUser]
  /\ sweep = NoUser
-----------------------------------------------------------------------------
(***************************************************************************)
(* SocketListener::run                                                     *)
(***************************************************************************)
Accept(f) ==
  /\ listener = "accept"
  /\ accepted < MaxConns
  /\ sock[f] = 0
  /\ accepted' = accepted + 1
  /\ fdOf' = [fdOf EXCEPT ![accepted + 1] = f]
  /\ sock' = [sock EXCEPT ![f] = accepted + 1]
  /\ listener' = "push"
  /\ UNCHANGED <<poolVars, gone, shut, m_fds, pc, sessionVars, sweep>>

\* u_task_queue_ptr->pushToQueue
Push ==
  /\ listener = "push"
  /\ Pool!Submit
  /\ listener' = "register"
  /\ UNCHANGED <<kernelVars, shut, m_fds, pc, sessionVars, sweep>>

\* m_fds.insert_or_assign(client_socket_fd, true), after the push
Register ==
  /\ listener = "register"
  /\ m_fds' = [m_fds EXCEPT ![fdOf[accepted]] = TRUE]
  /\ listener' = "accept"
  /\ UNCHANGED <<poolVars, kernelVars, shut, pc, sessionVars, sweep>>
-----------------------------------------------------------------------------
(***************************************************************************)
(* SessionMap.  A pointer to an erased session stays behind as Freed; what *)
(* is read through it is arbitrary and what is written through it is lost. *)
(***************************************************************************)
Has(u)     == m_sessions[u] # NoSession
Active(s)  == ~s.expired /\ s.status = "ACTIVE"
HasPtr(f)  == m_session_ptrs[f] # NoUser

\* The pointers once the session of u is freed
FreePtrs(ptrs, u) == [f \in Fds |-> IF ptrs[f] = u THEN Freed ELSE ptrs[f]]

\* m_sessions.at(fd).status = status, on the sessions given
WithStatus(sessions, ptr, status) ==
  [u \in Users |-> IF u = ptr /\ sessions[u] # NoSession
                   THEN [sessions[u] EXCEPT !.status = status]
                   ELSE sessions[u]]

\* KSession::notify on the session a descriptor points to
Notify(f) ==
  m_sessions' = [u \in Users |->
                   IF u = m_session_ptrs[f] /\ Has(u)
                   THEN [m_sessions[u] EXCEPT !.status = "ACTIVE",
                                              !.expired = FALSE]
                   ELSE m_sessions[u]]
-----------------------------------------------------------------------------
(***************************************************************************)
(* EndSession: the status of the session, shutdown(SHUT_RD) of whatever    *)
(* the descriptor refers to, and revoke.                                   *)
(***************************************************************************)
Shutdown(f) == shut' = [c \in Conns |-> shut[c] \/ sock[f] = c]
Revoke(f)   == m_fds' = [m_fds EXCEPT ![f] = FALSE]

EndSession(f, status) ==
  /\ m_sessions' = WithStatus(m_sessions, m_session_ptrs[f], status)
  /\ Shutdown(f)
  /\ Revoke(f)
  /\ UNCHANGED m_session_ptrs

Nothing == UNCHANGED <<sessionVars, shut, m_fds>>

(***************************************************************************)
(* InitClient.  A name that is free, or whose session is no longer active, *)
(* gets a new session, and a token that does not verify ends it again; a   *)
(* name that is logged in is erased, and the reply to a descriptor without *)
(* a session throws before EndSession.                                     *)
(***************************************************************************)
StartSession(f, u, token) ==
  LET sessions == [m_sessions EXCEPT ![u] =
                     [fd |-> f, status |-> "ACTIVE", expired |-> FALSE,
                      token |-> token, conn |-> sock[f]]]
  IN  /\ ~Active(m_sessions[u])
      /\ m_session_ptrs' = [m_session_ptrs EXCEPT ![f] = u]
      /\ IF token = u   \* ValidateToken
         THEN /\ m_sessions' = sessions
              /\ UNCHANGED <<shut, m_fds>>
         ELSE /\ m_sessions' = WithStatus(sessions, u, "INVALID")
              /\ Shutdown(f)
              /\ Revoke(f)

RejectSession(f, u) ==
  /\ Active(m_sessions[u])
  /\ m_session_ptrs' = FreePtrs(m_session_ptrs, u)
  /\ LET sessions == [m_sessions EXCEPT ![u] = NoSession]
     IN  IF HasPtr(f)
         THEN /\ m_sessions' = WithStatus(sessions, m_session_ptrs[f], "INVALID")
              /\ Shutdown(f)
              /\ Revoke(f)
         ELSE /\ m_sessions' = sessions
              /\ UNCHANGED <<shut, m_fds>>

InitClient(f, u, token) == StartSession(f, u, token) \/ RejectSession(f, u)

\* SendPong: notify throws for a descriptor without a session
SendPong(f) ==
  /\ Notify(f)
  /\ UNCHANGED <<m_session_ptrs, shut, m_fds>>

(***************************************************************************)
(* m_sessions.has(fd) && m_sessions.at(fd).active() && !HasValidToken: the *)
(* values the test may have for a message that carries the token given.    *)
(***************************************************************************)
ActiveWithoutToken(f, token) ==
  CASE m_session_ptrs[f] = NoUser -> {FALSE}
    [] m_session_ptrs[f] = Freed  -> BOOLEAN
    [] OTHER -> LET session == m_sessions[m_session_ptrs[f]]
                IN  {Active(session) /\ token # session.token}

(***************************************************************************)
(* What one decoded message does (ReceiveMessage, OperationRequest): a     *)
(* ping; a message of an active session without its token; the start and   *)
(* stop operations; a plain message or another request, which change       *)
(* neither connections nor sessions; anything else ends the session.       *)
(***************************************************************************)
ProcessMessage(f, token) ==
  \/ SendPong(f)
  \/ /\ TRUE \in ActiveWithoutToken(f, token)
     /\ EndSession(f, "INACTIVE")
  \/ /\ FALSE \in ActiveWithoutToken(f, token)
     /\ \/ \E u \in Users : InitClient(f, u, token)
        \/ EndSession(f, "INACTIVE")
        \/ Nothing

\* Bytes that complete no message, or that a pending upload takes, change
\* neither connections nor sessions
ReceiveMessage(f) == Nothing \/ \E token \in Tokens : ProcessMessage(f, token)
-----------------------------------------------------------------------------
(***************************************************************************)
(* A worker: the job is handleClientSocket for one connection.             *)
(***************************************************************************)
ConnOf(w) == holding[w]
FdOf(w)   == fdOf[holding[w]]

Serve(w) ==
  /\ pc[w] = "idle"
  /\ Pool!Start(w)
  /\ pc' = [pc EXCEPT ![w] = "check"]
  /\ UNCHANGED <<kernelVars, shut, m_fds, listener, sessionVars, sweep>>

\* if (!m_fds[client_socket_fd]) break;
CheckRevoked(w) ==
  /\ pc[w] = "check"
  /\ pc' = [pc EXCEPT ![w] = IF m_fds[FdOf(w)] THEN "recv" ELSE "close"]
  /\ UNCHANGED <<poolVars, kernelVars, shut, m_fds, listener, sessionVars, sweep>>

\* recv returned bytes: onMessageReceived
RecvData(w) ==
  /\ pc[w] = "recv"
  /\ ~gone[ConnOf(w)]
  /\ ReceiveMessage(FdOf(w))
  /\ pc' = [pc EXCEPT ![w] = "check"]
  /\ UNCHANGED <<poolVars, kernelVars, listener, sweep>>

\* EAGAIN after SO_RCVTIMEO
RecvTimeout(w) ==
  /\ pc[w] = "recv"
  /\ ~gone[ConnOf(w)] /\ ~shut[ConnOf(w)]
  /\ pc' = [pc EXCEPT ![w] = "check"]
  /\ UNCHANGED <<poolVars, kernelVars, shut, m_fds, listener, sessionVars, sweep>>

\* Slip: the descriptor is closed here and once more at the end
RecvClosedCloses(w) ==
  /\ pc[w] = "recv"
  /\ gone[ConnOf(w)] \/ shut[ConnOf(w)]
  /\ EndSession(FdOf(w), "INACTIVE")
  /\ sock' = [sock EXCEPT ![FdOf(w)] = 0]
  /\ pc' = [pc EXCEPT ![w] = "close"]
  /\ UNCHANGED <<poolVars, accepted, fdOf, gone, listener, sweep>>

\* Slip: a closed connection is taken for a timeout
RecvClosedContinues(w) ==
  /\ pc[w] = "recv"
  /\ gone[ConnOf(w)] \/ shut[ConnOf(w)]
  /\ pc' = [pc EXCEPT ![w] = "check"]
  /\ UNCHANGED <<poolVars, kernelVars, shut, m_fds, listener, sessionVars, sweep>>

\* recv returned 0 or failed: onConnectionClose
RecvClosed(w) ==
  /\ pc[w] = "recv"
  /\ gone[ConnOf(w)] \/ shut[ConnOf(w)]
  /\ EndSession(FdOf(w), "INACTIVE")
  /\ pc' = [pc EXCEPT ![w] = "close"]
  /\ UNCHANGED <<poolVars, kernelVars, listener, sweep>>

\* Slip: the job ends without the close
EndWithoutClose(w) ==
  /\ pc[w] = "close"
  /\ Pool!Finish(w)
  /\ pc' = [pc EXCEPT ![w] = "idle"]
  /\ UNCHANGED <<kernelVars, shut, m_fds, listener, sessionVars, sweep>>

\* ::close(client_socket_fd), and the job ends
Close(w) ==
  /\ pc[w] = "close"
  /\ sock' = [sock EXCEPT ![FdOf(w)] = 0]
  /\ Pool!Finish(w)
  /\ pc' = [pc EXCEPT ![w] = "idle"]
  /\ UNCHANGED <<accepted, fdOf, gone, shut, m_fds, listener, sessionVars, sweep>>
-----------------------------------------------------------------------------
(***************************************************************************)
(* The controller's thread: ValidateClients, for one session.  EndSession  *)
(* gets a reference to session.fd, so revoke and erase use the descriptor  *)
(* the session has by then.                                                *)
(***************************************************************************)
SweepExpired(u) ==
  /\ sweep = NoUser
  /\ Has(u) /\ m_sessions[u].expired
  /\ LET f == m_sessions[u].fd
     IN  /\ m_sessions' = WithStatus(WithStatus(m_sessions, u, "INACTIVE"),
                                     m_session_ptrs[f], "INACTIVE")
         /\ Shutdown(f)
  /\ sweep' = u
  /\ UNCHANGED <<poolVars, kernelVars, m_fds, listener, pc, m_session_ptrs>>

\* Slip: the session is revoked and not erased
SweepWithoutErase ==
  /\ sweep # NoUser
  /\ IF Has(sweep) THEN Revoke(m_sessions[sweep].fd) ELSE UNCHANGED m_fds
  /\ sweep' = NoUser
  /\ UNCHANGED <<poolVars, kernelVars, shut, listener, pc, sessionVars>>

SweepErase ==
  /\ sweep # NoUser
  /\ LET f == m_sessions[sweep].fd
     IN  IF Has(sweep)
         THEN /\ Revoke(f)
              /\ m_session_ptrs' =
                   FreePtrs([m_session_ptrs EXCEPT ![f] = NoUser], sweep)
              /\ m_sessions' = [m_sessions EXCEPT ![sweep] = NoSession]
         ELSE UNCHANGED <<m_fds, sessionVars>>   \* the iterator is invalid
  /\ sweep' = NoUser
  /\ UNCHANGED <<poolVars, kernelVars, shut, listener, pc>>

\* Twenty seconds without a ping
Expire(u) ==
  /\ Has(u) /\ ~m_sessions[u].expired
  /\ m_sessions' = [m_sessions EXCEPT ![u].expired = TRUE]
  /\ UNCHANGED <<poolVars, kernelVars, shut, m_fds, listener, pc,
                 m_session_ptrs, sweep>>

\* The client closes its end
ClientLeaves(c) ==
  /\ c <= accepted
  /\ sock[fdOf[c]] = c
  /\ ~gone[c]
  /\ gone' = [gone EXCEPT ![c] = TRUE]
  /\ UNCHANGED <<poolVars, accepted, fdOf, sock, shut, m_fds, listener, pc,
                 sessionVars, sweep>>
-----------------------------------------------------------------------------
WorkerStep(w) ==
  \/ CheckRevoked(w)
  \/ RecvData(w)
  \/ RecvTimeout(w)
  \/ RecvClosed(w)
  \/ Close(w)

Next ==
  \/ \E f \in Fds : Accept(f)
  \/ Push
  \/ Register
  \/ \E w \in Workers : Serve(w) \/ WorkerStep(w)
  \/ \E u \in Users : SweepExpired(u) \/ Expire(u)
  \/ SweepErase
  \/ \E c \in Conns : ClientLeaves(c)

Spec == Init /\ [][Next]_vars

(***************************************************************************)
(* The threads run.  recv returns at least every ten seconds, and once a   *)
(* socket is shut down or the client is gone it eventually has no more     *)
(* buffered bytes to return.  The controller's loop sweeps again and       *)
(* again.                                                                  *)
(***************************************************************************)
Fairness ==
  /\ WF_vars(Push) /\ WF_vars(Register)
  /\ \A w \in Workers : /\ WF_vars(Serve(w))
                        /\ WF_vars(WorkerStep(w))
                        /\ SF_vars(RecvClosed(w))
  /\ \A u \in Users : WF_vars(SweepExpired(u))
  /\ WF_vars(SweepErase)

FairSpec == Spec /\ Fairness
-----------------------------------------------------------------------------
(***************************************************************************)
(* Every variable has its type, and a worker is idle exactly when it holds *)
(* no connection (handleClientSocket is the job).                          *)
(***************************************************************************)
TypeOK ==
  /\ submitted \in 0..MaxConns
  /\ started \in 0..MaxConns
  /\ holding \in [Workers -> 0..MaxConns]
  /\ accepted \in 0..MaxConns
  /\ fdOf \in [Conns -> Fds \cup {NoFd}]
  /\ sock \in [Fds -> 0..MaxConns]
  /\ gone \in [Conns -> BOOLEAN]
  /\ shut \in [Conns -> BOOLEAN]
  /\ m_fds \in [Fds -> BOOLEAN]
  /\ listener \in {"accept", "push", "register"}
  /\ pc \in [Workers -> {"idle", "check", "recv", "close"}]
  /\ m_sessions \in [Users -> Session]
  /\ m_session_ptrs \in [Fds -> Users \cup {NoUser, Freed}]
  /\ sweep \in Users \cup {NoUser}
  /\ \A w \in Workers : pc[w] = "idle" <=> holding[w] = 0

\* The listener queues the connections in the order it accepts them, one at a
\* time, and the pool starts them in that order
CountsInOrder ==
  /\ started <= submitted
  /\ accepted = IF listener = "push" THEN submitted + 1 ELSE submitted
  /\ listener = "register" => accepted # 0

(***************************************************************************)
(* A worker in handleClientSocket tests, reads and closes the descriptor   *)
(* of the connection it was started for, never one the kernel has since    *)
(* given to another connection: nobody else closes it (close, l. 161).     *)
(***************************************************************************)
WorkerOwnsDescriptor ==
  \A w \in Workers : holding[w] # 0 => sock[FdOf(w)] = holding[w]

(***************************************************************************)
(* No descriptor leaks: an open one belongs to a connection the listener   *)
(* is about to queue, that waits in the queue, or that a worker serves     *)
(* (run, l. 170-220, and the close at the end of handleClientSocket).      *)
(***************************************************************************)
NoDescriptorLeak ==
  \A f \in Fds : sock[f] # 0 => \/ sock[f] > started
                                \/ \E w \in Workers : holding[w] = sock[f]

\* What makes the two of them inductive: an open descriptor refers to the
\* connection accepted on it, one that no worker took yet is open, and no two
\* workers hold the same connection
DescriptorsConsistent ==
  /\ \A f \in Fds : sock[f] # 0 => sock[f] <= accepted /\ fdOf[sock[f]] = f
  /\ \A c \in Conns : started < c /\ c <= accepted =>
       fdOf[c] \in Fds /\ sock[fdOf[c]] = c
  /\ \A w \in Workers : holding[w] <= started
  /\ \A v, w \in Workers : holding[v] = holding[w] /\ holding[v] # 0 => v = w
  /\ \A w \in Workers : holding[w] # 0 => FdOf(w) \in Fds

(***************************************************************************)
(* A served connection that the client left or that EndSession shut down   *)
(* is closed, whatever the races on m_fds: the worker comes back.          *)
(***************************************************************************)
EndedIsClosed ==
  \A c \in Conns :
    (started >= c /\ (gone[c] \/ shut[c])) ~> (\A f \in Fds : sock[f] # c)

(***************************************************************************)
(* ValidateClients removes an expired session, unless it is renewed first. *)
(***************************************************************************)
ExpiredIsSwept == \A u \in Users : m_sessions[u].expired ~> ~m_sessions[u].expired

(***************************************************************************)
(* "{} will no longer be handled" (socket_listener.cpp:139): a connection  *)
(* is closed only when its client left or its session was ended, and a     *)
(* client that connects is served until then.                              *)
(***************************************************************************)
ClosedOnlyWhenEnded ==
  [][\A w \in Workers : Close(w) => gone[ConnOf(w)] \/ shut[ConnOf(w)]]_vars

(***************************************************************************)
(* "Session expired for {} on {}" (session.cpp:28): the sweep of a session *)
(* shuts down the connection that session was opened on and no other.      *)
(***************************************************************************)
SweepEndsOwnConnection ==
  [][\A u \in Users : SweepExpired(u) =>
       \A c \in Conns : shut'[c] # shut[c] => c = m_sessions[u].conn]_vars
=============================================================================
