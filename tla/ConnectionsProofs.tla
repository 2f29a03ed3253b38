------------------------- MODULE ConnectionsProofs -------------------------
(***************************************************************************)
(* Client connections for every number of clients, descriptors, users and  *)
(* workers: the types, and that descriptors are neither shared nor leaked  *)
(* however the kernel reuses them.                                         *)
(***************************************************************************)
EXTENDS Connections, TLAPS

USE ConnsAssumption, SentinelAssumption DEF Conns

\* The sessions that a handler leaves behind are sessions.
LEMMA WithStatusType ==
  ASSUME NEW sessions \in [Users -> Session], NEW ptr,
         NEW status \in {"ACTIVE", "INACTIVE", "INVALID"}
  PROVE  WithStatus(sessions, ptr, status) \in [Users -> Session]
<1> SUFFICES ASSUME NEW u \in Users, sessions[u] # NoSession
             PROVE  [sessions[u] EXCEPT !.status = status] \in Session
  BY DEF WithStatus
<1>1. sessions[u] \in [fd : Fds, status : {"ACTIVE", "INACTIVE", "INVALID"},
                       expired : BOOLEAN, token : Tokens, conn : Conns]
  BY DEF Session
<1>2. QED
  BY <1>1 DEF Session

TypesOf(sessions, ptrs, shuts, fds) ==
  /\ sessions \in [Users -> Session]
  /\ ptrs \in [Fds -> Users \cup {NoUser, Freed}]
  /\ shuts \in [Conns -> BOOLEAN]
  /\ fds \in [Fds -> BOOLEAN]

\* EndSession, the two outcomes of InitClient, and SendPong keep the types of
\* what they change, for a descriptor that is open.
LEMMA HandlerTypes ==
  ASSUME TypeOK, NEW f \in Fds, sock[f] # 0, ReceiveMessage(f)
  PROVE  TypesOf(m_sessions, m_session_ptrs, shut, m_fds)'
<1> USE DEF TypesOf
<1>0. TypesOf(m_sessions, m_session_ptrs, shut, m_fds)
  BY DEF TypeOK
<1>1. Shutdown(f) => shut' \in [Conns -> BOOLEAN]
  BY <1>0 DEF Shutdown
<1>2. Revoke(f) => m_fds' \in [Fds -> BOOLEAN]
  BY <1>0 DEF Revoke
<1>3. ASSUME NEW status \in {"ACTIVE", "INACTIVE", "INVALID"},
             EndSession(f, status)
      PROVE  TypesOf(m_sessions, m_session_ptrs, shut, m_fds)'
  <2>1. m_sessions' \in [Users -> Session]
    BY <1>0, <1>3, WithStatusType DEF EndSession
  <2>2. QED
    BY <1>0, <1>1, <1>2, <1>3, <2>1 DEF EndSession
<1>4. CASE Nothing
  BY <1>0, <1>4 DEF Nothing, sessionVars
<1>5. CASE SendPong(f)
  <2>1. ASSUME NEW u \in Users, m_sessions[u] # NoSession
        PROVE  [m_sessions[u] EXCEPT !.status = "ACTIVE", !.expired = FALSE]
                 \in Session
    <3>1. m_sessions[u] \in [fd : Fds,
                             status : {"ACTIVE", "INACTIVE", "INVALID"},
                             expired : BOOLEAN, token : Tokens, conn : Conns]
      BY <1>0, <2>1 DEF Session
    <3>2. QED
      BY <3>1 DEF Session
  <2>2. m_sessions' \in [Users -> Session]
    BY <1>0, <1>5, <2>1 DEF SendPong, Notify, Has
  <2>3. QED
    BY <1>0, <1>5, <2>2 DEF SendPong
<1>6. ASSUME NEW u \in Users, NEW token \in Tokens, StartSession(f, u, token)
      PROVE  TypesOf(m_sessions, m_session_ptrs, shut, m_fds)'
  <2> DEFINE new == [fd |-> f, status |-> "ACTIVE", expired |-> FALSE,
                     token |-> token, conn |-> sock[f]]
             sessions == [m_sessions EXCEPT ![u] = new]
  <2>1. sock[f] \in Conns
    BY DEF TypeOK
  <2>2. new \in Session
    BY <2>1 DEF Session
  <2>3. sessions \in [Users -> Session]
    BY <1>0, <2>2
  <2>4. WithStatus(sessions, u, "INVALID") \in [Users -> Session]
    BY <2>3, WithStatusType
  <2>5. m_session_ptrs' \in [Fds -> Users \cup {NoUser, Freed}]
    BY <1>0, <1>6 DEF StartSession
  <2>6. QED
    BY <1>0, <1>1, <1>2, <1>6, <2>3, <2>4, <2>5 DEF StartSession
<1>7. ASSUME NEW u \in Users, RejectSession(f, u)
      PROVE  TypesOf(m_sessions, m_session_ptrs, shut, m_fds)'
  <2> DEFINE sessions == [m_sessions EXCEPT ![u] = NoSession]
  <2>1. sessions \in [Users -> Session]
    BY <1>0 DEF Session
  <2>2. WithStatus(sessions, m_session_ptrs[f], "INVALID") \in [Users -> Session]
    BY <2>1, WithStatusType
  <2>3. m_session_ptrs' \in [Fds -> Users \cup {NoUser, Freed}]
    BY <1>0, <1>7 DEF RejectSession, FreePtrs
  <2>4. QED
    BY <1>0, <1>1, <1>2, <1>7, <2>1, <2>2, <2>3 DEF RejectSession
<1>8. QED
  BY <1>3, <1>4, <1>5, <1>6, <1>7
     DEF ReceiveMessage, ProcessMessage, InitClient

-----------------------------------------------------------------------------
\* The numbering of connections, who holds them and what the descriptors refer
\* to: the part of the state that ownership of descriptors is about.
Ownership ==
  /\ CountsInOrder
  /\ DescriptorsConsistent
  /\ WorkerOwnsDescriptor
  /\ NoDescriptorLeak

\* Only accepting, queueing, starting and closing a connection change that part.
LEMMA OwnershipUntouched ==
  ASSUME [Next]_vars
  PROVE  \/ \E f \in Fds : Accept(f)
         \/ Push
         \/ Register
         \/ \E w \in Workers : Serve(w) \/ Close(w)
         \/ UNCHANGED <<poolVars, accepted, fdOf, sock, listener>>
  BY DEF Next, WorkerStep, vars, kernelVars, poolVars, CheckRevoked, RecvData,
         RecvTimeout, RecvClosed, SweepExpired, SweepErase, Expire,
         ClientLeaves

\* Each step of listener and workers keeps the ownership of descriptors.
LEMMA OwnershipStep ==
  ASSUME TypeOK, Ownership, [Next]_vars
  PROVE  Ownership'
<1> USE DEF Ownership, CountsInOrder, DescriptorsConsistent,
            WorkerOwnsDescriptor, NoDescriptorLeak, FdOf
<1>0. /\ submitted \in Nat /\ started \in Nat /\ accepted \in 0..MaxConns
      /\ holding \in [Workers -> 0..MaxConns]
      /\ fdOf \in [Conns -> Fds \cup {NoFd}]
      /\ sock \in [Fds -> 0..MaxConns]
      /\ listener \in {"accept", "push", "register"}
  BY DEF TypeOK
<1>1. ASSUME NEW f \in Fds, Accept(f) PROVE Ownership'
  BY <1>0, <1>1 DEF Accept, poolVars
<1>2. CASE Push
  BY <1>0, <1>2 DEF Push, Pool!Submit, kernelVars
<1>3. CASE Register
  BY <1>0, <1>3 DEF Register, poolVars, kernelVars
<1>4. ASSUME NEW w \in Workers, Serve(w) PROVE Ownership'
  BY <1>0, <1>4 DEF Serve, Pool!Start, kernelVars
<1>5. ASSUME NEW w \in Workers, Close(w) PROVE Ownership'
  BY <1>0, <1>5 DEF Close, Pool!Finish
<1>6. CASE UNCHANGED <<poolVars, accepted, fdOf, sock, listener>>
  BY <1>6 DEF poolVars
<1>7. QED
  BY <1>1, <1>2, <1>3, <1>4, <1>5, <1>6, OwnershipUntouched

\* Each step keeps the types, given that a worker's descriptor is open.
LEMMA TypeStep ==
  ASSUME TypeOK, Ownership, [Next]_vars
  PROVE  TypeOK'
<1> USE DEF TypeOK, poolVars, kernelVars, sessionVars
<1>1. ASSUME NEW f \in Fds, Accept(f) PROVE TypeOK'
  BY <1>1 DEF Accept
<1>2. CASE Push
  BY <1>2 DEF Push, Pool!Submit, Ownership, CountsInOrder
<1>3. CASE Register
  BY <1>3 DEF Register
<1>4. ASSUME NEW w \in Workers, Serve(w) PROVE TypeOK'
  BY <1>4 DEF Serve, Pool!Start
<1>5. ASSUME NEW w \in Workers, CheckRevoked(w) PROVE TypeOK'
  BY <1>5 DEF CheckRevoked
<1>6. ASSUME NEW w \in Workers, pc[w] = "recv"
      PROVE  FdOf(w) \in Fds /\ sock[FdOf(w)] # 0
  BY <1>6 DEF Ownership, DescriptorsConsistent, WorkerOwnsDescriptor, FdOf
<1>7. ASSUME NEW w \in Workers, RecvData(w) PROVE TypeOK'
  <2>1. ReceiveMessage(FdOf(w)) /\ FdOf(w) \in Fds /\ sock[FdOf(w)] # 0
    BY <1>6, <1>7 DEF RecvData
  <2>2. TypesOf(m_sessions, m_session_ptrs, shut, m_fds)'
    BY <2>1, HandlerTypes
  <2>3. QED
    BY <1>7, <2>2 DEF RecvData, TypesOf
<1>8. ASSUME NEW w \in Workers, RecvTimeout(w) PROVE TypeOK'
  BY <1>8 DEF RecvTimeout
<1>9. ASSUME NEW w \in Workers, RecvClosed(w) PROVE TypeOK'
  <2>1. FdOf(w) \in Fds /\ sock[FdOf(w)] # 0
    BY <1>6, <1>9 DEF RecvClosed
  <2>2. m_sessions' \in [Users -> Session]
    BY <1>9, WithStatusType DEF RecvClosed, EndSession
  <2>3. shut' \in [Conns -> BOOLEAN] /\ m_fds' \in [Fds -> BOOLEAN]
    BY <1>9 DEF RecvClosed, EndSession, Shutdown, Revoke
  <2>4. QED
    BY <1>9, <2>2, <2>3 DEF RecvClosed, EndSession
<1>10. ASSUME NEW w \in Workers, Close(w) PROVE TypeOK'
  <2>1. 0 \in 0..MaxConns
    OBVIOUS
  <2>2. sock' \in [Fds -> 0..MaxConns] /\ holding' \in [Workers -> 0..MaxConns]
    BY <1>10, <2>1 DEF Close, Pool!Finish
  <2>3. \A v \in Workers : pc'[v] = "idle" <=> holding'[v] = 0
    BY <1>10 DEF Close, Pool!Finish
  <2>4. QED
    BY <1>10, <2>2, <2>3 DEF Close, Pool!Finish
<1>11. ASSUME NEW u \in Users, SweepExpired(u) PROVE TypeOK'
  <2>1. WithStatus(m_sessions, u, "INACTIVE") \in [Users -> Session]
    BY WithStatusType
  <2>2. m_sessions' \in [Users -> Session]
    BY <1>11, <2>1, WithStatusType DEF SweepExpired
  <2>3. shut' \in [Conns -> BOOLEAN]
    BY <1>11 DEF SweepExpired, Shutdown
  <2>4. QED
    BY <1>11, <2>2, <2>3 DEF SweepExpired
<1>12. CASE SweepErase
  <2>1. CASE Has(sweep)
    <3>1. sweep \in Users
      BY <1>12 DEF SweepErase
    <3>2. m_sessions[sweep].fd \in Fds
      BY <2>1, <3>1 DEF Has, Session
    <3>3. m_fds' \in [Fds -> BOOLEAN]
      BY <1>12, <2>1, <3>2 DEF SweepErase, Revoke
    <3>4. m_session_ptrs' \in [Fds -> Users \cup {NoUser, Freed}]
      BY <1>12, <2>1, <3>2 DEF SweepErase, FreePtrs
    <3>5. m_sessions' \in [Users -> Session]
      BY <1>12, <2>1 DEF SweepErase, Session
    <3>6. QED
      BY <1>12, <3>3, <3>4, <3>5 DEF SweepErase
  <2>2. CASE ~Has(sweep)
    BY <1>12, <2>2 DEF SweepErase
  <2>3. QED
    BY <2>1, <2>2
<1>13. ASSUME NEW u \in Users, Expire(u) PROVE TypeOK'
  <2>1. m_sessions[u] \in [fd : Fds, status : {"ACTIVE", "INACTIVE", "INVALID"},
                           expired : BOOLEAN, token : Tokens, conn : Conns]
    BY <1>13 DEF Expire, Has, Session
  <2>2. [m_sessions[u] EXCEPT !.expired = TRUE] \in Session
    BY <2>1 DEF Session
  <2>3. m_sessions' \in [Users -> Session]
    BY <1>13, <2>2 DEF Expire
  <2>4. QED
    BY <1>13, <2>3 DEF Expire
<1>14. ASSUME NEW c \in Conns, ClientLeaves(c) PROVE TypeOK'
  BY <1>14 DEF ClientLeaves
<1>15. CASE UNCHANGED vars
  BY <1>15 DEF vars
<1>16. QED
  BY <1>1, <1>2, <1>3, <1>4, <1>5, <1>7, <1>8, <1>9, <1>10, <1>11, <1>12,
     <1>13, <1>14, <1>15 DEF Next, WorkerStep
-----------------------------------------------------------------------------
\* The types, and the ownership of descriptors that makes them and the two
\* safety properties below inductive.
LEMMA InvariantCorrect == Spec => [](TypeOK /\ Ownership)
<1>1. Init => TypeOK /\ Ownership
  BY DEF Init, Pool!Init, TypeOK, Ownership, CountsInOrder, Session,
         DescriptorsConsistent, WorkerOwnsDescriptor, NoDescriptorLeak, FdOf
<1>2. TypeOK /\ Ownership /\ [Next]_vars => TypeOK' /\ Ownership'
  BY TypeStep, OwnershipStep
<1>3. QED
  BY <1>1, <1>2, PTL DEF Spec

\* Every variable of listener, workers, sessions and sweep keeps its type.
THEOREM TypeCorrect == Spec => []TypeOK
  BY InvariantCorrect, PTL

\* handleClientSocket never touches a descriptor the kernel has given to
\* another connection.
THEOREM WorkerOwnsDescriptorCorrect == Spec => []WorkerOwnsDescriptor
<1>1. Ownership => WorkerOwnsDescriptor
  BY DEF Ownership
<1>2. QED
  BY <1>1, InvariantCorrect, PTL

\* Every open descriptor will still be handled or is being handled: run and
\* handleClientSocket leak none, whichever way a connection ends.
THEOREM NoDescriptorLeakCorrect == Spec => []NoDescriptorLeak
<1>1. Ownership => NoDescriptorLeak
  BY DEF Ownership
<1>2. QED
  BY <1>1, InvariantCorrect, PTL
=============================================================================
