----------------------------- MODULE IPCManager -----------------------------
(***************************************************************************)
(* kserver's end of the conversation with its bots.  Handlers of other     *)
(* threads queue messages for a peer; the thread of KServer::run hands the *)
(* front of the queue to the client of its peer, as long as the heartbeat  *)
(* daemon observes that peer.  One worker receives what the peers send,    *)
(* heartbeats among it.  A peer that is silent too long loses its          *)
(* observer: the daemon's thread connects its client again and a detached  *)
(* thread adds the observer later.  After TimeoutLimit of these the        *)
(* run thread destroys all clients and the worker and starts over.         *)
(*                                                                         *)
(* The daemon (kproto), the sockets (ZeroMQ) and the peers are external.   *)
(* The daemon's deadlines are left out: an observer may time out at any    *)
(* time.  Access to the queue and the maps from several threads at once,   *)
(* which is undefined, is taken one after the other; the use of a client   *)
(* that was destroyed goes well or ends the process.                       *)
(***************************************************************************)
EXTENDS Naturals, Sequences, SequencesExt, FiniteSets

CONSTANTS Peers,        \* ipc_peers
          Broker,       \* broker_peer, the one messages go to by default
          Other,        \* a platform whose name contains that of no peer
          Limit,        \* looks at the queue in one run, 10 in the code
          TimeoutLimit, \* timeouts that are put up with, 100 in the code
          MaxMessages,  \* bound on the messages queued
          MaxSleepers,  \* bound on the threads that wait to add an observer
          MaxTimeouts,  \* bound on the timeouts counted during a reconnect
          MaxRequests   \* bound on the requests to reconnect that wait

ASSUME PeerAssumption == Broker \in Peers /\ Other \notin Peers
ASSUME BoundAssumption ==
  /\ Limit \in Nat \ {0, 1} /\ TimeoutLimit \in Nat
  /\ MaxMessages \in Nat /\ MaxSleepers \in Nat \ {0}
  /\ MaxTimeouts \in Nat /\ TimeoutLimit <= MaxTimeouts /\ MaxRequests \in Nat \ {0}

VARIABLES
  m_queue,     \* messages that wait for the run thread
  queued,      \* how many were queued so far; a message is its number
  sent,        \* messages handed to a client, in order
  m_clients,   \* the client of a peer: none, live, or deleted and in the map
  observers,   \* m_daemon: peers that have an observer
  sleepers,    \* detached threads that will add an observer for a peer
  callback,    \* the daemon's thread in the callback of a timeout
  m_timeouts,
  m_requests,  \* Controller: requests to reconnect that wait
  worker,      \* the worker: where it is and the message it has
  active,      \* active_ of the worker
  loop,        \* the thread of KServer::run
  halted       \* the process ended

queueVars  == <<m_queue, queued, sent>>
daemonVars == <<observers, sleepers, callback, m_timeouts, m_requests>>
workerVars == <<worker, active>>
vars == <<queueVars, m_clients, daemonVars, workerVars, loop, halted>>
-----------------------------------------------------------------------------
NoPeer == "none"
IdleWorker   == [pc |-> "recv", peer |-> NoPeer, kind |-> "none", stale |-> FALSE]
IdleCallback == [peer |-> NoPeer, stale |-> FALSE]

\* The constructor has run start
Init ==
  /\ m_queue = <<>> /\ queued = 0 /\ sent = <<>>
  /\ m_clients = [p \in Peers |-> "live"]
  /\ observers = Peers
  /\ sleepers = [p \in Peers |-> 0]
  /\ callback = IdleCallback
  /\ m_timeouts = 0 /\ m_requests = 0
  /\ worker = IdleWorker /\ active = TRUE
  /\ loop = [pc |-> "idle", i |-> 0]
  /\ halted = FALSE

(***************************************************************************)
(* ReceiveEvent.  An event names a platform; a message that cannot be made *)
(* (an IPC type without a case) is not queued.                             *)
(***************************************************************************)
Events == [event : {"PLATFORM_POST_REQUESTED", "PLATFORM_EVENT",
                    "PLATFORM_EVENT of another type", "IPC_REQUEST",
                    "PLATFORM_INFO_REQUEST", "any other"},
           platform : Peers \cup {Other}]

find_peer(platform, get_default) ==
  IF platform \in Peers THEN {platform}
  ELSE IF get_default THEN {Broker} ELSE {}

\* The peer an event's message is queued for, if there is a message
PeerOf(e) ==
  CASE e.event = "PLATFORM_POST_REQUESTED" -> {Broker}
    [] e.event \in {"PLATFORM_EVENT", "IPC_REQUEST"} -> find_peer(e.platform, TRUE)
    [] e.event = "PLATFORM_INFO_REQUEST"   -> find_peer(e.platform, FALSE)
    [] OTHER                               -> {}

ReceiveEvent(e) ==
  /\ queued < MaxMessages
  /\ \E p \in PeerOf(e) : m_queue' = Append(m_queue, [peer |-> p, id |-> queued + 1])
  /\ queued' = queued + 1
  /\ UNCHANGED <<sent, m_clients, daemonVars, workerVars, loop, halted>>
-----------------------------------------------------------------------------
(***************************************************************************)
(* The heartbeat daemon and add_observer                                   *)
(***************************************************************************)
\* m_daemon.add_observer and validate
Observe(p) == observers' = observers \cup {p}

Clients == {p \in Peers : m_clients[p] # "none"}

\* The observer of p timed out and the callback looks for the client.  A peer
\* without one keeps no observer
Timeout(p) ==
  /\ callback.peer = NoPeer
  /\ p \in observers
  /\ sleepers[p] < MaxSleepers /\ m_requests < MaxRequests
  /\ m_timeouts < MaxTimeouts \/ Cardinality(Clients) > 1
  /\ observers' = observers \ {p}
  /\ callback' = IF m_clients[p] = "none" THEN callback
                 ELSE [peer |-> p, stale |-> m_clients[p] = "dead"]
  /\ UNCHANGED <<queueVars, m_clients, sleepers, m_timeouts, m_requests,
                 workerVars, loop, halted>>

\* Slip: the count is started over and nothing is requested
CountInVain ==
  /\ m_timeouts' = IF m_timeouts + 1 > TimeoutLimit THEN 0 ELSE m_timeouts + 1
  /\ UNCHANGED m_requests

\* ++m_timeouts, and the request to Controller::Request
CountTimeout ==
  IF m_timeouts + 1 > TimeoutLimit /\ Cardinality(Clients) > 1
  THEN m_timeouts' = 0 /\ m_requests' = m_requests + 1
  ELSE m_timeouts' = m_timeouts + 1 /\ UNCHANGED m_requests

\* Slip: nobody adds the observer again
ReconnectOnly ==
  /\ callback.peer # NoPeer
  /\ CountTimeout
  /\ callback' = IdleCallback
  /\ UNCHANGED <<queueVars, m_clients, observers, sleepers, workerVars,
                 loop, halted>>

\* The rest of the callback: reconnect of the client, the count, the thread
ReconnectClient ==
  /\ callback.peer # NoPeer
  /\ CountTimeout
  /\ sleepers' = [sleepers EXCEPT ![callback.peer] = @ + 1]
  /\ callback' = IdleCallback
  /\ UNCHANGED <<queueVars, m_clients, observers, workerVars, loop, halted>>

\* The thread wakes after five seconds
AddObserverAgain(p) ==
  /\ sleepers[p] > 0
  /\ sleepers' = [sleepers EXCEPT ![p] = @ - 1]
  /\ Observe(p)
  /\ UNCHANGED <<queueVars, m_clients, callback, m_timeouts, m_requests,
                 workerVars, loop, halted>>
-----------------------------------------------------------------------------
(***************************************************************************)
(* IPCWorker and botbroker_handler                                         *)
(***************************************************************************)
Kinds == {"keepalive", "other"}

\* recv up to the handler; a peer without one in the map is ignored
Recv(p, kind) ==
  /\ worker.pc = "recv"
  /\ m_clients[p] # "none"
  /\ worker' = [pc |-> "found", peer |-> p, kind |-> kind,
                stale |-> m_clients[p] = "dead"]
  /\ UNCHANGED <<queueVars, m_clients, daemonVars, active, loop,
                 halted>>

\* Slip: the worker goes on receiving
NextRecv == "recv"

\* The test at the end of the loop in run
NextPc == IF active THEN "recv" ELSE "ended"

\* on_heartbeat
OnHeartbeat ==
  /\ worker.kind = "keepalive"
  /\ Observe(worker.peer)
  /\ worker' = [IdleWorker EXCEPT !.pc = NextPc]

\* The status is answered, or the message goes through m_dispatch_table
Answer ==
  /\ worker.kind # "keepalive"
  /\ worker' = [IdleWorker EXCEPT !.pc = NextPc]
  /\ UNCHANGED observers

\* A handler behind the table throws, or a type has no entry in it: the
\* exception ends the worker's thread and stays in its future
Throw ==
  /\ worker.kind = "other"
  /\ worker' = [IdleWorker EXCEPT !.pc = "dead"]
  /\ UNCHANGED observers

ProcessMessage ==
  /\ worker.pc = "found"
  /\ OnHeartbeat \/ Answer \/ Throw
  /\ UNCHANGED <<queueVars, m_clients, sleepers, callback, m_timeouts,
                 m_requests, active, loop, halted>>

\* recv returned nothing for two seconds
RecvTimeout ==
  /\ worker.pc = "recv"
  /\ worker' = [worker EXCEPT !.pc = NextPc]
  /\ UNCHANGED <<queueVars, m_clients, daemonVars, active, loop, halted>>

\* A deleted client is used, and the process does not survive it
UseAfterDelete ==
  /\ \/ worker.pc = "found" /\ worker.stale
     \/ callback.peer # NoPeer /\ callback.stale
  /\ halted' = TRUE
  /\ UNCHANGED <<queueVars, m_clients, daemonVars, workerVars, loop>>
-----------------------------------------------------------------------------
(***************************************************************************)
(* KServer::run and IPCManager::run                                        *)
(***************************************************************************)
\* select ends, by its timeout or a control message; GetRequest
Wake ==
  /\ loop.pc = "idle"
  /\ IF m_requests > 0
     THEN loop' = [pc |-> "delete", i |-> 0] /\ m_requests' = m_requests - 1
     ELSE loop' = [pc |-> "look", i |-> 0] /\ UNCHANGED m_requests
  /\ UNCHANGED <<queueVars, m_clients, observers, sleepers, callback,
                 m_timeouts, workerVars, halted>>

MoreLooks == m_queue # <<>> /\ loop.i + 1 < Limit

SendFront ==
  /\ loop.pc = "look" /\ MoreLooks
  /\ Head(m_queue).peer \in observers
  /\ sent' = Append(sent, Head(m_queue))
  /\ m_queue' = Tail(m_queue)
  /\ loop' = [loop EXCEPT !.i = @ + 1]
  /\ UNCHANGED <<queued, m_clients, daemonVars, workerVars, halted>>

\* The peer has no observer: the message stays, and with it those behind it
LookInVain ==
  /\ loop.pc = "look" /\ MoreLooks
  /\ Head(m_queue).peer \notin observers
  /\ loop' = [loop EXCEPT !.i = @ + 1]
  /\ UNCHANGED <<queueVars, m_clients, daemonVars, workerVars, halted>>

EndRun ==
  /\ loop.pc = "look" /\ ~MoreLooks
  /\ loop' = [pc |-> "idle", i |-> 0]
  /\ UNCHANGED <<queueVars, m_clients, daemonVars, workerVars, halted>>
-----------------------------------------------------------------------------
(***************************************************************************)
(* reconnect and start                                                     *)
(***************************************************************************)
\* The destructor waits for the heartbeat thread and closes the socket
DeleteClient(p) ==
  /\ loop.pc = "delete"
  /\ m_clients[p] = "live" /\ \A q \in Peers : m_clients[q] # "dead"
  /\ m_clients' = [m_clients EXCEPT ![p] = "dead"]
  /\ worker' = [worker EXCEPT !.stale = @ \/ worker.peer = p]
  /\ callback' = [callback EXCEPT !.stale = @ \/ callback.peer = p]
  /\ UNCHANGED <<queueVars, observers, sleepers, m_timeouts, m_requests,
                 active, loop, halted>>

EraseClient(p) ==
  /\ loop.pc = "delete"
  /\ m_clients[p] = "dead"
  /\ m_clients' = [m_clients EXCEPT ![p] = "none"]
  /\ UNCHANGED <<queueVars, daemonVars, workerVars, loop, halted>>

\* m_workers.clear: the destructor of the worker
StopWorker ==
  /\ loop.pc = "delete" /\ Clients = {}
  /\ active' = FALSE
  /\ loop' = [loop EXCEPT !.pc = "join"]
  /\ UNCHANGED <<queueVars, m_clients, daemonVars, worker, halted>>

\* The future is ready; the proxy ends, the sockets are bound again, and start
\* makes a worker
StartWorker ==
  /\ loop.pc = "join" /\ worker.pc \in {"ended", "dead"}
  /\ worker' = IdleWorker
  /\ active' = TRUE
  /\ loop' = [loop EXCEPT !.pc = "start"]
  /\ UNCHANGED <<queueVars, m_clients, daemonVars, halted>>

\* emplace, the status check and add_observer
CreateClient(p) ==
  /\ loop.pc = "start" /\ m_clients[p] = "none"
  /\ m_clients' = [m_clients EXCEPT ![p] = "live"]
  /\ Observe(p)
  /\ UNCHANGED <<queueVars, sleepers, callback, m_timeouts, m_requests,
                 workerVars, loop, halted>>

EndStart ==
  /\ loop.pc = "start" /\ Clients = Peers
  /\ loop' = [pc |-> "idle", i |-> 0]
  /\ UNCHANGED <<queueVars, m_clients, daemonVars, workerVars, halted>>
-----------------------------------------------------------------------------
WorkerStep == ProcessMessage \/ RecvTimeout
LoopStep ==
  \/ Wake \/ SendFront \/ LookInVain \/ EndRun \/ StopWorker \/ StartWorker \/ EndStart
  \/ \E p \in Peers : DeleteClient(p) \/ EraseClient(p) \/ CreateClient(p)

Next ==
  /\ ~halted
  /\ \/ \E e \in Events : ReceiveEvent(e)
     \/ \E p \in Peers : Timeout(p) \/ AddObserverAgain(p)
     \/ \E p \in Peers, kind \in Kinds : Recv(p, kind)
     \/ ReconnectClient \/ WorkerStep \/ LoopStep \/ UseAfterDelete

Spec == Init /\ [][Next]_vars

(***************************************************************************)
(* Threads that can run do run.  Five seconds of waiting end.  recv waits  *)
(* for two seconds at most, whatever arrives.  Once the worker is dead no  *)
(* heartbeat is heard, so every observer times out.                        *)
(***************************************************************************)
Fairness ==
  /\ WF_vars(~halted /\ LoopStep)
  /\ WF_vars(~halted /\ ReconnectClient)
  /\ WF_vars(~halted /\ ProcessMessage)
  /\ SF_vars(~halted /\ ~active /\ RecvTimeout)
  /\ \A p \in Peers : /\ WF_vars(~halted /\ AddObserverAgain(p))
                      /\ SF_vars(~halted /\ worker.pc = "dead" /\ Timeout(p))

FairSpec == Spec /\ Fairness
-----------------------------------------------------------------------------
Entry == [peer : Peers, id : 1..MaxMessages]
WorkerState ==
  [pc : {"recv", "found", "ended", "dead"}, peer : Peers \cup {NoPeer},
   kind : Kinds \cup {"none"}, stale : BOOLEAN]

\* Every variable has its type; a worker and a callback hold a peer exactly
\* while they use its client; the count stays within its bound
TypeOK ==
  /\ m_queue \in Seq(Entry) /\ sent \in Seq(Entry)
  /\ queued \in 0..MaxMessages
  /\ m_clients \in [Peers -> {"none", "live", "dead"}]
  /\ observers \subseteq Peers
  /\ sleepers \in [Peers -> 0..MaxSleepers]
  /\ callback \in [peer : Peers \cup {NoPeer}, stale : BOOLEAN]
  /\ m_timeouts \in 0..MaxTimeouts /\ m_requests \in 0..MaxRequests
  /\ worker \in WorkerState /\ (worker.pc = "found" <=> worker.peer # NoPeer)
  /\ active \in BOOLEAN
  /\ loop \in [pc : {"idle", "look", "delete", "join", "start"}, i : 0..(Limit - 1)]
  /\ halted \in BOOLEAN

(***************************************************************************)
(* Once every peer keeps its observer, the queue drains: what waited       *)
(* behind a peer that was away, or was queued while everything was         *)
(* reconnected, is handed to its client (run gives up after nine looks,    *)
(* and the message stays).                                                 *)
(***************************************************************************)
QueueDrains ==
  <>[](observers = Peers) =>
    \A n \in 1..MaxMessages : (queued >= n) ~> (Len(sent) >= n \/ halted)

(***************************************************************************)
(* A peer without an observer gets one again: from the thread of its       *)
(* timeout, from a heartbeat, or from start when the callback found no     *)
(* client.                                                                 *)
(***************************************************************************)
ObserverReturns == \A p \in Peers : (p \notin observers) ~> (p \in observers \/ halted)

(***************************************************************************)
(* A worker that an exception ended is replaced: the heartbeats it does    *)
(* not hear add up to the timeouts that make run reconnect.                *)
(***************************************************************************)
DeadWorkerReplaced == (worker.pc = "dead") ~> (worker.pc # "dead" \/ halted)
=============================================================================
