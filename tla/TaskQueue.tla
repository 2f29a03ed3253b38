----------------------------- MODULE TaskQueue -----------------------------
(***************************************************************************)
(* The thread pool of src/task_queue.cpp: one mutex, one condition         *)
(* variable, a FIFO of jobs, and workers that run workerLoop.              *)
(*                                                                         *)
(* Threads: the workers; the listener, the only caller of pushToQueue; and *)
(* the owner, which initialises the pool before the listener runs and      *)
(* destroys it when no push is under way.                                  *)
(*                                                                         *)
(* A step that runs with the mutex held and reads only what the mutex      *)
(* protects is one action.  m_active is written without the mutex, so the  *)
(* evaluation of the wait predicate and the blocking that follows it are   *)
(* two actions, with the mutex held in between.                            *)
(***************************************************************************)
EXTENDS Naturals, Sequences, FiniteSets

CONSTANTS Workers,     \* the threads of m_thread_pool
          Free,        \* the value of lock when nobody holds the mutex
          MaxPushes,   \* bound on the jobs the listener pushes
          Word         \* 2^w for the width w of m_active_workers

ASSUME WorkersAssumption == IsFiniteSet(Workers) /\ Workers # {}
ASSUME FreeAssumption == Free \notin Workers
ASSUME MaxPushesAssumption == MaxPushes \in Nat
ASSUME WordAssumption == Word \in Nat \ {0}

VARIABLES
  m_task_queue,      \* the queued jobs, numbered as they were pushed
  accepting_tasks,
  m_active,
  m_active_workers,  \* updated without the mutex, and not atomic
  lock,              \* the worker that holds m_mutex_lock between two steps
  pool_condition,    \* the workers blocked in pool_condition.wait
  pc,                \* where each worker is in workerLoop
  fn,                \* the job a worker holds, 0 when it holds none
  reg,               \* the value a worker loaded to update m_active_workers
  owner,             \* where the owner is
  listener,          \* where the listener is
  pushed,            \* jobs pushed so far
  taken              \* jobs popped so far

vars == <<m_task_queue, accepting_tasks, m_active, m_active_workers, lock,
          pool_condition, pc, fn, reg, owner, listener, pushed, taken>>

workerVars == <<pc, fn, reg>>
queueVars  == <<m_task_queue, accepting_tasks, pushed, taken>>

Init ==
  /\ m_task_queue = <<>>
  /\ accepting_tasks \in BOOLEAN      \* the constructor leaves it unset
  /\ m_active = TRUE
  /\ m_active_workers = 0
  /\ lock = Free
  /\ pool_condition = {}
  /\ pc = [w \in Workers |-> "unborn"]
  /\ fn = [w \in Workers |-> 0]
  /\ reg = [w \in Workers |-> 0]
  /\ owner = "spawn"
  /\ listener = "idle"
  /\ pushed = 0
  /\ taken = 0

Goto(w, label) == pc' = [pc EXCEPT ![w] = label]
-----------------------------------------------------------------------------
(***************************************************************************)
(* The owner: initialize, deployWorkers, the destructor and joinThreads.   *)
(***************************************************************************)
SpawnWorker(w) ==
  /\ owner = "spawn"
  /\ pc[w] = "unborn"
  /\ Goto(w, "test")
  /\ owner' = IF \A v \in Workers \ {w} : pc[v] # "unborn"
              THEN "deploy" ELSE "spawn"
  /\ UNCHANGED <<queueVars, m_active, m_active_workers, lock, pool_condition,
                 fn, reg, listener>>

\* accepting_tasks.store(false) under the mutex
DeployWorkers ==
  /\ owner = "deploy"
  /\ lock = Free
  /\ accepting_tasks' = FALSE
  /\ owner' = "deployed"
  /\ UNCHANGED <<m_task_queue, m_active, m_active_workers, lock,
                 pool_condition, workerVars, listener, pushed, taken>>

Wake(S) ==
  /\ pool_condition' = pool_condition \ S
  /\ pc' = [w \in Workers |-> IF w \in S THEN "lock" ELSE pc[w]]

\* pool_condition.notify_all(), at the end of deployWorkers and at the start
\* of joinThreads
NotifyAll ==
  /\ owner \in {"deployed", "joinThreads"}
  /\ Wake(pool_condition)
  /\ owner' = IF owner = "deployed" THEN "ready" ELSE "join"
  /\ UNCHANGED <<queueVars, m_active, m_active_workers, lock, fn, reg,
                 listener>>

\* ~TaskQueue: m_active = false, without the mutex
Destroy ==
  /\ owner = "ready"
  /\ listener = "idle"
  /\ m_active' = FALSE
  /\ owner' = "joinThreads"
  /\ UNCHANGED <<queueVars, m_active_workers, lock, pool_condition,
                 workerVars, listener>>

\* t.join() returned for every thread of the pool
Joined ==
  /\ owner = "join"
  /\ \A w \in Workers : pc[w] = "done"
  /\ owner' = "destroyed"
  /\ UNCHANGED <<queueVars, m_active, m_active_workers, lock, pool_condition,
                 workerVars, listener>>
-----------------------------------------------------------------------------
(***************************************************************************)
(* The listener: pushToQueue.                                              *)
(***************************************************************************)
\* Slip: a stack where a queue is meant
PushToFront ==
  /\ owner = "ready"
  /\ listener = "idle"
  /\ pushed < MaxPushes
  /\ lock = Free
  /\ m_task_queue' = <<pushed + 1>> \o m_task_queue
  /\ pushed' = pushed + 1
  /\ listener' = "notify"
  /\ UNCHANGED <<accepting_tasks, m_active, m_active_workers, lock,
                 pool_condition, workerVars, owner, taken>>

PushToQueue ==
  /\ owner = "ready"
  /\ listener = "idle"
  /\ pushed < MaxPushes
  /\ lock = Free
  /\ m_task_queue' = Append(m_task_queue, pushed + 1)
  /\ pushed' = pushed + 1
  /\ listener' = "notify"
  /\ UNCHANGED <<accepting_tasks, m_active, m_active_workers, lock,
                 pool_condition, workerVars, owner, taken>>

\* Slip: the notification is forgotten
NotifyNobody ==
  /\ listener = "notify"
  /\ listener' = "idle"
  /\ UNCHANGED <<queueVars, m_active, m_active_workers, lock, pool_condition,
                 workerVars, owner>>

\* notify_one: some waiting worker wakes; with none waiting nothing happens
NotifyOne ==
  /\ listener = "notify"
  /\ IF pool_condition = {}
     THEN UNCHANGED <<pool_condition, pc>>
     ELSE \E w \in pool_condition : Wake({w})
  /\ listener' = "idle"
  /\ UNCHANGED <<queueVars, m_active, m_active_workers, lock, fn, reg, owner>>
-----------------------------------------------------------------------------
(***************************************************************************)
(* A worker: workerLoop.                                                   *)
(***************************************************************************)
\* while (m_active)
LoopTest(w) ==
  /\ pc[w] = "test"
  /\ Goto(w, IF m_active THEN "lock" ELSE "done")
  /\ UNCHANGED <<queueVars, m_active, m_active_workers, lock, pool_condition,
                 fn, reg, owner, listener>>

\* Slip: the predicate forgets the queue
ReadyWithoutQueue == ~accepting_tasks \/ ~m_active

\* The predicate of pool_condition.wait
Ready == ~accepting_tasks \/ m_task_queue # <<>> \/ ~m_active

\* The mutex is taken (again), the predicate is false: the worker will block,
\* and holds the mutex until it does
DecideToWait(w) ==
  /\ pc[w] = "lock"
  /\ lock = Free
  /\ ~Ready
  /\ lock' = w
  /\ Goto(w, "block")
  /\ UNCHANGED <<queueVars, m_active, m_active_workers, pool_condition, fn,
                 reg, owner, listener>>

\* The atomic unlock-and-block of pool_condition.wait
Block(w) ==
  /\ pc[w] = "block"
  /\ lock' = Free
  /\ pool_condition' = pool_condition \cup {w}
  /\ Goto(w, "waiting")
  /\ UNCHANGED <<queueVars, m_active, m_active_workers, fn, reg, owner,
                 listener>>

\* A condition variable may wake a waiter that nobody notified
SpuriousWakeup(w) ==
  /\ w \in pool_condition
  /\ Wake({w})
  /\ UNCHANGED <<queueVars, m_active, m_active_workers, lock, fn, reg, owner,
                 listener>>

\* if (!m_active) break;
Break(w) ==
  /\ pc[w] = "lock"
  /\ lock = Free
  /\ ~m_active
  /\ Goto(w, "done")
  /\ UNCHANGED <<queueVars, m_active, m_active_workers, lock, pool_condition,
                 fn, reg, owner, listener>>

\* Was not accepting tasks but queue is empty: switch and loop
SwitchToAccepting(w) ==
  /\ pc[w] = "lock"
  /\ lock = Free
  /\ m_active
  /\ ~accepting_tasks
  /\ m_task_queue = <<>>
  /\ accepting_tasks' = TRUE
  /\ Goto(w, "test")
  /\ UNCHANGED <<m_task_queue, m_active, m_active_workers, lock,
                 pool_condition, fn, reg, owner, listener, pushed, taken>>

\* fn = front(); pop(); accepting_tasks.store(true)
TakeWork(w) ==
  /\ pc[w] = "lock"
  /\ lock = Free
  /\ m_active
  /\ m_task_queue # <<>>
  /\ fn' = [fn EXCEPT ![w] = Head(m_task_queue)]
  /\ m_task_queue' = Tail(m_task_queue)
  /\ accepting_tasks' = TRUE
  /\ taken' = taken + 1
  /\ Goto(w, "inc")
  /\ UNCHANGED <<m_active, m_active_workers, lock, pool_condition, reg, owner,
                 listener, pushed>>

\* m_active_workers++ and m_active_workers--: a load, then a store
LoadCount(w) ==
  /\ pc[w] \in {"inc", "dec"}
  /\ reg' = [reg EXCEPT ![w] = m_active_workers]
  /\ Goto(w, IF pc[w] = "inc" THEN "incStore" ELSE "decStore")
  /\ UNCHANGED <<queueVars, m_active, m_active_workers, lock, pool_condition,
                 fn, owner, listener>>

StoreIncrement(w) ==
  /\ pc[w] = "incStore"
  /\ m_active_workers' = (reg[w] + 1) % Word
  /\ Goto(w, "run")
  /\ UNCHANGED <<queueVars, m_active, lock, pool_condition, fn, reg, owner,
                 listener>>

\* fn() returned
EndJob(w) ==
  /\ pc[w] = "run"
  /\ fn' = [fn EXCEPT ![w] = 0]
  /\ Goto(w, "dec")
  /\ UNCHANGED <<queueVars, m_active, m_active_workers, lock, pool_condition,
                 reg, owner, listener>>

\* The decrement of an unsigned value wraps
StoreDecrement(w) ==
  /\ pc[w] = "decStore"
  /\ m_active_workers' = (reg[w] + Word - 1) % Word
  /\ Goto(w, "test")
  /\ UNCHANGED <<queueVars, m_active, lock, pool_condition, fn, reg, owner,
                 listener>>
-----------------------------------------------------------------------------
\* What a worker does of its own accord, the job itself left aside
WorkerStep(w) ==
  \/ LoopTest(w)
  \/ DecideToWait(w)
  \/ Block(w)
  \/ Break(w)
  \/ SwitchToAccepting(w)
  \/ TakeWork(w)
  \/ LoadCount(w)
  \/ StoreIncrement(w)
  \/ StoreDecrement(w)

OwnerStep ==
  \/ \E w \in Workers : SpawnWorker(w)
  \/ DeployWorkers
  \/ NotifyAll
  \/ Joined

Next ==
  \/ OwnerStep
  \/ Destroy
  \/ PushToQueue
  \/ NotifyOne
  \/ \E w \in Workers : WorkerStep(w) \/ EndJob(w) \/ SpuriousWakeup(w)

Spec == Init /\ [][Next]_vars

(***************************************************************************)
(* The operating system runs every thread that can run.  Nothing makes the *)
(* listener push, the owner destroy, or a job end.                         *)
(***************************************************************************)
Fairness ==
  /\ WF_vars(OwnerStep)
  /\ WF_vars(NotifyOne)
  /\ \A w \in Workers : WF_vars(WorkerStep(w))

FairSpec == Spec /\ Fairness

\* The same with jobs that end: what a destructor that joins may hope for
FairJobsSpec == FairSpec /\ \A w \in Workers : WF_vars(EndJob(w))
-----------------------------------------------------------------------------
Labels == {"unborn", "test", "lock", "block", "waiting", "inc", "incStore",
           "run", "dec", "decStore", "done"}

\* A worker that is on its way to the queue
Seeking(w) == pc[w] \in {"test", "lock", "dec", "decStore"}
Holding(w) == pc[w] \in {"inc", "incStore", "run"}

(***************************************************************************)
(* Every variable has its type, and the pieces of state that describe one  *)
(* worker agree: exactly the waiting workers are in the condition's wait   *)
(* set, exactly the blocking one holds the mutex, and exactly the workers  *)
(* between TakeWork and EndJob hold a job (workerLoop, task_queue.cpp).    *)
(***************************************************************************)
TypeOK ==
  /\ m_task_queue \in Seq(Nat \ {0})
  /\ accepting_tasks \in BOOLEAN
  /\ m_active \in BOOLEAN
  /\ m_active_workers \in 0..(Word - 1)
  /\ lock \in Workers \cup {Free}
  /\ pool_condition = {w \in Workers : pc[w] = "waiting"}
  /\ pc \in [Workers -> Labels]
  /\ fn \in [Workers -> Nat]
  /\ reg \in [Workers -> 0..(Word - 1)]
  /\ owner \in {"spawn", "deploy", "deployed", "ready", "joinThreads", "join",
                "destroyed"}
  /\ listener \in {"idle", "notify"}
  /\ pushed \in Nat
  /\ taken \in Nat
  /\ \A w \in Workers : pc[w] = "block" <=> lock = w
  /\ \A w \in Workers : Holding(w) <=> fn[w] # 0

(***************************************************************************)
(* pushToQueue and the pop in workerLoop lose, repeat and reorder nothing: *)
(* the queue holds exactly the jobs pushed and not yet taken, in the order *)
(* they were pushed, and every job a worker holds was taken off it once.   *)
(***************************************************************************)
QueueInOrder ==
  /\ Len(m_task_queue) = pushed - taken
  /\ taken <= pushed
  /\ \A i \in 1..Len(m_task_queue) : m_task_queue[i] = taken + i
  /\ \A w \in Workers : fn[w] <= taken
  /\ \A v, w \in Workers : fn[v] = fn[w] /\ fn[v] # 0 => v = w

(***************************************************************************)
(* No worker sleeps in pool_condition.wait beside a job it could run: when *)
(* the listener is between two pushes, either nobody waits or there are at *)
(* least as many workers on their way to the queue as there are jobs in    *)
(* it.  A job serves one client for as long as the client stays, so a      *)
(* wakeup lost here would leave a client unserved for that long.           *)
(***************************************************************************)
NoIdleWorkerBesideWork ==
  \/ ~m_active
  \/ pool_condition = {}
  \/ Len(m_task_queue) <= Cardinality({w \in Workers : Seeking(w)})
                          + (IF listener = "notify" THEN 1 ELSE 0)

(***************************************************************************)
(* The pool implements what JobPool promises the listener: pushToQueue is  *)
(* Submit, the pop is Start, the end of fn() is Finish.                    *)
(***************************************************************************)
Pool == INSTANCE JobPool WITH submitted <- pushed, started <- taken,
                              holding <- fn
ImplementsJobPool == Pool!Spec

(***************************************************************************)
(* A pushed job is started, unless the pool is destroyed or every worker   *)
(* is occupied by a job that does not end (pushToQueue, workerLoop).       *)
(***************************************************************************)
PushedIsStarted ==
  \A j \in 1..MaxPushes :
    (pushed >= j) ~> \/ taken >= j
                     \/ ~m_active
                     \/ \A w \in Workers : Holding(w)

(***************************************************************************)
(* "Make sure all worker threads detach or join before destroying          *)
(* TaskQueue instance" (task_queue.cpp:17): once ~TaskQueue runs, the join *)
(* of every thread returns, given that the jobs end.                       *)
(***************************************************************************)
DestructorReturns == (owner = "joinThreads") ~> (owner = "destroyed")
=============================================================================
