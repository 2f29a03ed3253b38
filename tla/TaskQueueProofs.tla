-------------------------- MODULE TaskQueueProofs --------------------------
(***************************************************************************)
(* The thread pool for every number of workers and of pushes: its types,   *)
(* the order and the uniqueness of the jobs it hands out, that no worker   *)
(* sleeps beside work it could do, and that it implements JobPool.         *)
(***************************************************************************)
EXTENDS TaskQueue, FiniteSetTheorems, SequenceTheorems, TLAPS

USE WorkersAssumption, FreeAssumption, MaxPushesAssumption, WordAssumption

\* The width of m_active_workers: what is stored into it fits.
LEMMA StoredFits == \A a \in Nat : a % Word \in 0..(Word - 1)
  BY SMT

\* Every variable of the pool keeps its type, and the mutex, the wait set and
\* the held jobs agree with where each worker is in workerLoop.
THEOREM TypeCorrect == Spec => []TypeOK
<1>1. Init => TypeOK
  BY DEF Init, TypeOK, Labels, Holding
<1>2. TypeOK /\ [Next]_vars => TypeOK'
  <2> SUFFICES ASSUME TypeOK, [Next]_vars
               PROVE  TypeOK'
    OBVIOUS
  <2> USE DEF TypeOK, Labels, Holding, Goto, queueVars, workerVars
  <2>1. ASSUME NEW w \in Workers, SpawnWorker(w) PROVE TypeOK'
    BY <2>1 DEF SpawnWorker
  <2>2. CASE DeployWorkers
    BY <2>2 DEF DeployWorkers
  <2>3. CASE NotifyAll
    BY <2>3 DEF NotifyAll, Wake
  <2>4. CASE Joined
    BY <2>4 DEF Joined
  <2>5. CASE Destroy
    BY <2>5 DEF Destroy
  <2>6. CASE PushToQueue
    BY <2>6 DEF PushToQueue
  <2>7. CASE NotifyOne
    <3>1. CASE pool_condition = {}
      BY <2>7, <3>1 DEF NotifyOne
    <3>2. ASSUME NEW w \in pool_condition, Wake({w}) PROVE TypeOK'
      BY <2>7, <3>2 DEF NotifyOne, Wake
    <3>3. QED
      BY <2>7, <3>1, <3>2 DEF NotifyOne
  <2>8. ASSUME NEW w \in Workers, LoopTest(w) PROVE TypeOK'
    BY <2>8 DEF LoopTest
  <2>9. ASSUME NEW w \in Workers, DecideToWait(w) PROVE TypeOK'
    BY <2>9 DEF DecideToWait
  <2>10. ASSUME NEW w \in Workers, Block(w) PROVE TypeOK'
    BY <2>10 DEF Block
  <2>11. ASSUME NEW w \in Workers, Break(w) PROVE TypeOK'
    BY <2>11 DEF Break
  <2>12. ASSUME NEW w \in Workers, SwitchToAccepting(w) PROVE TypeOK'
    BY <2>12 DEF SwitchToAccepting
  <2>13. ASSUME NEW w \in Workers, TakeWork(w) PROVE TypeOK'
    BY <2>13 DEF TakeWork
  <2>14. ASSUME NEW w \in Workers, LoadCount(w) PROVE TypeOK'
    BY <2>14 DEF LoadCount
  <2>15. ASSUME NEW w \in Workers, StoreIncrement(w) PROVE TypeOK'
    <3>1. reg[w] + 1 \in Nat
      OBVIOUS
    <3>2. m_active_workers' \in 0..(Word - 1)
      BY <2>15, <3>1, StoredFits DEF StoreIncrement
    <3>3. QED
      BY <2>15, <3>2 DEF StoreIncrement
  <2>16. ASSUME NEW w \in Workers, StoreDecrement(w) PROVE TypeOK'
    <3>1. reg[w] + Word - 1 \in Nat
      OBVIOUS
    <3>2. m_active_workers' \in 0..(Word - 1)
      BY <2>16, <3>1, StoredFits DEF StoreDecrement
    <3>3. QED
      BY <2>16, <3>2 DEF StoreDecrement
  <2>17. ASSUME NEW w \in Workers, EndJob(w) PROVE TypeOK'
    BY <2>17 DEF EndJob
  <2>18. ASSUME NEW w \in Workers, SpuriousWakeup(w) PROVE TypeOK'
    BY <2>18 DEF SpuriousWakeup, Wake
  <2>19. CASE UNCHANGED vars
    BY <2>19 DEF vars
  <2>20. QED
    BY <2>1, <2>2, <2>3, <2>4, <2>5, <2>6, <2>7, <2>8, <2>9, <2>10, <2>11,
       <2>12, <2>13, <2>14, <2>15, <2>16, <2>17, <2>18, <2>19
       DEF Next, OwnerStep, WorkerStep
<1>3. QED
  BY <1>1, <1>2, PTL DEF Spec

-----------------------------------------------------------------------------
\* What the steps that touch neither the queue nor the held jobs leave alone.
LEMMA QueueUntouched ==
  ASSUME [Next]_vars
  PROVE  \/ PushToQueue
         \/ \E w \in Workers : TakeWork(w) \/ EndJob(w)
         \/ UNCHANGED <<m_task_queue, fn, pushed, taken>>
  BY DEF Next, OwnerStep, WorkerStep, vars, queueVars, workerVars, SpawnWorker,
         DeployWorkers, NotifyAll, Joined, Destroy, NotifyOne, LoopTest,
         DecideToWait, Block, Break, SwitchToAccepting, LoadCount,
         StoreIncrement, StoreDecrement, SpuriousWakeup

\* pushToQueue and the pop in workerLoop keep the queue equal to the jobs
\* pushed and not yet taken, in order, and hand each job to one worker.
THEOREM QueueOrderCorrect == Spec => []QueueInOrder
<1>1. Init => QueueInOrder
  BY DEF Init, QueueInOrder
<1>2. TypeOK /\ QueueInOrder /\ [Next]_vars => QueueInOrder'
  <2> SUFFICES ASSUME TypeOK, QueueInOrder, [Next]_vars
               PROVE  QueueInOrder'
    OBVIOUS
  <2> USE DEF QueueInOrder
  <2>1. CASE PushToQueue
    <3>1. UNCHANGED <<fn, taken>>
      BY <2>1 DEF PushToQueue, workerVars
    <3>2. /\ Len(m_task_queue') = Len(m_task_queue) + 1
          /\ \A i \in 1..Len(m_task_queue) : m_task_queue'[i] = m_task_queue[i]
          /\ m_task_queue'[Len(m_task_queue) + 1] = pushed + 1
      BY <2>1, AppendProperties DEF PushToQueue, TypeOK
    <3>3. pushed' = pushed + 1
      BY <2>1 DEF PushToQueue
    <3>4. Len(m_task_queue) \in Nat /\ pushed \in Nat /\ taken \in Nat
          /\ fn \in [Workers -> Nat]
      BY DEF TypeOK
    <3>5. QED
      BY <3>1, <3>2, <3>3, <3>4
  <2>2. ASSUME NEW w \in Workers, TakeWork(w) PROVE QueueInOrder'
    <3>1. /\ Len(m_task_queue') = Len(m_task_queue) - 1
          /\ Len(m_task_queue) >= 1
          /\ \A i \in 1..Len(m_task_queue') :
               m_task_queue'[i] = m_task_queue[i + 1]
      BY <2>2, HeadTailProperties DEF TakeWork, TypeOK
    <3>2. /\ fn' = [fn EXCEPT ![w] = taken + 1]
          /\ taken' = taken + 1
          /\ pushed' = pushed
      <4>1. Head(m_task_queue) = m_task_queue[1]
        BY <2>2 DEF TakeWork, TypeOK
      <4>2. m_task_queue[1] = taken + 1
        BY <3>1 DEF TypeOK
      <4>3. QED
        BY <2>2, <4>1, <4>2 DEF TakeWork
    <3>3. Len(m_task_queue) \in Nat /\ pushed \in Nat /\ taken \in Nat
          /\ fn \in [Workers -> Nat]
      BY DEF TypeOK
    <3>4. QED
      BY <3>1, <3>2, <3>3
  <2>3. ASSUME NEW w \in Workers, EndJob(w) PROVE QueueInOrder'
    BY <2>3 DEF EndJob, queueVars, TypeOK
  <2>4. CASE UNCHANGED <<m_task_queue, fn, pushed, taken>>
    BY <2>4
  <2>5. QED
    BY <2>1, <2>2, <2>3, <2>4, QueueUntouched
<1>3. QED
  BY <1>1, <1>2, TypeCorrect, PTL DEF Spec

-----------------------------------------------------------------------------
\* The pool implements JobPool: pushToQueue submits, the pop in workerLoop
\* starts the oldest job on a free worker, the end of fn() finishes it, and
\* every other step of owner, listener and workers is invisible.
THEOREM PoolRefinement == Spec => ImplementsJobPool
<1>1. Init => Pool!Init
  BY DEF Init, Pool!Init
<1>2. TypeOK /\ QueueInOrder /\ [Next]_vars => [Pool!Next]_Pool!poolVars
  <2> SUFFICES ASSUME TypeOK, QueueInOrder, [Next]_vars
               PROVE  [Pool!Next]_Pool!poolVars
    OBVIOUS
  <2>1. CASE PushToQueue
    BY <2>1 DEF PushToQueue, workerVars, Pool!Next, Pool!Submit
  <2>2. ASSUME NEW w \in Workers, TakeWork(w) PROVE Pool!Start(w)
    <3>1. fn[w] = 0
      BY <2>2 DEF TakeWork, TypeOK, Holding
    <3>2. Len(m_task_queue) \in Nat /\ Len(m_task_queue) >= 1
      BY <2>2 DEF TakeWork, TypeOK
    <3>3. Head(m_task_queue) = m_task_queue[1]
      BY <2>2 DEF TakeWork, TypeOK
    <3>4. m_task_queue[1] = taken + 1 /\ taken < pushed
      BY <3>2 DEF QueueInOrder, TypeOK
    <3>5. QED
      BY <2>2, <3>1, <3>3, <3>4 DEF TakeWork, Pool!Start
  <2>3. ASSUME NEW w \in Workers, EndJob(w) PROVE Pool!Finish(w)
    BY <2>3 DEF EndJob, TypeOK, Holding, queueVars, Pool!Finish
  <2>4. CASE UNCHANGED <<m_task_queue, fn, pushed, taken>>
    BY <2>4 DEF Pool!poolVars
  <2>5. QED
    BY <2>1, <2>2, <2>3, <2>4, QueueUntouched DEF Pool!Next
<1>3. QED
  BY <1>1, <1>2, TypeCorrect, QueueOrderCorrect, PTL
     DEF Spec, ImplementsJobPool, Pool!Spec
-----------------------------------------------------------------------------
\* Adding a worker to a set of workers, or taking one away, changes its size
\* by one.
LEMMA WorkerSets ==
  ASSUME NEW S \in SUBSET Workers
  PROVE  /\ Cardinality(S) \in Nat
         /\ \A w \in Workers \ S : Cardinality(S \cup {w}) = Cardinality(S) + 1
         /\ \A w \in S : Cardinality(S \ {w}) = Cardinality(S) - 1
  BY FS_Subset, FS_CardinalityType, FS_AddElement, FS_RemoveElement

Seekers == {w \in Workers : Seeking(w)}

\* While a worker that decided to wait holds the mutex, the queue is empty.
BlockingOnEmptyQueue == lock # Free => m_task_queue = <<>>

\* A worker decides to wait only under the mutex and only when the queue is
\* empty, and a push needs that mutex.
LEMMA BlockingOnEmptyQueueCorrect == Spec => []BlockingOnEmptyQueue
<1>1. Init => BlockingOnEmptyQueue
  BY DEF Init, BlockingOnEmptyQueue
<1>2. TypeOK /\ BlockingOnEmptyQueue /\ [Next]_vars => BlockingOnEmptyQueue'
  BY DEF TypeOK, BlockingOnEmptyQueue, Next, OwnerStep, WorkerStep, vars,
         queueVars, workerVars, SpawnWorker, DeployWorkers, NotifyAll, Joined,
         Destroy, NotifyOne, LoopTest, DecideToWait, Block, Break, Ready,
         SwitchToAccepting, TakeWork, LoadCount, StoreIncrement,
         StoreDecrement, EndJob, SpuriousWakeup, PushToQueue
<1>3. QED
  BY <1>1, <1>2, TypeCorrect, PTL DEF Spec

\* workerLoop and pushToQueue: while the pool is active, no worker stays in
\* pool_condition.wait beside more queued jobs than there are workers on
\* their way to the queue and notifications on their way to a waiter.
THEOREM NoIdleWorkerCorrect == Spec => []NoIdleWorkerBesideWork
<1> DEFINE Inv == TypeOK /\ BlockingOnEmptyQueue /\ NoIdleWorkerBesideWork
           Due == IF listener = "notify" THEN 1 ELSE 0
<1>1. Init => NoIdleWorkerBesideWork
  BY DEF Init, NoIdleWorkerBesideWork
<1>2. Inv /\ TypeOK' /\ [Next]_vars => NoIdleWorkerBesideWork'
  <2> SUFFICES ASSUME Inv, TypeOK', [Next]_vars,
                      m_active', pool_condition' # {}
               PROVE  Len(m_task_queue') <= Cardinality(Seekers') + Due'
    BY DEF NoIdleWorkerBesideWork, Seekers
  <2>1. m_active
    BY DEF Next, OwnerStep, WorkerStep, vars, SpawnWorker, DeployWorkers,
           NotifyAll, Joined, Destroy, NotifyOne, LoopTest, DecideToWait, Block,
           Break, SwitchToAccepting, TakeWork, LoadCount, StoreIncrement,
           StoreDecrement, EndJob, SpuriousWakeup, PushToQueue
  <2>2. /\ Len(m_task_queue) \in Nat
        /\ Len(m_task_queue') \in Nat
        /\ Cardinality(Seekers) \in Nat
        /\ Cardinality(Seekers') \in Nat
        /\ Due \in 0..1
        /\ Due' \in 0..1
    <3>1. Seekers \in SUBSET Workers /\ Seekers' \in SUBSET Workers
      BY DEF Seekers
    <3>2. Cardinality(Seekers) \in Nat /\ Cardinality(Seekers') \in Nat
      BY <3>1, WorkerSets
    <3>3. m_task_queue \in Seq(Nat \ {0}) /\ m_task_queue' \in Seq(Nat \ {0})
      BY DEF TypeOK
    <3>4. Len(m_task_queue) \in Nat /\ Len(m_task_queue') \in Nat
      BY <3>3, LenProperties
    <3>5. QED
      BY <3>2, <3>4
  <2>3. m_task_queue' = <<>> => Len(m_task_queue') <= Cardinality(Seekers') + Due'
    BY <2>2
  <2>4. pool_condition # {} => Len(m_task_queue) <= Cardinality(Seekers) + Due
    BY <2>1 DEF NoIdleWorkerBesideWork, Seekers
  <2>5. ASSUME NEW w \in Workers, w \notin Seekers, Seekers' = Seekers \cup {w}
        PROVE  Cardinality(Seekers') = Cardinality(Seekers) + 1
    BY <2>5, WorkerSets DEF Seekers
  <2>6. CASE pool_condition # {} /\ Seekers' = Seekers
             /\ UNCHANGED <<m_task_queue, listener>>
    BY <2>4, <2>6
  <2>7. ASSUME NEW w \in Workers, w \notin Seekers, Seekers' = Seekers \cup {w},
               pool_condition # {}, UNCHANGED <<m_task_queue, listener>>
        PROVE  Len(m_task_queue') <= Cardinality(Seekers') + Due'
    <3>1. Cardinality(Seekers') = Cardinality(Seekers) + 1
      BY <2>5, <2>7
    <3>2. Due' = Due /\ Len(m_task_queue') = Len(m_task_queue)
      BY <2>7
    <3>3. QED
      BY <2>2, <2>4, <2>7, <3>1, <3>2
  <2> HIDE DEF Due
  <2> USE DEF queueVars, workerVars, Goto
  <2>8. ASSUME NEW w \in Workers, SpawnWorker(w)
        PROVE  Len(m_task_queue') <= Cardinality(Seekers') + Due'
    <3>1. w \notin Seekers /\ Seekers' = Seekers \cup {w}
      BY <2>8 DEF SpawnWorker, Seekers, Seeking, TypeOK
    <3>2. QED
      BY <2>7, <2>8, <3>1 DEF SpawnWorker
  <2>9. CASE DeployWorkers \/ Joined \/ Destroy
    BY <2>6, <2>9 DEF DeployWorkers, Joined, Destroy, Seekers, Seeking
  <2>10. CASE NotifyAll
    BY <2>10 DEF NotifyAll, Wake
  <2>11. CASE PushToQueue
    <3>1. Seekers' = Seekers /\ pool_condition # {}
      BY <2>11 DEF PushToQueue, Seekers, Seeking
    <3>2. Due = 0 /\ Due' = 1
      BY <2>11 DEF PushToQueue, Due
    <3>3. Len(m_task_queue') = Len(m_task_queue) + 1
      BY <2>11 DEF PushToQueue, TypeOK
    <3>4. QED
      BY <2>2, <2>4, <3>1, <3>2, <3>3
  <2>12. CASE NotifyOne
    <3>1. pool_condition # {}
      BY <2>12 DEF NotifyOne
    <3>2. PICK w \in pool_condition : Wake({w})
      BY <2>12, <3>1 DEF NotifyOne
    <3>3. w \in Workers /\ pc[w] = "waiting"
      BY DEF TypeOK
    <3>4. pc' = [v \in Workers |-> IF v = w THEN "lock" ELSE pc[v]]
      BY <3>2 DEF Wake
    <3>5. w \notin Seekers /\ Seekers' = Seekers \cup {w}
      BY <3>3, <3>4 DEF Seekers, Seeking
    <3>6. Cardinality(Seekers') = Cardinality(Seekers) + 1
      BY <2>5, <3>3, <3>5
    <3>7. Due = 1 /\ Due' = 0 /\ m_task_queue' = m_task_queue
      BY <2>12 DEF NotifyOne, Due
    <3>8. QED
      BY <2>2, <2>4, <3>1, <3>6, <3>7
  <2>13. ASSUME NEW w \in Workers, LoopTest(w) \/ SwitchToAccepting(w)
                                   \/ StoreDecrement(w) \/ StoreIncrement(w)
                                   \/ LoadCount(w)
         PROVE  Len(m_task_queue') <= Cardinality(Seekers') + Due'
    <3>1. Seekers' = Seekers
      BY <2>1, <2>13 DEF LoopTest, SwitchToAccepting, StoreDecrement, LoadCount,
                         StoreIncrement, Seekers, Seeking, TypeOK
    <3>2. QED
      BY <2>6, <2>13, <3>1 DEF LoopTest, SwitchToAccepting, StoreDecrement,
                               StoreIncrement, LoadCount
  <2>14. ASSUME NEW w \in Workers, DecideToWait(w) \/ Block(w) \/ Break(w)
         PROVE  Len(m_task_queue') <= Cardinality(Seekers') + Due'
    <3>1. m_task_queue' = <<>>
      BY <2>1, <2>14 DEF DecideToWait, Ready, Block, Break, TypeOK,
                         BlockingOnEmptyQueue
    <3>2. QED
      BY <2>3, <3>1
  <2>15. ASSUME NEW w \in Workers, TakeWork(w)
         PROVE  Len(m_task_queue') <= Cardinality(Seekers') + Due'
    <3>1. w \in Seekers /\ Seekers' = Seekers \ {w} /\ pool_condition # {}
      BY <2>15 DEF TakeWork, Seekers, Seeking, TypeOK
    <3>2. Cardinality(Seekers') = Cardinality(Seekers) - 1
      BY <3>1, WorkerSets DEF Seekers
    <3>3. Len(m_task_queue') = Len(m_task_queue) - 1 /\ Due' = Due
      BY <2>15 DEF TakeWork, TypeOK, Due
    <3>4. QED
      BY <2>2, <2>4, <3>1, <3>2, <3>3
  <2>16. ASSUME NEW w \in Workers, EndJob(w)
         PROVE  Len(m_task_queue') <= Cardinality(Seekers') + Due'
    <3>1. w \notin Seekers /\ Seekers' = Seekers \cup {w}
      BY <2>16 DEF EndJob, Seekers, Seeking, TypeOK
    <3>2. QED
      BY <2>7, <2>16, <3>1 DEF EndJob
  <2>17. ASSUME NEW w \in Workers, SpuriousWakeup(w)
         PROVE  Len(m_task_queue') <= Cardinality(Seekers') + Due'
    <3>1. w \notin Seekers /\ Seekers' = Seekers \cup {w}
      BY <2>17 DEF SpuriousWakeup, Wake, Seekers, Seeking, TypeOK
    <3>2. QED
      BY <2>7, <2>17, <3>1 DEF SpuriousWakeup, Wake
  <2>18. CASE UNCHANGED vars
    BY <2>6, <2>18 DEF vars, Seekers, Seeking
  <2>19. QED
    BY <2>8, <2>9, <2>10, <2>11, <2>12, <2>13, <2>14, <2>15, <2>16, <2>17,
       <2>18 DEF Next, OwnerStep, WorkerStep
<1>3. QED
  BY <1>1, <1>2, TypeCorrect, BlockingOnEmptyQueueCorrect, PTL DEF Spec
=============================================================================
