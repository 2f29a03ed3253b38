------------------------ MODULE PlatformPostsProofs ------------------------
(***************************************************************************)
(* Proofs about PlatformPosts: its type invariant, and that a post is      *)
(* requested from its bot no more often than the rows and the restarts     *)
(* call for.                                                               *)
(***************************************************************************)
EXTENDS PlatformPosts, FiniteSetTheorems, TLAPS

\* A request that the loop can still make for p: nothing remembers an earlier
\* one, and p is fetched or will be.
Requestable(p) ==
  m_platform_map[p] = "absent" /\ (status[p] = "incomplete" \/ p \in batch)

\* A post that was never marked has no row, no entry and no request.  One that
\* was marked once: what it may still be requested is accounted for, and an
\* entry of m_platform_map keeps it out of the batch and, once failed, away
\* from the fetch of the incomplete posts.
Accounted(p) ==
  /\ marks[p] = 0 => /\ status[p] = "none" /\ m_platform_map[p] = "absent"
                     /\ p \notin batch /\ requested[p] = 0 /\ asked[p] = 0
  /\ marks[p] = 1 =>
       /\ requested[p] <= marks[p] + restarts
       /\ Requestable(p) => requested[p] < marks[p] + restarts
       /\ m_platform_map[p] # "absent" => p \notin batch
       /\ m_platform_map[p] = "failure" => status[p] # "incomplete"

RequestsAccounted == \A p \in Posts : Accounted(p)

IInv == TypeOK /\ RequestsAccounted
-----------------------------------------------------------------------------
(***************************************************************************)
(* The type invariant.                                                     *)
(***************************************************************************)
\* The counter m_pending wraps at Word and stays below it.
LEMMA Wraps ==
  ASSUME NEW n \in Int
  PROVE  n % Word \in 0 .. Word - 1
BY WordAssumption, SMT

LEMMA PendingStays ==
  ASSUME NEW n \in 0 .. Word - 1
  PROVE  /\ Decrement(n) \in 0 .. Word - 1
         /\ Increment(n) \in 0 .. Word - 1
<1>1. n + Word - 1 \in Int /\ n + 1 \in Int
  BY WordAssumption
<1>2. QED
  BY <1>1, Wraps DEF Decrement, Increment

\* What OnPlatformError leaves of the map and of the count has their types.
LEMMA FailStays ==
  ASSUME NEW map \in [Posts -> {"absent", "processing", "failure"}],
         NEW p \in Posts, NEW n \in 0 .. Word - 1
  PROVE  /\ FailEntry(map, p) \in [Posts -> {"absent", "processing", "failure"}]
         /\ FailCount(map, p, n) \in 0 .. Word - 1
BY PendingStays DEF FailEntry, FailCount

LEMMA TypeStep ==
  TypeOK /\ [Next]_vars => TypeOK'
<1> SUFFICES ASSUME TypeOK, [Next]_vars
             PROVE  TypeOK'
  OBVIOUS
<1> USE DEF TypeOK
<1>1. CASE ProcessIPC
  <2> DEFINE late == {p \in Posts : TimedOut /\ m_platform_map[p] = "processing"}
  <2>1. Cardinality(late) \in Nat
    BY PostsAssumption, FS_Subset, FS_CardinalityType
  <2>2. m_pending + Cardinality(late) * (Word - 1) \in Int
    <3> DEFINE c == Cardinality(late)
    <3>1. c \in Int /\ m_pending \in Int /\ Word - 1 \in Int
      BY <2>1, WordAssumption
    <3> HIDE DEF c
    <3>2. c * (Word - 1) \in Int
      BY <3>1
    <3>3. QED
      BY <3>1, <3>2 DEF c
  <2>3. m_pending' \in 0 .. Word - 1
    BY <1>1, <2>2, Wraps DEF ProcessIPC, FailPendingPosts
  <2>4. /\ m_platform_map' \in [Posts -> {"absent", "processing", "failure"}]
        /\ status' \in [Posts -> {"none", "incomplete", "complete", "failure"}]
    BY <1>1 DEF ProcessIPC, FailPendingPosts
  <2>5. /\ \A p \in Posts : m_platform_map[p] = "absent" <=> m_platform_map'[p] = "absent"
        /\ \A p \in Posts : status'[p] = "none" => status[p] = "none"
    BY <1>1 DEF ProcessIPC, FailPendingPosts
  <2>6. /\ m_dispatched_ipc' \in [Requests -> {"none", "sent", "complete"}]
        /\ ipc' \in [Requests -> {"none", "later", "due", "done"}]
    BY <1>1 DEF ProcessIPC, SendIPCRequests
  <2>7. /\ timer' \in {"stopped", "running", "expired"}
        /\ batch' \subseteq Posts
        /\ \A p \in batch' : status'[p] # "none"
    BY <1>1 DEF ProcessIPC
  <2>8. UNCHANGED <<saved, todo, retry, asked, restarts, marks, requested>>
    BY <1>1 DEF ProcessIPC, saveVars, ghostVars
  <2>9. \A p \in Posts : (p \in batch' \/ m_platform_map'[p] # "absent") => status'[p] # "none"
    BY <2>5, <2>7
  <2> HIDE DEF late
  <2>10. QED
    BY <2>3, <2>4, <2>6, <2>7, <2>8, <2>9
<1>2. ASSUME NEW p \in Posts, RequestPost(p)
      PROVE  TypeOK'
  <2>1. Inserted(p) \in [Posts -> {"absent", "processing", "failure"}]
    BY DEF Inserted
  <2>2. /\ FailEntry(Inserted(p), p) \in [Posts -> {"absent", "processing", "failure"}]
        /\ FailCount(Inserted(p), p, m_pending) \in 0 .. Word - 1
    BY <2>1, FailStays
  <2>3. Increment(m_pending) \in 0 .. Word - 1
    BY PendingStays
  <2>4. Increment(FailCount(Inserted(p), p, m_pending)) \in 0 .. Word - 1
    BY <2>2, PendingStays
  <2>5. /\ m_platform_map' \in [Posts -> {"absent", "processing", "failure"}]
        /\ m_pending' \in 0 .. Word - 1
        /\ asked' \in [Posts -> Nat]
        /\ status' \in [Posts -> {"none", "incomplete", "complete", "failure"}]
    BY <1>2, <2>1, <2>2, <2>3, <2>4 DEF RequestPost
  <2>6. \A q \in Posts : q # p => /\ m_platform_map'[q] = m_platform_map[q]
                                  /\ status'[q] = status[q]
    BY <1>2 DEF RequestPost, FailEntry, Inserted
  <2>7. p \in batch /\ status'[p] # "none"
    BY <1>2 DEF RequestPost
  <2>8. /\ retry' \subseteq Posts
        /\ batch' \subseteq batch
        /\ requested' \in [Posts -> Nat]
        /\ UNCHANGED <<saved, todo, timer, ipc, m_dispatched_ipc, restarts, marks>>
    BY <1>2 DEF RequestPost, Retried, saveVars, ipcVars
  <2>9. QED
    BY <2>5, <2>6, <2>7, <2>8
<1>3. ASSUME NEW p \in Posts, SkipPost(p)
      PROVE  TypeOK'
  BY <1>3 DEF SkipPost, saveVars, ipcVars, ghostVars
<1>4. ASSUME NEW o \in Origins, NewPost(o)
      PROVE  TypeOK'
  BY <1>4, RepostsAssumption DEF NewPost, ipcVars, ghostVars
<1>5. ASSUME NEW o \in Origins, NEW p \in Posts, SaveRepost(o, p)
      PROVE  TypeOK'
  BY <1>5 DEF SaveRepost, ipcVars
<1>6. ASSUME NEW p \in Posts, PostCompleted(p)
      PROVE  TypeOK'
  BY <1>6, PendingStays DEF PostCompleted, saveVars, ipcVars, ghostVars
<1>7. ASSUME NEW p \in Posts, PostFailed(p)
      PROVE  TypeOK'
  <2>1. /\ m_platform_map' \in [Posts -> {"absent", "processing", "failure"}]
        /\ m_pending' \in 0 .. Word - 1
    BY <1>7, FailStays DEF PostFailed
  <2>2. \A q \in Posts : m_platform_map'[q] # "absent" => m_platform_map[q] # "absent"
    BY <1>7 DEF PostFailed, FailEntry
  <2>3. /\ status' \in [Posts -> {"none", "incomplete", "complete", "failure"}]
        /\ \A q \in Posts : status'[q] = "none" => status[q] = "none"
        /\ asked' \in [Posts -> Nat]
        /\ UNCHANGED <<saved, todo, retry, timer, batch, ipc, m_dispatched_ipc,
                       restarts, marks, requested>>
    BY <1>7 DEF PostFailed, saveVars, ipcVars, ghostVars
  <2>4. QED
    BY <2>1, <2>2, <2>3
<1>8. ASSUME NEW i \in Requests, ScheduleIPC(i) \/ IPCAnswered(i) \/ IPCFallsDue(i)
      PROVE  TypeOK'
  BY <1>8 DEF ScheduleIPC, IPCAnswered, IPCFallsDue, saveVars, ghostVars
<1>9. CASE TimerExpires
  BY <1>9 DEF TimerExpires, saveVars, ipcVars, ghostVars
<1>10. CASE Restart
  <2>1. restarts' \in 0 .. MaxRestarts
    BY <1>10, MaxRestartsAssumption DEF Restart
  <2>2. m_pending' \in 0 .. Word - 1
    BY <1>10, WordAssumption DEF Restart
  <2>3. QED
    BY <1>10, <2>1, <2>2 DEF Restart
<1>11. CASE UNCHANGED vars
  BY <1>11 DEF vars
<1>12. QED
  BY <1>1, <1>2, <1>3, <1>4, <1>5, <1>6, <1>7, <1>8, <1>9, <1>10, <1>11 DEF Next, LoopStep

LEMMA TypeInit == Init => TypeOK
BY WordAssumption, MaxRestartsAssumption DEF Init, TypeOK

\* The tables, the maps and the counters of the pipeline keep their types, and
\* only posts with a row in platform_post are fetched or remembered (platform.cpp).
THEOREM TypeCorrect == Spec => []TypeOK
BY TypeInit, TypeStep, PTL DEF Spec
-----------------------------------------------------------------------------
(***************************************************************************)
(* Requests.                                                               *)
(***************************************************************************)
\* A step that leaves the row, the entry, the counters and the batch of a post
\* alone leaves it accounted for.
LEMMA AccountedStays ==
  ASSUME NEW p \in Posts, Accounted(p),
         UNCHANGED <<status[p], m_platform_map[p], marks[p], requested[p], asked[p], restarts>>,
         p \in batch' => p \in batch
  PROVE  Accounted(p)'
BY DEF Accounted, Requestable

LEMMA AccountedStep ==
  ASSUME TypeOK, TypeOK', RequestsAccounted, [Next]_vars
  PROVE  RequestsAccounted'
<1> SUFFICES ASSUME NEW q \in Posts
             PROVE  Accounted(q)'
  BY DEF RequestsAccounted
<1>0. /\ Accounted(q)
      /\ marks[q] \in Nat /\ requested[q] \in Nat /\ restarts \in Nat
      /\ status[q] \in {"none", "incomplete", "complete", "failure"}
      /\ m_platform_map[q] \in {"absent", "processing", "failure"}
  BY MaxRestartsAssumption DEF RequestsAccounted, TypeOK
<1>1. CASE ProcessIPC
  <2>1. /\ m_platform_map'[q] \in {m_platform_map[q], "failure"}
        /\ m_platform_map'[q] = "absent" <=> m_platform_map[q] = "absent"
        /\ status'[q] = IF m_platform_map'[q] = m_platform_map[q] THEN status[q]
                        ELSE "failure"
    BY <1>1 DEF ProcessIPC, FailPendingPosts, TypeOK
  <2>2. UNCHANGED <<asked, restarts, marks, requested>>
    BY <1>1 DEF ProcessIPC, ghostVars
  <2>3. q \in batch' => m_platform_map'[q] # "processing" /\ status'[q] = "incomplete"
    BY <1>1 DEF ProcessIPC, IsProcessingPlatform
  <2>4. QED
    BY <1>0, <2>1, <2>2, <2>3 DEF Accounted, Requestable
<1>2. ASSUME NEW p \in Posts, RequestPost(p)
      PROVE  Accounted(q)'
  <2>1. p \in batch /\ batch' = batch \ {p} /\ UNCHANGED <<restarts, marks>>
    BY <1>2 DEF RequestPost
  <2>2. CASE q = p
    <3>1. requested'[q] = requested[q] + 1 /\ q \notin batch'
      BY <1>2, <2>2 DEF RequestPost, TypeOK
    <3>2. marks[q] = 1 => m_platform_map[q] = "absent"
      BY <1>0, <2>1, <2>2 DEF Accounted
    <3>3. marks[q] = 1 => /\ m_platform_map'[q] # "absent"
                          /\ m_platform_map'[q] = "failure" => status'[q] = "failure"
      <4>1. m_platform_map[q] = "absent" => Inserted(q)[q] = "processing"
        BY DEF Inserted, TypeOK
      <4>2. m_platform_map[q] = "absent" => FailEntry(Inserted(q), q)[q] = "failure"
        BY <4>1 DEF FailEntry, IsProcessingPlatform, Inserted, TypeOK
      <4>3. QED
        BY <1>2, <2>2, <3>2, <4>1, <4>2 DEF RequestPost, TypeOK
    <3>4. marks[q] # 0
      BY <1>0, <2>1, <2>2 DEF Accounted
    <3>5. marks[q] = 1 => requested[q] < marks[q] + restarts
      BY <1>0, <2>1, <2>2, <3>2 DEF Accounted, Requestable
    <3>6. QED
      BY <1>0, <2>1, <3>1, <3>3, <3>4, <3>5 DEF Accounted, Requestable
  <2>3. CASE q # p
    <3>1. UNCHANGED <<status[q], m_platform_map[q], requested[q], asked[q]>>
      BY <1>2, <2>3 DEF RequestPost, Inserted, FailEntry, TypeOK
    <3>2. QED
      BY <1>0, <2>1, <3>1, AccountedStays
  <2>4. QED
    BY <2>2, <2>3
<1>3. ASSUME NEW p \in Posts, SkipPost(p)
      PROVE  Accounted(q)'
  BY <1>0, <1>3, AccountedStays DEF SkipPost, ghostVars
<1>4. ASSUME NEW o \in Origins, NewPost(o)
      PROVE  Accounted(q)'
  BY <1>0, <1>4, AccountedStays DEF NewPost, ghostVars
<1>5. ASSUME NEW o \in Origins, NEW p \in Posts, SaveRepost(o, p)
      PROVE  Accounted(q)'
  <2>1. UNCHANGED <<m_platform_map, batch, asked, restarts, requested>>
    BY <1>5 DEF SaveRepost
  <2>2. CASE q = p
    <3>1. marks'[q] = marks[q] + 1
      BY <1>5, <2>2 DEF SaveRepost, TypeOK
    <3>2. QED
      BY <1>0, <2>1, <3>1 DEF Accounted, Requestable
  <2>3. CASE q # p
    <3>1. UNCHANGED <<status[q], marks[q]>>
      BY <1>5, <2>3 DEF SaveRepost, TypeOK
    <3>2. QED
      BY <1>0, <2>1, <3>1, AccountedStays
  <2>4. QED
    BY <2>2, <2>3
<1>6. ASSUME NEW p \in Posts, PostCompleted(p) \/ PostFailed(p)
      PROVE  Accounted(q)'
  <2>1. UNCHANGED <<batch, restarts, marks, requested>>
    BY <1>6 DEF PostCompleted, PostFailed, ghostVars
  <2>2. CASE q = p
    <3>1. status'[q] \in {"complete", "failure"}
      BY <1>6, <2>2 DEF PostCompleted, PostFailed, TypeOK
    <3>2. m_platform_map'[q] \in {m_platform_map[q], "absent", "failure"}
      BY <1>6, <2>2 DEF PostCompleted, PostFailed, FailEntry, TypeOK
    <3>3. m_platform_map[q] = "absent" => m_platform_map'[q] = "absent"
      BY <1>6, <2>2 DEF PostCompleted, PostFailed, FailEntry, TypeOK
    <3>4. marks[q] # 0
      BY <1>0, <1>6, <2>2 DEF PostCompleted, PostFailed, Accounted
    <3>5. QED
      BY <1>0, <2>1, <3>1, <3>2, <3>3, <3>4 DEF Accounted, Requestable
  <2>3. CASE q # p
    <3>1. UNCHANGED <<status[q], m_platform_map[q], asked[q]>>
      BY <1>6, <2>3 DEF PostCompleted, PostFailed, FailEntry, TypeOK
    <3>2. QED
      BY <1>0, <2>1, <3>1, AccountedStays
  <2>4. QED
    BY <2>2, <2>3
<1>7. ASSUME NEW i \in Requests, ScheduleIPC(i) \/ IPCAnswered(i) \/ IPCFallsDue(i)
      PROVE  Accounted(q)'
  BY <1>0, <1>7, AccountedStays DEF ScheduleIPC, IPCAnswered, IPCFallsDue, ghostVars
<1>8. CASE TimerExpires
  BY <1>0, <1>8, AccountedStays DEF TimerExpires, ghostVars
<1>9. CASE Restart
  <2>1. /\ restarts' = restarts + 1 /\ q \notin batch' /\ m_platform_map'[q] = "absent"
        /\ UNCHANGED <<status, marks, requested, asked>>
    BY <1>9 DEF Restart
  <2>2. QED
    BY <1>0, <2>1 DEF Accounted, Requestable
<1>10. CASE UNCHANGED vars
  BY <1>0, <1>10, AccountedStays DEF vars
<1>11. QED
  BY <1>1, <1>2, <1>3, <1>4, <1>5, <1>6, <1>7, <1>8, <1>9, <1>10 DEF Next, LoopStep

\* Init and every step keep the whole invariant.
LEMMA Inductive == Spec => []IInv
<1>1. Init => IInv
  BY TypeInit DEF Init, IInv, RequestsAccounted, Accounted, Requestable
<1>2. IInv /\ [Next]_vars => IInv'
  BY TypeStep, AccountedStep DEF IInv
<1>3. QED
  BY <1>1, <1>2, PTL DEF Spec

\* A post that one origin calls for is requested from its bot at most once,
\* and once more after a restart, whatever the order of late answers, errors
\* and the ten-minute timeout (platform.cpp insert_or_update, ProcessPlatform,
\* fail_pending_posts).
THEOREM RequestedOnceCorrect == Spec => []RequestedOnce
<1>1. IInv => RequestedOnce
  <2> SUFFICES ASSUME IInv, NEW p \in Posts, marks[p] <= 1
               PROVE  requested[p] <= marks[p] + restarts
    BY DEF RequestedOnce
  <2>1. marks[p] \in Nat /\ restarts \in Nat /\ requested[p] \in Nat /\ Accounted(p)
    BY MaxRestartsAssumption DEF IInv, TypeOK, RequestsAccounted
  <2>2. marks[p] = 0 \/ marks[p] = 1
    BY <2>1
  <2>3. QED
    BY <2>1, <2>2 DEF Accounted
<1>2. QED
  BY <1>1, Inductive, PTL
=============================================================================
