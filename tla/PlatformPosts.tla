--------------------------- MODULE PlatformPosts ---------------------------
(***************************************************************************)
(* The post pipeline: Platform saves posts that a platform reports and the *)
(* reposts they call for, requests the reposts from the platform bots, and *)
(* records the bots' answers; the controller's loop drives it through      *)
(* Scheduler::ProcessIPC, which first waits for the IPC requests that are  *)
(* still unanswered.                                                       *)
(*                                                                         *)
(* A post stands for a repost or an affiliate post, identified by platform *)
(* and id.  Answers arrive on the threads of the IPC manager, so they fall *)
(* between any two steps of the loop; an answer may come late or never.    *)
(* The counters m_posted and m_errors, the env files and the mails are     *)
(* left out.                                                               *)
(***************************************************************************)
EXTENDS Naturals, FiniteSets

CONSTANTS Posts,        \* (pid, id) of the reposts and affiliate posts
          Origins,      \* posts that platforms report
          Reposts,      \* the posts that each of them calls for
          Bots,         \* the posts whose platform has the method "bot"
          Requests,     \* IPC requests
          Awaited,      \* those whose answer ProcessIPC waits for (type 0)
          Recurring,    \* those that are sent again after an interval
          MaxRestarts,  \* bound on the restarts of the server
          Word          \* 2^w for the width w of m_pending

ASSUME PostsAssumption == IsFiniteSet(Posts) /\ Bots \subseteq Posts
ASSUME RepostsAssumption == Reposts \in [Origins -> SUBSET Posts]
ASSUME RequestsAssumption == Awaited \cup Recurring \subseteq Requests
ASSUME MaxRestartsAssumption == MaxRestarts \in Nat
ASSUME WordAssumption == Word \in Nat \ {0}

VARIABLES
  status,            \* platform_post.status of each post, "none" without a row
  saved,             \* the origins that have a row in platform_post
  todo,              \* the reposts SavePlatformPost has yet to save for each
  m_platform_map,    \* PlatformPostState of each post, "absent" without entry
  retry,             \* the posts whose entry has retry set
  m_pending,
  timer,             \* the static timer of ProcessPlatform
  batch,             \* fetched posts the loop of ProcessPlatform has yet to see
  ipc,               \* each request's row of the table ipc: "none", "later"
                     \* and "due" for status 0, "done" for status 1
  m_dispatched_ipc,  \* "sent" until the answer, "complete" after it
  asked,             \* requests for a post that its bot has not answered
  restarts,
  marks,             \* how often each post was marked incomplete
  requested          \* how often each post was requested

vars == <<status, saved, todo, m_platform_map, retry, m_pending, timer, batch, ipc,
          m_dispatched_ipc, asked, restarts, marks, requested>>

saveVars   == <<saved, todo>>
ipcVars    == <<ipc, m_dispatched_ipc>>
ghostVars  == <<restarts, marks, requested>>

Init ==
  /\ status = [p \in Posts |-> "none"]
  /\ saved = {}
  /\ todo = [o \in Origins |-> {}]
  /\ m_platform_map = [p \in Posts |-> "absent"]
  /\ retry = {}
  /\ m_pending = 0
  /\ timer = "stopped"
  /\ batch = {}
  /\ ipc = [i \in Requests |-> "none"]
  /\ m_dispatched_ipc = [i \in Requests |-> "none"]
  /\ asked = [p \in Posts |-> 0]
  /\ restarts = 0
  /\ marks = [p \in Posts |-> 0]
  /\ requested = [p \in Posts |-> 0]
-----------------------------------------------------------------------------
(***************************************************************************)
(* Events from the platforms.                                              *)
(***************************************************************************)
\* SavePlatformPost for a post that is new.  One that is not new is only
\* updated, to the status it has.
NewPost(o) ==
  /\ o \notin saved
  /\ saved' = saved \cup {o}
  /\ todo' = [todo EXCEPT ![o] = Reposts[o]]
  /\ UNCHANGED <<status, m_platform_map, retry, m_pending, timer, batch,
                 ipcVars, asked, ghostVars>>

\* Its call for a repost, which is inserted, or set back to incomplete when
\* another origin called for it before
SaveRepost(o, p) ==
  /\ p \in todo[o]
  /\ todo' = [todo EXCEPT ![o] = @ \ {p}]
  /\ status' = [status EXCEPT ![p] = "incomplete"]
  /\ marks' = [marks EXCEPT ![p] = @ + 1]
  /\ UNCHANGED <<saved, m_platform_map, retry, m_pending, timer, batch,
                 ipcVars, asked, restarts, requested>>

\* unsigned m_pending
Decrement(n) == (n + Word - 1) % Word
Increment(n) == (n + 1) % Word

\* complete_post, then SavePlatformPost finds the row and updates it
PostCompleted(p) ==
  /\ asked[p] > 0
  /\ asked' = [asked EXCEPT ![p] = @ - 1]
  /\ m_pending' = IF m_platform_map[p] \in {"processing", "failure"}
                  THEN Decrement(m_pending) ELSE m_pending
  /\ m_platform_map' = [m_platform_map EXCEPT ![p] = "absent"]
  /\ retry' = retry \ {p}
  /\ status' = [status EXCEPT ![p] = "complete"]
  /\ UNCHANGED <<saveVars, timer, batch, ipcVars, ghostVars>>

IsProcessingPlatform(map) == \E p \in Posts : map[p] = "processing"

\* The state and the count after OnPlatformError, given those before it
FailEntry(map, p) ==
  IF IsProcessingPlatform(map) /\ map[p] # "absent"
  THEN [map EXCEPT ![p] = "failure"] ELSE map

FailCount(map, p, n) ==
  IF IsProcessingPlatform(map) /\ map[p] # "absent"
  THEN Decrement(n) ELSE n

\* OnPlatformError, from a bot
PostFailed(p) ==
  /\ asked[p] > 0
  /\ asked' = [asked EXCEPT ![p] = @ - 1]
  /\ m_platform_map' = FailEntry(m_platform_map, p)
  /\ m_pending' = FailCount(m_platform_map, p, m_pending)
  /\ status' = [status EXCEPT ![p] = "failure"]
  /\ UNCHANGED <<saveVars, retry, timer, batch, ipcVars, ghostVars>>

\* OnIPCReceived, for the result of a request or an error
IPCAnswered(i) ==
  /\ m_dispatched_ipc[i] = "sent"
  /\ m_dispatched_ipc' = [m_dispatched_ipc EXCEPT ![i] = "complete"]
  /\ ipc' = [ipc EXCEPT ![i] = "done"]
  /\ UNCHANGED <<status, saveVars, m_platform_map, retry, m_pending, timer,
                 batch, asked, ghostVars>>

ScheduleIPC(i) ==
  /\ ipc[i] = "none"
  /\ ipc' = [ipc EXCEPT ![i] = "due"]
  /\ UNCHANGED <<status, saveVars, m_platform_map, retry, m_pending, timer,
                 batch, m_dispatched_ipc, asked, ghostVars>>
-----------------------------------------------------------------------------
(***************************************************************************)
(* The controller's loop: ProcessIPC and ProcessPlatform.                  *)
(***************************************************************************)
IPCResponseReceived == \A i \in Requests : m_dispatched_ipc[i] # "sent"

\* SendIPCRequest for every request that is due.  One that nobody answers is
\* done at once; one that recurs is due again later.  m_dispatched_ipc.insert
\* leaves an entry that is there as it is.
SendIPCRequests ==
  LET due == {i \in Requests : ipc[i] = "due"}
  IN  /\ m_dispatched_ipc' =
           [i \in Requests |->
              IF i \in due \cap Awaited /\ m_dispatched_ipc[i] = "none"
              THEN "sent" ELSE m_dispatched_ipc[i]]
      /\ ipc' = [i \in Requests |->
                   CASE i \in due \cap Recurring -> "later"
                     [] i \in due \ (Awaited \cup Recurring) -> "done"
                     [] OTHER -> ipc[i]]

\* Slip: the sense of the test
TimedOutInverted == timer = "stopped"

TimedOut == timer = "expired"

\* Slip: the failure of a post is not saved
FailUnsaved ==
  LET late == {p \in Posts : TimedOut /\ m_platform_map[p] = "processing"}
  IN  /\ m_platform_map' = [p \in Posts |-> IF p \in late THEN "failure"
                                            ELSE m_platform_map[p]]
      /\ UNCHANGED status
      /\ m_pending' = (m_pending + Cardinality(late) * (Word - 1)) % Word

\* fail_pending_posts, when the timer has expired
FailPendingPosts ==
  LET late == {p \in Posts : TimedOut /\ m_platform_map[p] = "processing"}
  IN  /\ m_platform_map' = [p \in Posts |-> IF p \in late THEN "failure"
                                            ELSE m_platform_map[p]]
      /\ status' = [p \in Posts |-> IF p \in late THEN "failure"
                                    ELSE status[p]]
      /\ m_pending' = (m_pending + Cardinality(late) * (Word - 1)) % Word

\* As far as the fetch of the incomplete posts, which waits for the posts
\* that are being processed
ProcessIPC ==
  /\ batch = {}
  /\ IPCResponseReceived
  /\ SendIPCRequests
  /\ timer' = IF timer = "stopped" THEN "running"
              ELSE IF TimedOut THEN "stopped" ELSE timer
  /\ FailPendingPosts
  /\ batch' = IF IsProcessingPlatform(m_platform_map') THEN {}
              ELSE {p \in Posts : status'[p] = "incomplete"}
  /\ UNCHANGED <<saveVars, retry, asked, ghostVars>>

\* Slip: only a post that failed is requested
InsertableAgain(p) == m_platform_map[p] = "failure" /\ p \notin retry

\* insert_or_update: whether the post is requested, and the entry it has then
Insertable(p) == \/ m_platform_map[p] = "absent"
                 \/ m_platform_map[p] = "failure" /\ p \notin retry

\* the comparison where an assignment is meant leaves a failed entry failed
Inserted(p) == [m_platform_map EXCEPT ![p] =
                  IF @ = "absent" THEN "processing" ELSE @]

Retried(p) == IF m_platform_map[p] = "failure" THEN retry \cup {p} ELSE retry

\* on_platform_post_request sends the post to its bot; without one it calls
\* OnPlatformError before m_pending is incremented
RequestPost(p) ==
  /\ p \in batch
  /\ Insertable(p)
  /\ retry' = Retried(p)
  /\ IF p \in Bots
       THEN /\ m_platform_map' = Inserted(p)
            /\ m_pending' = Increment(m_pending)
            /\ asked' = [asked EXCEPT ![p] = @ + 1]
            /\ UNCHANGED status
       ELSE /\ m_platform_map' = FailEntry(Inserted(p), p)
            /\ m_pending' = Increment(FailCount(Inserted(p), p, m_pending))
            /\ status' = [status EXCEPT ![p] = "failure"]
            /\ UNCHANGED asked
  /\ batch' = batch \ {p}
  /\ requested' = [requested EXCEPT ![p] = @ + 1]
  /\ UNCHANGED <<saveVars, timer, ipcVars, restarts, marks>>

\* "Failed to process": it is being processed, or has had its retry
SkipPost(p) ==
  /\ p \in batch
  /\ ~Insertable(p)
  /\ batch' = batch \ {p}
  /\ UNCHANGED <<status, saveVars, m_platform_map, retry, m_pending, timer,
                 ipcVars, asked, ghostVars>>

\* the time of a recurring request comes
IPCFallsDue(i) ==
  /\ ipc[i] = "later"
  /\ ipc' = [ipc EXCEPT ![i] = "due"]
  /\ UNCHANGED <<status, saveVars, m_platform_map, retry, m_pending, timer,
                 batch, m_dispatched_ipc, asked, ghostVars>>

\* ten minutes have passed since the timer was reset
TimerExpires ==
  /\ timer = "running"
  /\ timer' = "expired"
  /\ UNCHANGED <<status, saveVars, m_platform_map, retry, m_pending, batch,
                 ipcVars, asked, ghostVars>>

\* The server stops and starts: the tables stay, the bots go on
Restart ==
  /\ restarts < MaxRestarts
  /\ restarts' = restarts + 1
  /\ m_platform_map' = [p \in Posts |-> "absent"]
  /\ retry' = {}
  /\ m_pending' = 0
  /\ timer' = "stopped"
  /\ batch' = {}
  /\ m_dispatched_ipc' = [i \in Requests |-> "none"]
  /\ todo' = [o \in Origins |-> {}]
  /\ UNCHANGED <<status, saved, ipc, asked, marks, requested>>

LoopStep == ProcessIPC \/ \E p \in Posts : RequestPost(p) \/ SkipPost(p)

Next ==
  \/ LoopStep
  \/ \E o \in Origins : NewPost(o) \/ \E p \in Posts : SaveRepost(o, p)
  \/ \E p \in Posts : PostCompleted(p) \/ PostFailed(p)
  \/ \E i \in Requests : ScheduleIPC(i) \/ IPCAnswered(i) \/ IPCFallsDue(i)
  \/ TimerExpires
  \/ Restart

Spec == Init /\ [][Next]_vars

\* The loop runs and time passes; no bot has to answer
Fairness == WF_vars(LoopStep) /\ WF_vars(TimerExpires)

FairSpec == Spec /\ Fairness
-----------------------------------------------------------------------------
(***************************************************************************)
(* Properties.                                                             *)
(***************************************************************************)
\* The state has its type, and only posts with a row are fetched or have an
\* entry in m_platform_map.
TypeOK ==
  /\ status \in [Posts -> {"none", "incomplete", "complete", "failure"}]
  /\ saved \subseteq Origins
  /\ todo \in [Origins -> SUBSET Posts]
  /\ m_platform_map \in [Posts -> {"absent", "processing", "failure"}]
  /\ retry \subseteq Posts
  /\ m_pending \in 0 .. Word - 1
  /\ timer \in {"stopped", "running", "expired"}
  /\ batch \subseteq Posts
  /\ ipc \in [Requests -> {"none", "later", "due", "done"}]
  /\ m_dispatched_ipc \in [Requests -> {"none", "sent", "complete"}]
  /\ asked \in [Posts -> Nat]
  /\ restarts \in 0 .. MaxRestarts
  /\ marks \in [Posts -> Nat]
  /\ requested \in [Posts -> Nat]
  /\ \A p \in Posts : (p \in batch \/ m_platform_map[p] # "absent")
                        => status[p] # "none"

\* A post that one origin calls for is published once: whatever the order of
\* answers, errors and the ten-minute timeout it is requested at most once,
\* and once more after a restart, which forgets the requests under way.
RequestedOnce ==
  \A p \in Posts : marks[p] <= 1 => requested[p] <= marks[p] + restarts

\* A post that is being processed stops being so, with or without an answer,
\* because the timer of ProcessPlatform fails it, unless an IPC request that
\* is not answered keeps ProcessIPC from getting there (IPCResponseReceived).
ProcessingEnds ==
  \A p \in Posts : (m_platform_map[p] = "processing")
                     ~> (m_platform_map[p] # "processing" \/ ~IPCResponseReceived)

\* A post that is marked incomplete is requested, skipped because it has had
\* its retry, or waits behind an IPC request that is not answered.
IncompleteIsRequested ==
  \A p \in Posts : (status[p] = "incomplete" /\ m_platform_map[p] = "absent")
                     ~> (\/ status[p] # "incomplete"
                         \/ m_platform_map[p] # "absent"
                         \/ ~IPCResponseReceived)

\* "Platform is already processing {} for {}" and "Failed post has already
\* had a retry" (insert_or_update): no post is requested more often than it
\* was marked incomplete, restarts aside.
NoExtraRequests == \A p \in Posts : requested[p] <= marks[p] + restarts

\* "If repostable, save the post for assigned platforms" (SavePlatformPost,
\* note 3): a post that is saved has its reposts saved too.
RepostsAreSaved ==
  \A o \in saved : todo[o] = {} => \A p \in Reposts[o] : status[p] # "none"
=============================================================================
