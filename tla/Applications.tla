---------------------------- MODULE Applications ----------------------------
(***************************************************************************)
(* The table "apps": client threads register and remove applications and   *)
(* schedule tasks for them, while the loop looks a task's application up   *)
(* three times by its mask: in m_app_map, a copy of the table that is only *)
(* read when the server starts, in the table before the task runs, and in  *)
(* the table again when it is over.                                        *)
(*                                                                         *)
(* The schema allows one row for each mask, and a row that some result of  *)
(* a process refers to cannot be deleted.  A row's path and data only      *)
(* decide which program runs, and are left out; the path is never empty    *)
(* (an empty value is written as NULL).  Tasks recur: TaskSchedule says    *)
(* what becomes of the others, and of the times; here a task is due again  *)
(* some time after it ran.                                                 *)
(***************************************************************************)
EXTENDS Integers, FiniteSets, FiniteSetsExt

CONSTANTS Names,       \* names of applications
          Required,    \* REQUIRED_APPLICATIONS
          Masks,       \* their masks
          Installed,   \* the name of each mask's row at first, or None
          Requests,    \* the names and masks clients register
          Tasks,       \* ids of the table "schedule"
          Clients,     \* threads that serve client requests
          MaxEdits,    \* bound on the UPDATE_SCHEDULE requests
          MaxCrashes,  \* bound on the crashes the code does not cause
          None

ASSUME NamesAssumption == Required \subseteq Names /\ IsFiniteSet(Names)
ASSUME MasksAssumption == IsFiniteSet(Masks) /\ None \notin Masks \cup Names
ASSUME InstalledAssumption == Installed \in [Masks -> Names \cup {None}]
                              /\ Requests \subseteq Names \X Masks
ASSUME ClientsAssumption == IsFiniteSet(Clients)
ASSUME BoundsAssumption == {MaxEdits, MaxCrashes} \subseteq Nat

VARIABLES
  apps,       \* the name of the row of each mask, or None
  results,    \* the masks whose row some row of "process_result" refers to
  m_app_map,  \* the scheduler's copy: a name, or None, for each mask
  mask,       \* the mask of each row of "schedule", None: no row
  completed,  \* its column "completed"
  due,        \* the tasks whose time has come
  pc,         \* where the controller's loop is
  queue,      \* what it fetched and has not run
  running,    \* the entry whose process runs
  client,     \* the write each client thread has yet to make
  edits,
  crashes

vars == <<apps, results, m_app_map, mask, completed, due, pc, queue, running,
          client, edits, crashes>>

tables   == <<apps, results, mask, completed, due>>
loopVars == <<m_app_map, pc, queue, running>>

Statuses == {"scheduled", "failed", "retry_fail"}
Entries  == [id : Tasks, mask : Masks, completed : Statuses]
NoEntry  == [id |-> None, mask |-> None, completed |-> "scheduled"]
Idle     == [op |-> "idle", name |-> None, mask |-> None, id |-> None]

RowsOf(name) == {m \in Masks : apps[m] = name}

\* GetAppInfo reads the row of a mask.  Without one the texts are empty and
\* is_kiq, which says that an application is the project's own, is not set: it
\* reads as anything.  That of a row is left open.
GetAppInfo(m) == {[name |-> apps[m], is_kiq |-> kiq] : kiq \in BOOLEAN}

Registered(m) == \A info \in GetAppInfo(m) : info.name # None

\* Slip: only the required applications are kept
RequiredMap == [m \in Masks |-> IF apps[m] \in Required THEN apps[m] ELSE None]

\* FetchApplicationMap
AppMap == [m \in Masks |-> apps[m]]

HasRequired(map) == \A n \in Required : \E m \in Masks : map[m] = n

Init ==
  /\ apps = Installed
  /\ results = {}
  /\ m_app_map = [m \in Masks |-> None]
  /\ mask = [t \in Tasks |-> None]
  /\ completed = [t \in Tasks |-> "scheduled"]
  /\ due = {}
  /\ pc = "down"
  /\ queue = {}
  /\ running = NoEntry
  /\ client = [c \in Clients |-> Idle]
  /\ edits = 0
  /\ crashes = 0
-----------------------------------------------------------------------------
(***************************************************************************)
(* Start and end of the server.                                            *)
(***************************************************************************)
\* the constructor of Scheduler throws when a required application is not in
\* the map: the server is then not up, and is started again
Start ==
  /\ pc = "down"
  /\ HasRequired(AppMap)
  /\ m_app_map' = AppMap
  /\ pc' = "fetch"
  /\ UNCHANGED <<tables, queue, running, client, edits, crashes>>

\* the process ends: the tables stay
Terminate ==
  /\ pc' = "down"
  /\ m_app_map' = [m \in Masks |-> None]
  /\ queue' = {}
  /\ running' = NoEntry
  /\ client' = [c \in Clients |-> Idle]

Crash ==
  /\ pc # "down"
  /\ crashes < MaxCrashes
  /\ crashes' = crashes + 1
  /\ Terminate
  /\ UNCHANGED <<tables, edits>>
-----------------------------------------------------------------------------
(***************************************************************************)
(* The controller's loop.                                                  *)
(***************************************************************************)
Pending(t) ==
  mask[t] # None /\ t \in due /\ completed[t] \in {"scheduled", "failed"}

\* parseTasks reads the name of every fetched task with m_app_map.at, which
\* throws for a mask that was registered after the start, and nobody catches
Parsable(t)   == m_app_map[mask[t]] # None
ParsedTask(t) == [id |-> t, mask |-> mask[t], completed |-> completed[t]]

FetchRecurringTasks ==
  /\ pc = "fetch"
  /\ LET fetched == {t \in Tasks : Pending(t)}
     IN IF \A t \in fetched : Parsable(t)
        THEN /\ queue' = {ParsedTask(t) : t \in fetched}
             /\ pc' = "run"
             /\ UNCHANGED <<m_app_map, running, client>>
        ELSE Terminate
  /\ UNCHANGED <<tables, edits, crashes>>

\* executeTask: with no row of the mask the path is empty and nothing runs
ExecuteTask ==
  /\ pc = "run"
  /\ \E entry \in queue :
       /\ queue' = queue \ {entry}
       /\ IF Registered(entry.mask)
          THEN running' = entry /\ pc' = "complete"
          ELSE UNCHANGED <<pc, running>>
  /\ UNCHANGED <<tables, m_app_map, client, edits, crashes>>

\* Slip: a failure leaves no trace
CompletedAlways(entry, err) == "scheduled"

CompletedBy(entry, err) ==
  IF ~err THEN "scheduled"
  ELSE IF entry.completed = "failed" THEN "retry_fail" ELSE "failed"

\* saveResult: without a row of the mask nothing is written
SavedResult(m) == IF Registered(m) THEN results \cup {m} ELSE results

\* run_: the process ends, with an error or without
ProcessResults == [error : BOOLEAN]

\* isKIQProcess reads the row once more: the output of one of the project's own
\* goes to its parser, and there is none for an application that is not there
Unparsable(info) == info.is_kiq /\ info.name = None

\* onProcessComplete
CompleteTask ==
  /\ pc = "complete"
  /\ \E info \in GetAppInfo(running.mask), result \in ProcessResults :
       IF Unparsable(info)
       THEN /\ Terminate
            /\ UNCHANGED <<completed, due, results>>
       ELSE /\ completed' = [completed EXCEPT ![running.id] =
                               CompletedBy(running, result.error)]
            /\ due' = IF result.error THEN due ELSE due \ {running.id}
            /\ results' = SavedResult(running.mask)
            /\ pc' = "run"
            /\ running' = NoEntry
            /\ UNCHANGED <<m_app_map, queue, client>>
  /\ UNCHANGED <<apps, mask, edits, crashes>>

EndPass ==
  /\ pc = "run"
  /\ queue = {}
  /\ pc' = "fetch"
  /\ UNCHANGED <<tables, m_app_map, queue, running, client, edits, crashes>>

LoopStep == FetchRecurringTasks \/ ExecuteTask \/ CompleteTask \/ EndPass
-----------------------------------------------------------------------------
(***************************************************************************)
(* Client threads: each query is a transaction of its own.                 *)
(***************************************************************************)
\* Registrar::find
Find(name) == Cardinality(RowsOf(name)) > 2

\* Registrar::add as far as its call of find; a client asks for a name
AddFind(c, name, m) ==
  /\ client[c] = Idle
  /\ ~Find(name)
  /\ client' = [client EXCEPT ![c] =
                  [op |-> "add", name |-> name, mask |-> m, id |-> None]]
  /\ UNCHANGED <<tables, loopVars, edits, crashes>>

\* the schema refuses a second row of a mask
AddInsert(c) ==
  /\ client[c].op = "add"
  /\ ~Registered(client[c].mask)
  /\ apps' = [apps EXCEPT ![client[c].mask] = client[c].name]
  /\ client' = [client EXCEPT ![c] = Idle]
  /\ UNCHANGED <<results, mask, completed, due, loopVars, edits, crashes>>

\* the insertion throws: add catches it and the client gets REGISTRAR_FAIL
AddFails(c) ==
  /\ client[c].op = "add"
  /\ client' = [client EXCEPT ![c] = Idle]
  /\ UNCHANGED <<tables, loopVars, edits, crashes>>

\* Registrar::remove: delete_statement compares the name only, so that every
\* row of the name goes, whatever its path.  When one of them has a result the
\* statement throws and nothing changes: onMessageReceived catches it.
Remove(c, name) ==
  /\ client[c] = Idle
  /\ RowsOf(name) # {}
  /\ RowsOf(name) \cap results = {}
  /\ apps' = [m \in Masks |-> IF m \in RowsOf(name) THEN None ELSE apps[m]]
  /\ UNCHANGED <<results, mask, completed, due, loopVars, client, edits, crashes>>

\* Controller::operator() as far as GetAppInfo, which must find a row
ScheduleFind(c, t, m) ==
  /\ client[c] = Idle
  /\ mask[t] = None
  /\ \A d \in Clients : client[d].id # t
  /\ Registered(m)
  /\ client' = [client EXCEPT ![c] =
                  [op |-> "schedule", name |-> None, mask |-> m, id |-> t]]
  /\ UNCHANGED <<tables, loopVars, edits, crashes>>

ScheduleInsert(c) ==
  /\ client[c].op = "schedule"
  /\ mask' = [mask EXCEPT ![client[c].id] = client[c].mask]
  /\ client' = [client EXCEPT ![c] = Idle]
  /\ UNCHANGED <<apps, results, completed, due, loopVars, edits, crashes>>

\* UPDATE_SCHEDULE: the mask is written as it came
Update(c, t, m) ==
  /\ client[c] = Idle
  /\ mask[t] # None
  /\ edits < MaxEdits
  /\ edits' = edits + 1
  /\ mask' = [mask EXCEPT ![t] = m]
  /\ completed' = [completed EXCEPT ![t] = "scheduled"]
  /\ UNCHANGED <<apps, results, due, loopVars, client, crashes>>

ClientWrite(c) == AddInsert(c) \/ AddFails(c) \/ ScheduleInsert(c)

ClientStep(c) ==
  /\ pc # "down"
  /\ \/ \E n \in Names : Remove(c, n)
     \/ \E r \in Requests : AddFind(c, r[1], r[2])
     \/ \E t \in Tasks, m \in Masks : ScheduleFind(c, t, m) \/ Update(c, t, m)
     \/ ClientWrite(c)

\* the time of a scheduled task comes
Tick ==
  /\ \E t \in Tasks : mask[t] # None /\ t \notin due /\ due' = due \cup {t}
  /\ UNCHANGED <<apps, results, mask, completed, loopVars, client, edits, crashes>>

Next ==
  \/ Start \/ Crash \/ LoopStep \/ Tick
  \/ \E c \in Clients : ClientStep(c)

Spec == Init /\ [][Next]_vars

\* the loop has a thread of its own, a client thread finishes its request, and
\* the server is started again when it ended
Fairness ==
  /\ WF_vars(Start)
  /\ WF_vars(LoopStep)
  /\ \A c \in Clients : WF_vars(ClientWrite(c))

FairSpec == Spec /\ Fairness
-----------------------------------------------------------------------------
(***************************************************************************)
(* Properties.                                                             *)
(***************************************************************************)
\* The state has its type: in particular nothing runs, is queued or is
\* half-way through a request while the server is down.
TypeOK ==
  /\ apps \in [Masks -> Names \cup {None}]
  /\ results \subseteq {m \in Masks : Registered(m)}
  /\ m_app_map \in [Masks -> Names \cup {None}]
  /\ mask \in [Tasks -> Masks \cup {None}]
  /\ completed \in [Tasks -> Statuses]
  /\ due \subseteq {t \in Tasks : mask[t] # None}
  /\ pc \in {"down", "fetch", "run", "complete"}
  /\ queue \subseteq Entries
  /\ running \in Entries \cup {NoEntry}
  /\ (running = NoEntry) <=> (pc # "complete")
  /\ client \in [Clients -> [op : {"idle", "add", "schedule"},
                             name : Names \cup {None},
                             mask : Masks \cup {None},
                             id : Tasks \cup {None}]]
  /\ pc = "down" => queue = {} /\ \A c \in Clients : client[c] = Idle
  /\ edits \in 0 .. MaxEdits
  /\ crashes \in 0 .. MaxCrashes

\* a task is pending whose application is not there, or a required application
\* is missing
Orphaned == \E t \in Tasks : Pending(t) /\ ~Registered(mask[t])
Blocked  == Orphaned \/ ~HasRequired(AppMap)

\* A due task is run, whenever its application was registered: if that was
\* after the start, the fetch ends the server and the next start reads the new
\* application.  It waits only while some application is missing.
DueTaskRuns == \A t \in Tasks : Pending(t) ~> ~Pending(t) \/ Blocked

\* Once no application is missing for good, the server stops ending itself:
\* one start is enough to make its copy of the table good.
Recovers == <>[]~Blocked => <>[](pc # "down")
=============================================================================
