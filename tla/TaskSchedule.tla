---------------------------- MODULE TaskSchedule ----------------------------
(***************************************************************************)
(* The life of a scheduled task: the tables "schedule" and "recurring",    *)
(* the controller's loop that fetches what is due, runs it and records the *)
(* outcome, and the client threads that schedule and edit tasks meanwhile. *)
(*                                                                         *)
(* Every query is a transaction of its own, so each is an action, and a    *)
(* client's queries fall between any two of the loop's: m_mutex, held by   *)
(* the loop, is not taken by them.  Reading a task's env file, its masks,  *)
(* flags and file names are left out; a task has a row per file in the     *)
(* table "file", and how many is kept because fetchRecurringTasks joins    *)
(* that table.  Time is counted in ticks; localtime's offset and daylight  *)
(* saving are left out of time_as_today.                                   *)
(***************************************************************************)
EXTENDS Integers, Sequences, FiniteSets, SequencesExt

CONSTANTS Tasks,       \* ids of the table "schedule"
          Clients,     \* threads that serve a schedule or update request
          Runnable,    \* tasks for which prepareRuntime succeeds
          Trigger,     \* the tasks a task's success schedules
          Times,       \* datetimes a client may ask for
          Codes,       \* recurrences a client may ask for
          FileCounts,  \* numbers of files a scheduled task may have
          Hour, Day,   \* their length in ticks
          MaxTime,     \* bound on the clock
          MaxEdits,    \* bound on the UPDATE_SCHEDULE requests
          MaxCrashes,  \* bound on the crashes the code does not cause
          NoTask

ASSUME TasksAssumption == IsFiniteSet(Tasks) /\ NoTask \notin Tasks
ASSUME TriggerAssumption == Trigger \in [Tasks -> SUBSET Tasks]
ASSUME InputsAssumption == Times \subseteq Int /\ Codes \subseteq Nat
                                               /\ FileCounts \subseteq Nat
ASSUME ClockAssumption == Hour \in Nat \ {0} /\ Day \in Nat \ {0}
ASSUME BoundsAssumption == {MaxTime, MaxEdits, MaxCrashes} \subseteq Nat

\* namespace Completed
SCHEDULED  == 0
SUCCESS    == 1
FAILED     == 2
RETRY_FAIL == 3
Statuses   == {SCHEDULED, SUCCESS, FAILED, RETRY_FAIL}

\* Constants::Recurring, and the interval each stands for
NO == 0
GetIntervalSeconds(code) ==
  CASE code = 1 -> Hour
    [] code = 2 -> Day
    [] code = 3 -> Day * 7
    [] code = 4 -> Day * 30
    [] code = 5 -> Day * 365
    [] OTHER    -> 0

VARIABLES
  scheduled,   \* the ids that have a row in "schedule"
  row,         \* that row
  hasRec,      \* the ids that have a row in "recurring"
  rec,         \* its time
  m_tasks_map, \* what the loop fetched, in order
  pc,          \* where the loop is
  next,        \* the entry of m_tasks_map that runs
  err,         \* what its process returned
  client,      \* the write each client thread has yet to make
  now,
  edits,
  crashes,
  touched,     \* tasks a client wrote since the loop last fetched
  attempts     \* runs that failed since the last success or client's write

vars == <<scheduled, row, hasRec, rec, m_tasks_map, pc, next, err, client,
          now, edits, crashes, touched, attempts>>

tables   == <<scheduled, row, hasRec, rec>>
loopVars == <<m_tasks_map, pc, next, err>>
bounds   == <<now, edits, crashes>>

Rows    == [time : Int, completed : Statuses, recurring : Nat, files : Nat]
Entries == [id : Tasks, datetime : Int, completed : Statuses, recurring : Nat]

NoRow  == [time |-> 0, completed |-> SCHEDULED, recurring |-> NO, files |-> 0]
IdleOp == [op |-> "idle", id |-> NoTask, row |-> NoRow]

Init ==
  /\ scheduled = {}
  /\ row = [t \in Tasks |-> NoRow]
  /\ hasRec = {}
  /\ rec = [t \in Tasks |-> 0]
  /\ m_tasks_map = <<>>
  /\ pc = "fetch"
  /\ next = 1
  /\ err = FALSE
  /\ client = [c \in Clients |-> IdleOp]
  /\ now = 0
  /\ edits = 0
  /\ crashes = 0
  /\ touched = {}
  /\ attempts = [t \in Tasks |-> 0]

\* the hour of a timestamp, today
time_as_today(t) == (now \div Day) * Day + (t % Day)
-----------------------------------------------------------------------------
(***************************************************************************)
(* The controller's loop.                                                  *)
(***************************************************************************)
Pending(t) == t \in scheduled /\ row[t].completed \in {SCHEDULED, FAILED}

DueOnce(t) == Pending(t) /\ row[t].recurring = NO /\ now > row[t].time

DueRecurring(t) ==
  Pending(t) /\ row[t].recurring # NO /\ t \in hasRec /\ now > rec[t]

\* the process ends: every thread stops, the tables stay
Terminate ==
  /\ pc' = "down"
  /\ m_tasks_map' = <<>>
  /\ next' = 1
  /\ err' = FALSE
  /\ client' = [c \in Clients |-> IdleOp]
  /\ touched' = {}

\* fetchTasks selects no FILEQUERY column, and parseTasks reads it from every
\* row: with a row to parse, row.at throws and no frame of the loop catches it
FetchTasks ==
  /\ pc = "fetch"
  /\ \/ /\ \A t \in Tasks : ~DueOnce(t)
        /\ pc' = "fetchRecurring"
        /\ UNCHANGED <<m_tasks_map, next, err, client, touched>>
     \/ /\ \E t \in Tasks : DueOnce(t)
        /\ Terminate
  /\ UNCHANGED <<tables, bounds, attempts>>

\* the outer join with "file": one row per file, and one when there is none
JoinRows(t) == IF row[t].files = 0 THEN 1 ELSE row[t].files

FetchedRows == UNION {{<<t, j>> : j \in 1 .. JoinRows(t)} :
                        t \in {u \in Tasks : DueRecurring(u)}}

FetchedTask(t) == [id        |-> t,
                   datetime  |-> time_as_today(rec[t]),
                   completed |-> row[t].completed,
                   recurring |-> row[t].recurring]

\* the query has no ORDER BY clause: the rows come in any order
FetchRecurringTasks ==
  /\ pc = "fetchRecurring"
  /\ \E order \in SetToSeqs(FetchedRows) :
       m_tasks_map' = [k \in DOMAIN order |-> FetchedTask(order[k][1])]
  /\ pc' = "execute"
  /\ next' = 1
  /\ touched' = {}
  /\ UNCHANGED <<tables, err, client, bounds, attempts>>

Running == m_tasks_map[next]

\* failed runs are counted up to one more than RetriedOnce allows
Plenty == 3 + MaxCrashes
AtMostPlenty(n) == IF n > Plenty THEN Plenty ELSE n

\* executeTask and the process it runs, unless prepareRuntime fails
ExecuteTask ==
  /\ pc = "execute"
  /\ next <= Len(m_tasks_map)
  /\ IF Running.id \in Runnable
       THEN \E e \in BOOLEAN :
              /\ err' = e
              /\ pc' = "status"
              /\ attempts' = [attempts EXCEPT ![Running.id] =
                                IF e THEN AtMostPlenty(@ + 1) ELSE 0]
              /\ next' = next
       ELSE next' = next + 1 /\ UNCHANGED <<pc, err, attempts>>
  /\ UNCHANGED <<tables, m_tasks_map, client, bounds, touched>>

\* find_task: the first entry with the id of the one that ran
FindTask == CHOOSE k \in DOMAIN m_tasks_map :
              /\ m_tasks_map[k].id = Running.id
              /\ \A j \in DOMAIN m_tasks_map :
                   m_tasks_map[j].id = Running.id => k <= j

\* Slip: every failure is a first failure
CompletedOrFailed(entry, failed) ==
  IF failed THEN FAILED
  ELSE IF entry.recurring # NO THEN SCHEDULED ELSE SUCCESS

CompletedBy(entry, failed) ==
  IF failed
    THEN IF entry.completed = FAILED THEN RETRY_FAIL ELSE FAILED
    ELSE IF entry.recurring # NO THEN SCHEDULED ELSE SUCCESS

\* the tasks that the triggers of t clone from it: they run once, at its time
Triggered(t) == IF err THEN {} ELSE Trigger[t] \ scheduled

\* onProcessComplete as far as updateStatus
UpdateStatus ==
  /\ pc = "status"
  /\ LET k    == FindTask
         t    == Running.id
         done == CompletedBy(m_tasks_map[k], err)
     IN /\ m_tasks_map' = [m_tasks_map EXCEPT ![k].completed = done]
        /\ scheduled' = scheduled \cup Triggered(t)
        /\ row' = [u \in Tasks |->
                     IF u = t THEN [row[u] EXCEPT !.completed = done]
                     ELSE IF u \in Triggered(t)
                       THEN [NoRow EXCEPT !.time = m_tasks_map[k].datetime]
                     ELSE row[u]]
        /\ attempts' = [u \in Tasks |->
                          IF u \in Triggered(t) /\ u # t
                          THEN 0 ELSE attempts[u]]
        /\ pc' = IF ~err /\ m_tasks_map[k].recurring # NO
                 THEN "recur" ELSE "record"
  /\ UNCHANGED <<hasRec, rec, next, err, client, bounds, touched>>

\* Slip: the interval is subtracted, as schedule does
UpdateBackwards ==
  /\ pc = "recur"
  /\ LET entry == m_tasks_map[FindTask]
     IN rec' = [rec EXCEPT ![entry.id] =
                  entry.datetime - GetIntervalSeconds(entry.recurring)]
  /\ pc' = "record"
  /\ UNCHANGED <<scheduled, row, hasRec, m_tasks_map, next, err, client,
                 bounds, touched, attempts>>

\* updateRecurring: an UPDATE, so it needs the row to exist
UpdateRecurring ==
  /\ pc = "recur"
  /\ LET entry == m_tasks_map[FindTask]
     IN rec' = [rec EXCEPT ![entry.id] =
                  IF entry.id \in hasRec
                  THEN entry.datetime + GetIntervalSeconds(entry.recurring)
                  ELSE @]
  /\ pc' = "record"
  /\ UNCHANGED <<scheduled, row, hasRec, m_tasks_map, next, err, client,
                 bounds, touched, attempts>>

\* the end of ProcessExecutor::request, which records a success once more
RecordCompletion ==
  /\ pc = "record"
  /\ row' = [row EXCEPT ![Running.id].completed =
               IF err THEN @
               ELSE IF Running.recurring # NO THEN SCHEDULED ELSE SUCCESS]
  /\ next' = next + 1
  /\ pc' = "execute"
  /\ UNCHANGED <<scheduled, hasRec, rec, m_tasks_map, err, client, bounds,
                 touched, attempts>>

\* the end of HandlePendingTasks and of the pass
ClearTasks ==
  /\ pc = "execute"
  /\ next > Len(m_tasks_map)
  /\ m_tasks_map' = <<>>
  /\ next' = 1
  /\ pc' = "fetch"
  /\ UNCHANGED <<tables, err, client, bounds, touched, attempts>>

LoopStep == \/ FetchTasks \/ FetchRecurringTasks \/ ExecuteTask
            \/ UpdateStatus \/ UpdateRecurring \/ RecordCompletion
            \/ ClearTasks
-----------------------------------------------------------------------------
(***************************************************************************)
(* Client threads: Scheduler::schedule and Scheduler::update.              *)
(***************************************************************************)
\* the row's insertion; a recurring task needs a second one
ScheduleInsert(c, t) ==
  /\ pc # "down"
  /\ client[c] = IdleOp
  /\ t \notin scheduled
  /\ \E time \in Times, code \in Codes, files \in FileCounts :
       LET new == [time |-> time, completed |-> SCHEDULED,
                   recurring |-> code, files |-> files]
       IN /\ row' = [row EXCEPT ![t] = new]
          /\ client' = [client EXCEPT ![c] =
               IF code # NO THEN [op |-> "insert", id |-> t, row |-> new]
                            ELSE @]
  /\ scheduled' = scheduled \cup {t}
  /\ touched' = touched \cup {t}
  /\ attempts' = [attempts EXCEPT ![t] = 0]
  /\ UNCHANGED <<hasRec, rec, loopVars, bounds>>

FirstTime(r) == r.time - GetIntervalSeconds(r.recurring)

InsertRecurring(c) ==
  /\ client[c].op = "insert"
  /\ hasRec' = hasRec \cup {client[c].id}
  /\ rec' = [rec EXCEPT ![client[c].id] = FirstTime(client[c].row)]
  /\ touched' = touched \cup {client[c].id}
  /\ client' = [client EXCEPT ![c] = IdleOp]
  /\ UNCHANGED <<scheduled, row, loopVars, bounds, attempts>>

\* the second insertion throws: schedule catches it and returns the id
InsertFails(c) ==
  /\ client[c].op = "insert"
  /\ client' = [client EXCEPT ![c] = IdleOp]
  /\ UNCHANGED <<tables, loopVars, bounds, touched, attempts>>

\* update writes "recurring" first, then "schedule"
Update(c, t) ==
  /\ pc # "down"
  /\ client[c] = IdleOp
  /\ t \in scheduled
  /\ edits < MaxEdits
  /\ \E time \in Times, code \in Codes, completed \in Statuses :
       LET new == [row[t] EXCEPT !.time = time, !.completed = completed,
                                 !.recurring = code]
       IN /\ client' = [client EXCEPT ![c] =
                          [op |-> "update", id |-> t, row |-> new]]
          /\ IF code # NO
               THEN /\ hasRec' = hasRec \cup {t}
                    /\ rec' = [rec EXCEPT ![t] = FirstTime(new)]
               ELSE UNCHANGED <<hasRec, rec>>
  /\ edits' = edits + 1
  /\ touched' = touched \cup {t}
  /\ UNCHANGED <<scheduled, row, loopVars, now, crashes, attempts>>

UpdateSchedule(c) ==
  /\ client[c].op = "update"
  /\ row' = [row EXCEPT ![client[c].id] = client[c].row]
  /\ attempts' = [attempts EXCEPT ![client[c].id] = 0]
  /\ touched' = touched \cup {client[c].id}
  /\ client' = [client EXCEPT ![c] = IdleOp]
  /\ UNCHANGED <<scheduled, hasRec, rec, loopVars, bounds>>

ClientStep(c) ==
  \/ \E t \in Tasks : ScheduleInsert(c, t) \/ Update(c, t)
  \/ InsertRecurring(c) \/ InsertFails(c) \/ UpdateSchedule(c)
-----------------------------------------------------------------------------
(***************************************************************************)
(* The environment: the clock, crashes, and an operator who restarts the   *)
(* server.                                                                 *)
(***************************************************************************)
Tick ==
  /\ now < MaxTime
  /\ now' = now + 1
  /\ UNCHANGED <<tables, loopVars, client, edits, crashes, touched, attempts>>

Crash ==
  /\ pc # "down"
  /\ crashes < MaxCrashes
  /\ crashes' = crashes + 1
  /\ Terminate
  /\ UNCHANGED <<tables, now, edits, attempts>>

Restart ==
  /\ pc = "down"
  /\ pc' = "fetch"
  /\ UNCHANGED <<tables, m_tasks_map, next, err, client, bounds, touched,
                 attempts>>

Next ==
  \/ LoopStep
  \/ \E c \in Clients : ClientStep(c)
  \/ Tick \/ Crash \/ Restart

Spec == Init /\ [][Next]_vars

\* the loop has a thread of its own, a client thread finishes its request
Fairness ==
  /\ WF_vars(LoopStep)
  /\ WF_vars(Restart)
  /\ \A c \in Clients : WF_vars(InsertRecurring(c) \/ InsertFails(c)
                                                   \/ UpdateSchedule(c))

FairSpec == Spec /\ Fairness
-----------------------------------------------------------------------------
(***************************************************************************)
(* Properties.                                                             *)
(***************************************************************************)
\* The state has its type: in particular the loop's index and the task a
\* client is writing always name something.
TypeOK ==
  /\ scheduled \subseteq Tasks
  /\ row \in [Tasks -> Rows]
  /\ hasRec \subseteq Tasks
  /\ rec \in [Tasks -> Int]
  /\ m_tasks_map \in Seq(Entries)
  /\ pc \in {"fetch", "fetchRecurring", "execute", "status", "recur",
             "record", "down"}
  /\ next \in 1 .. Len(m_tasks_map) + 1
  /\ pc \in {"status", "recur", "record"} => next \in DOMAIN m_tasks_map
  /\ err \in BOOLEAN
  /\ client \in [Clients -> [op : {"idle", "insert", "update"},
                             id : Tasks \cup {NoTask}, row : Rows]]
  /\ \A c \in Clients : client[c].op # "idle" => client[c].id \in scheduled
  /\ now \in Int
  /\ edits \in Nat
  /\ crashes \in Nat
  /\ touched \subseteq Tasks
  /\ attempts \in [Tasks -> Nat]

\* "Failed tasks will re-run once more" (Controller::onProcessComplete): a
\* task with at most one file fails at most twice between two successes or
\* client's writes, whatever the clients edit meanwhile; a crash that loses
\* an outcome adds one run.
RetriedOnce ==
  \A t \in scheduled : row[t].files <= 1 => attempts[t] <= 2 + crashes

\* updateRecurring never sets a task back: unless a client writes the task,
\* its next time is at least an interval after the last, however late the
\* loop runs it and however often it is interrupted.
OccurrenceAdvances ==
  [][\A t \in hasRec :
       (t \notin touched' /\ rec'[t] # rec[t])
         => rec'[t] >= rec[t] + GetIntervalSeconds(row[t].recurring)]_vars

\* A due recurring task that can run does not stay due: it succeeds and gets
\* a later time, or fails twice, unless a one-time task comes due, at which
\* FetchTasks ends the server.
DueIsHandled ==
  \A t \in Runnable : DueRecurring(t) ~> \/ ~DueRecurring(t)
                                         \/ \E u \in Tasks : DueOnce(u)

\* The completion states (task.hpp) give a one-time task a way to leave
\* SCHEDULED: it runs when it is due.
OneTimeTaskRuns ==
  \A t \in Runnable : DueOnce(t) ~> row[t].completed # SCHEDULED

\* "Failed tasks will re-run once more" (Controller::onProcessComplete), for
\* a task with any number of files.
ReRunsOnceMore == \A t \in scheduled : attempts[t] <= 2 + crashes

\* A client's update that was answered with "Success" stands until the task
\* is fetched again: the outcome of a run that began before it does not
\* replace the status the client set.
UpdateStands ==
  [][(/\ pc \in {"status", "record"}
       /\ Running.id \in touched
       /\ \A c \in Clients : client[c].id # Running.id
       /\ client' = client)
      => row'[Running.id].completed = row[Running.id].completed]_vars
=============================================================================
