------------------------ MODULE TaskScheduleProofs ------------------------
(***************************************************************************)
(* Proofs about TaskSchedule: its type invariant, that a failed task runs  *)
(* once more and no oftener, and that a task's next time only advances.    *)
(***************************************************************************)
EXTENDS TaskSchedule, FiniteSetTheorems, FunctionTheorems, WellFoundedInduction, TLAPS

LEMMA Least ==
  ASSUME NEW S \in SUBSET Nat, S # {}
  PROVE  \E n \in S : \A m \in S : n <= m
<1> DEFINE R == OpToRel(<, Nat)
<1>1. IsWellFoundedOn(R, Nat)
  BY NatLessThanWellFounded
<1>2. \A m, n \in Nat : <<m, n>> \in R <=> m < n
  BY DEF OpToRel
<1> HIDE DEF R
<1>3. PICK n \in S : \A m \in S : ~(<<m, n>> \in R)
  BY <1>1, WFMin
<1>4. n \in Nat
  OBVIOUS
<1>5. ASSUME NEW m \in S PROVE n <= m
  <2>1. m \in Nat /\ ~(m < n)
    BY <1>2, <1>3, <1>4
  <2>2. QED
    BY <1>4, <2>1
<1>6. QED
  BY <1>5

\* An interval is a number of ticks, never negative.
LEMMA IntervalType ==
  ASSUME NEW code
  PROVE  GetIntervalSeconds(code) \in Nat
BY ClockAssumption DEF GetIntervalSeconds

\* find_task finds an entry with the id of the task that runs, and none is
\* before it.
LEMMA FindTaskFinds ==
  ASSUME m_tasks_map \in Seq(Entries), next \in DOMAIN m_tasks_map
  PROVE  /\ FindTask \in DOMAIN m_tasks_map
         /\ m_tasks_map[FindTask].id = Running.id
         /\ FindTask <= next
<1> DEFINE S == {k \in DOMAIN m_tasks_map : m_tasks_map[k].id = Running.id}
<1>1. S \in SUBSET Nat /\ next \in S
  BY DEF Running
<1>2. PICK n \in S : \A m \in S : n <= m
  BY <1>1, Least
<1>3. /\ n \in DOMAIN m_tasks_map
      /\ m_tasks_map[n].id = Running.id
      /\ \A j \in DOMAIN m_tasks_map : m_tasks_map[j].id = Running.id => n <= j
  BY <1>2
<1>4. /\ FindTask \in DOMAIN m_tasks_map
      /\ m_tasks_map[FindTask].id = Running.id
      /\ \A j \in DOMAIN m_tasks_map : m_tasks_map[j].id = Running.id => FindTask <= j
  BY <1>3 DEF FindTask
<1>5. QED
  BY <1>4 DEF Running

\* The tasks' rows of the join, finitely many since each has finitely many
\* files
LEMMA FetchedRowsFinite ==
  ASSUME TypeOK
  PROVE  Cardinality(FetchedRows) \in Nat
<1> DEFINE due == {u \in Tasks : DueRecurring(u)}
           Of(t) == {<<t, j>> : j \in 1 .. JoinRows(t)}
<1>1. IsFiniteSet(due)
  BY TasksAssumption, FS_Subset
<1>2. ASSUME NEW t \in due
      PROVE  IsFiniteSet(Of(t))
  <2>1. JoinRows(t) \in Nat
    BY DEF JoinRows, TypeOK, Rows
  <2>2. IsFiniteSet(1 .. JoinRows(t))
    BY <2>1, FS_Interval
  <2> DEFINE f == [j \in 1 .. JoinRows(t) |-> <<t, j>>]
  <2>3. f \in Surjection(1 .. JoinRows(t), Of(t))
    BY DEF Surjection
  <2>4. QED
    BY <2>2, <2>3, FS_Surjection DEF ExistsSurjection
<1>3. IsFiniteSet({Of(t) : t \in due})
  <2> DEFINE f == [t \in due |-> Of(t)]
  <2>1. f \in Surjection(due, {Of(t) : t \in due})
    BY DEF Surjection
  <2>2. QED
    BY <1>1, <2>1, FS_Surjection DEF ExistsSurjection
<1>4. \A T \in {Of(t) : t \in due} : IsFiniteSet(T)
  BY <1>2
<1>5. IsFiniteSet(UNION {Of(t) : t \in due})
  BY <1>3, <1>4, FS_UNION
<1>6. QED
  BY <1>5, FS_CardinalityType DEF FetchedRows

\* A fetched time is a number of ticks, and not before the time in the table.
LEMMA TodayType ==
  ASSUME now \in Int, NEW a \in Int
  PROVE  time_as_today(a) \in Int
<1>1. now \div Day \in Int /\ a % Day \in Int
  BY ClockAssumption
<1> DEFINE q == now \div Day
           r == a % Day
<1> HIDE DEF q, r
<1>2. q * Day \in Int
  BY <1>1, ClockAssumption DEF q
<1>3. QED
  BY <1>1, <1>2 DEF time_as_today, q, r

\* What FetchRecurringTasks leaves in m_tasks_map: entries of due tasks, and
\* two of one task only when it has several files.
LEMMA FetchedEntries ==
  ASSUME TypeOK, NEW order \in SetToSeqs(FetchedRows),
         m_tasks_map' = [k \in DOMAIN order |-> FetchedTask(order[k][1])]
  PROVE  /\ m_tasks_map' \in Seq(Entries)
         /\ \A k \in DOMAIN m_tasks_map' :
              \E t \in Tasks : DueRecurring(t) /\ m_tasks_map'[k] = FetchedTask(t)
         /\ \A j, k \in DOMAIN m_tasks_map' :
              j # k /\ m_tasks_map'[j].id = m_tasks_map'[k].id
                => row[m_tasks_map'[j].id].files > 1
<1> DEFINE n == Cardinality(FetchedRows)
<1>1. n \in Nat
  BY FetchedRowsFinite
<1>2. /\ order \in [1 .. n -> FetchedRows]
      /\ \A i, j \in 1 .. n : i # j => order[i] # order[j]
  BY DEF SetToSeqs
<1> HIDE DEF n
<1>3. ASSUME NEW k \in 1 .. n
      PROVE  \E t \in Tasks : /\ DueRecurring(t)
                              /\ \E j \in 1 .. JoinRows(t) : order[k] = <<t, j>>
  BY <1>2 DEF FetchedRows
<1>4. DOMAIN m_tasks_map' = 1 .. n
  BY <1>2
<1>5. ASSUME NEW k \in 1 .. n
      PROVE  \E t \in Tasks : DueRecurring(t) /\ m_tasks_map'[k] = FetchedTask(t)
  BY <1>2, <1>3
<1>6. ASSUME NEW t \in Tasks, DueRecurring(t)
      PROVE  FetchedTask(t) \in Entries
  <2>1. rec[t] \in Int /\ row[t] \in Rows /\ now \in Int
    BY DEF TypeOK
  <2>2. time_as_today(rec[t]) \in Int
    BY <2>1, TodayType
  <2>3. QED
    BY <2>1, <2>2 DEF FetchedTask, Entries, Rows
<1>7. m_tasks_map' \in Seq(Entries)
  <2>1. \A k \in 1 .. n : m_tasks_map'[k] \in Entries
    BY <1>5, <1>6
  <2>2. m_tasks_map' \in [1 .. n -> Entries]
    BY <1>2, <2>1
  <2>3. QED
    BY <1>1, <2>2
<1>8. ASSUME NEW j \in 1 .. n, NEW k \in 1 .. n, j # k,
             m_tasks_map'[j].id = m_tasks_map'[k].id
      PROVE  row[m_tasks_map'[j].id].files > 1
  <2>1. PICK t \in Tasks : \E i \in 1 .. JoinRows(t) : order[j] = <<t, i>>
    BY <1>3
  <2>2. PICK i \in 1 .. JoinRows(t) : order[j] = <<t, i>>
    BY <2>1
  <2>3. PICK u \in Tasks : \E h \in 1 .. JoinRows(u) : order[k] = <<u, h>>
    BY <1>3
  <2>4. PICK h \in 1 .. JoinRows(u) : order[k] = <<u, h>>
    BY <2>3
  <2>5. m_tasks_map'[j].id = t /\ m_tasks_map'[k].id = u
    BY <1>2, <2>2, <2>4 DEF FetchedTask
  <2>6. t = u /\ i # h
    BY <1>2, <1>8, <2>2, <2>4, <2>5
  <2>7. row[t].files \in Nat
    BY DEF TypeOK, Rows
  <2>8. QED
    BY <2>5, <2>6, <2>7 DEF JoinRows
<1>9. QED
  BY <1>4, <1>5, <1>7, <1>8
-----------------------------------------------------------------------------
(***************************************************************************)
(* The type invariant.                                                     *)
(***************************************************************************)
\* What a client has yet to write
Writes == [op : {"idle", "insert", "update"}, id : Tasks \cup {NoTask}, row : Rows]

LEMMA IdleType == IdleOp \in Writes /\ IdleOp.op = "idle" /\ NoRow \in Rows
BY DEF IdleOp, Writes, NoRow, Rows, Statuses, NO, SCHEDULED

\* A row that is changed in part is a row, with as many files as before.
LEMMA RowChanges ==
  ASSUME NEW r \in Rows, NEW time \in Int, NEW code \in Nat, NEW completed \in Statuses
  PROVE  /\ [r EXCEPT !.completed = completed] \in Rows
         /\ [r EXCEPT !.completed = completed].files = r.files
         /\ [r EXCEPT !.time = time, !.completed = completed, !.recurring = code] \in Rows
         /\ [r EXCEPT !.time = time, !.completed = completed, !.recurring = code].files
              = r.files
BY DEF Rows

\* Terminate leaves the loop and the clients with nothing to do.
LEMMA TerminateType ==
  ASSUME TypeOK, Terminate
  PROVE  /\ m_tasks_map' \in Seq(Entries) /\ next' \in 1 .. Len(m_tasks_map') + 1
         /\ pc' = "down" /\ err' \in BOOLEAN
         /\ client' \in [Clients -> [op : {"idle", "insert", "update"},
                                     id : Tasks \cup {NoTask}, row : Rows]]
         /\ \A c \in Clients : client'[c].op = "idle"
         /\ touched' \subseteq Tasks
<1>1. m_tasks_map' = <<>> /\ next' = 1 /\ pc' = "down" /\ err' = FALSE /\ touched' = {}
  BY DEF Terminate
<1>2. client' = [c \in Clients |-> IdleOp]
  BY DEF Terminate
<1>3. client' \in [Clients -> Writes] /\ \A c \in Clients : client'[c].op = "idle"
  BY <1>2, IdleType
<1>4. m_tasks_map' \in Seq(Entries) /\ next' \in 1 .. Len(m_tasks_map') + 1
  BY <1>1
<1>5. QED
  BY <1>1, <1>3, <1>4 DEF Writes

LEMMA LoopType ==
  ASSUME TypeOK, LoopStep
  PROVE  TypeOK'
<1> USE DEF TypeOK
<1>1. CASE FetchTasks
  <2>1. UNCHANGED <<scheduled, row, hasRec, rec, now, edits, crashes, attempts>>
    BY <1>1 DEF FetchTasks, tables, bounds
  <2>2. CASE Terminate
    BY <2>1, <2>2, TerminateType
  <2>3. CASE pc' = "fetchRecurring" /\ UNCHANGED <<m_tasks_map, next, err, client, touched>>
    BY <2>1, <2>3
  <2>4. QED
    BY <1>1, <2>2, <2>3 DEF FetchTasks
<1>2. CASE FetchRecurringTasks
  <2>1. m_tasks_map' \in Seq(Entries)
    BY <1>2, FetchedEntries DEF FetchRecurringTasks
  <2>2. QED
    BY <1>2, <2>1 DEF FetchRecurringTasks, tables, bounds
<1>3. CASE ExecuteTask
  <2>1. UNCHANGED <<scheduled, row, hasRec, rec, m_tasks_map, client, now, edits, crashes, touched>>
    BY <1>3 DEF ExecuteTask, tables, bounds
  <2>2. next \in DOMAIN m_tasks_map /\ pc' \in {"status", "execute"} /\ err' \in BOOLEAN
    BY <1>3 DEF ExecuteTask
  <2>3. next' \in 1 .. Len(m_tasks_map) + 1 /\ (pc' = "status" => next' = next)
    BY <1>3, <2>2 DEF ExecuteTask
  <2>4. \A n \in Nat : AtMostPlenty(n + 1) \in Nat
    BY BoundsAssumption DEF AtMostPlenty, Plenty
  <2>5. attempts' \in [Tasks -> Nat]
    BY <1>3, <2>4 DEF ExecuteTask
  <2>6. QED
    BY <2>1, <2>2, <2>3, <2>5
<1>4. CASE UpdateStatus
  <2> DEFINE k    == FindTask
             done == CompletedBy(m_tasks_map[k], err)
  <2>1. next \in DOMAIN m_tasks_map
    BY <1>4 DEF UpdateStatus
  <2>2. k \in DOMAIN m_tasks_map /\ m_tasks_map[k] \in Entries
    BY <2>1, FindTaskFinds
  <2>3. done \in Statuses
    BY DEF CompletedBy, Statuses
  <2>4. m_tasks_map[k].datetime \in Int /\ Running.id \in Tasks
    <3>1. \A e \in Entries : e.datetime \in Int /\ e.id \in Tasks
      BY DEF Entries
    <3>2. Running \in Entries
      BY <2>1 DEF Running
    <3> HIDE DEF k
    <3>3. QED
      BY <2>2, <3>1, <3>2
  <2>5. m_tasks_map' \in Seq(Entries) /\ Len(m_tasks_map') = Len(m_tasks_map)
    <3> HIDE DEF k, done
    <3>1. m_tasks_map' = [m_tasks_map EXCEPT ![k].completed = done]
      BY <1>4 DEF UpdateStatus, k, done
    <3>2. [m_tasks_map[k] EXCEPT !.completed = done] \in Entries
      BY <2>2, <2>3 DEF Entries
    <3>3. QED
      BY <2>2, <3>1, <3>2
  <2>6. Triggered(Running.id) \subseteq Tasks
    BY <2>4, TriggerAssumption DEF Triggered
  <2>7. row' \in [Tasks -> Rows]
    <3> HIDE DEF k, done
    <3>1. \A r \in Rows : [r EXCEPT !.completed = done] \in Rows
      BY <2>3 DEF Rows
    <3>2. [NoRow EXCEPT !.time = m_tasks_map[k].datetime] \in Rows
      BY <2>4 DEF NoRow, Rows, Statuses, NO, SCHEDULED
    <3>3. row' = [u \in Tasks |->
                     IF u = Running.id THEN [row[u] EXCEPT !.completed = done]
                     ELSE IF u \in Triggered(Running.id)
                       THEN [NoRow EXCEPT !.time = m_tasks_map[k].datetime]
                     ELSE row[u]]
      BY <1>4 DEF UpdateStatus, k, done
    <3>4. QED
      BY <3>1, <3>2, <3>3
  <2>8. /\ scheduled' = scheduled \cup Triggered(Running.id)
        /\ pc' \in {"recur", "record"}
        /\ attempts' \in [Tasks -> Nat]
        /\ UNCHANGED <<hasRec, rec, next, err, client, now, edits, crashes, touched>>
    BY <1>4 DEF UpdateStatus, bounds
  <2> HIDE DEF k, done
  <2>9. QED
    BY <2>1, <2>5, <2>6, <2>7, <2>8
<1>5. CASE UpdateRecurring
  <2> DEFINE entry == m_tasks_map[FindTask]
  <2>1. next \in DOMAIN m_tasks_map
    BY <1>5 DEF UpdateRecurring
  <2>2. entry \in Entries
    BY <2>1, FindTaskFinds
  <2>3. entry.datetime + GetIntervalSeconds(entry.recurring) \in Int
    BY <2>2, IntervalType DEF Entries
  <2>4. rec' \in [Tasks -> Int]
    BY <1>5, <2>3 DEF UpdateRecurring
  <2> HIDE DEF entry
  <2>5. QED
    BY <1>5, <2>1, <2>4 DEF UpdateRecurring, bounds
<1>6. CASE RecordCompletion
  <2>1. next \in DOMAIN m_tasks_map
    BY <1>6 DEF RecordCompletion
  <2>2. row' \in [Tasks -> Rows]
    <3> DEFINE id   == Running.id
               done == IF err THEN row[id].completed
                       ELSE IF Running.recurring # NO THEN SCHEDULED ELSE SUCCESS
    <3>1. id \in Tasks
      <4>1. \A e \in Entries : e.id \in Tasks
        BY DEF Entries
      <4>2. QED
        BY <2>1, <4>1 DEF Running
    <3>2. row[id].completed \in Statuses
      BY <3>1 DEF Rows
    <3>3. done \in Statuses
      BY <3>2 DEF Statuses
    <3>4. row' = [row EXCEPT ![id].completed = done]
      BY <1>6 DEF RecordCompletion
    <3> HIDE DEF id, done
    <3>5. [row[id] EXCEPT !.completed = done] \in Rows
      BY <3>1, <3>3, RowChanges
    <3>6. QED
      BY <3>1, <3>4, <3>5
  <2>3. QED
    BY <1>6, <2>1, <2>2 DEF RecordCompletion, bounds
<1>7. CASE ClearTasks
  BY <1>7 DEF ClearTasks, tables, bounds
<1>8. QED
  BY <1>1, <1>2, <1>3, <1>4, <1>5, <1>6, <1>7 DEF LoopStep

LEMMA ClientType ==
  ASSUME TypeOK, NEW c \in Clients, ClientStep(c)
  PROVE  TypeOK'
<1> USE DEF TypeOK
<1>0. IdleOp \in [op : {"idle", "insert", "update"}, id : Tasks \cup {NoTask}, row : Rows]
  BY IdleType DEF Writes
<1>1. ASSUME NEW t \in Tasks, ScheduleInsert(c, t)
      PROVE  TypeOK'
  <2>1. PICK time \in Times, code \in Codes, files \in FileCounts :
          LET new == [time |-> time, completed |-> SCHEDULED,
                      recurring |-> code, files |-> files]
          IN /\ row' = [row EXCEPT ![t] = new]
             /\ client' = [client EXCEPT ![c] =
                  IF code # NO THEN [op |-> "insert", id |-> t, row |-> new] ELSE @]
    BY <1>1 DEF ScheduleInsert
  <2> DEFINE new == [time |-> time, completed |-> SCHEDULED,
                     recurring |-> code, files |-> files]
  <2>2. new \in Rows
    BY InputsAssumption DEF Rows, Statuses
  <2> HIDE DEF new
  <2>3. row' \in [Tasks -> Rows]
    BY <2>1, <2>2 DEF new
  <2>4. [op |-> "insert", id |-> t, row |-> new]
          \in [op : {"idle", "insert", "update"}, id : Tasks \cup {NoTask}, row : Rows]
    BY <2>2
  <2>5. client' \in [Clients -> [op : {"idle", "insert", "update"},
                                 id : Tasks \cup {NoTask}, row : Rows]]
    BY <2>1, <2>4 DEF new
  <2>6. \A d \in Clients : client'[d].op # "idle" => client'[d].id \in scheduled \cup {t}
    BY <2>1 DEF new
  <2>7. QED
    BY <1>1, <2>3, <2>5, <2>6 DEF ScheduleInsert, loopVars, bounds
<1>2. ASSUME NEW t \in Tasks, Update(c, t)
      PROVE  TypeOK'
  <2>1. PICK time \in Times, code \in Codes, completed \in Statuses :
          LET new == [row[t] EXCEPT !.time = time, !.completed = completed,
                                    !.recurring = code]
          IN /\ client' = [client EXCEPT ![c] =
                              [op |-> "update", id |-> t, row |-> new]]
             /\ IF code # NO
                  THEN /\ hasRec' = hasRec \cup {t}
                       /\ rec' = [rec EXCEPT ![t] = FirstTime(new)]
                  ELSE UNCHANGED <<hasRec, rec>>
    BY <1>2 DEF Update
  <2> DEFINE new == [row[t] EXCEPT !.time = time, !.completed = completed,
                                   !.recurring = code]
  <2>2. new \in Rows
    BY InputsAssumption, RowChanges
  <2> HIDE DEF new
  <2>3. FirstTime(new) \in Int
    BY <2>2, IntervalType DEF FirstTime, Rows
  <2>4. rec' \in [Tasks -> Int] /\ hasRec' \subseteq Tasks
    BY <2>1, <2>3 DEF new
  <2>5. [op |-> "update", id |-> t, row |-> new]
          \in [op : {"idle", "insert", "update"}, id : Tasks \cup {NoTask}, row : Rows]
    BY <2>2
  <2>6. client' \in [Clients -> [op : {"idle", "insert", "update"},
                                 id : Tasks \cup {NoTask}, row : Rows]]
    BY <2>1, <2>5 DEF new
  <2>7. \A d \in Clients : client'[d].op # "idle" => client'[d].id \in scheduled
    BY <1>2, <2>1 DEF new, Update
  <2>8. QED
    BY <1>2, <2>4, <2>6, <2>7 DEF Update, loopVars
<1>3. CASE InsertRecurring(c)
  <2>1. client[c].id \in Tasks /\ client[c].row \in Rows
    BY <1>3 DEF InsertRecurring
  <2>2. FirstTime(client[c].row) \in Int
    BY <2>1, IntervalType DEF FirstTime, Rows
  <2>3. QED
    BY <1>0, <1>3, <2>1, <2>2 DEF InsertRecurring, IdleOp, loopVars, bounds
<1>4. CASE InsertFails(c)
  BY <1>0, <1>4 DEF InsertFails, IdleOp, tables, loopVars, bounds
<1>5. CASE UpdateSchedule(c)
  <2>1. client[c].id \in Tasks /\ client[c].row \in Rows
    BY <1>5 DEF UpdateSchedule
  <2>2. QED
    BY <1>0, <1>5, <2>1 DEF UpdateSchedule, IdleOp, loopVars, bounds
<1>6. QED
  BY <1>1, <1>2, <1>3, <1>4, <1>5 DEF ClientStep

LEMMA TypeStep == TypeOK /\ [Next]_vars => TypeOK'
<1> SUFFICES ASSUME TypeOK, [Next]_vars PROVE TypeOK'
  OBVIOUS
<1>1. CASE Tick
  BY <1>1 DEF TypeOK, Tick, tables, loopVars
<1>2. CASE Crash
  <2>1. Terminate /\ UNCHANGED <<scheduled, row, hasRec, rec, now, edits, attempts>>
        /\ crashes' = crashes + 1
    BY <1>2 DEF Crash, tables
  <2>2. QED
    BY <2>1, TerminateType DEF TypeOK
<1>3. CASE Restart
  BY <1>3 DEF TypeOK, Restart, tables, bounds
<1>4. CASE UNCHANGED vars
  BY <1>4 DEF TypeOK, vars
<1>5. QED
  BY <1>1, <1>2, <1>3, <1>4, LoopType, ClientType DEF Next

LEMMA TypeInit == Init => TypeOK
<1> SUFFICES ASSUME Init PROVE TypeOK
  OBVIOUS
<1>1. client \in [Clients -> Writes] /\ \A c \in Clients : client[c].op = "idle"
  BY IdleType DEF Init
<1>2. row \in [Tasks -> Rows]
  BY IdleType DEF Init
<1>3. m_tasks_map \in Seq(Entries) /\ next \in 1 .. Len(m_tasks_map) + 1
  BY DEF Init
<1>4. /\ scheduled = {} /\ hasRec = {} /\ rec \in [Tasks -> Int] /\ pc = "fetch"
      /\ now = 0 /\ edits = 0 /\ crashes = 0 /\ touched = {}
      /\ attempts \in [Tasks -> Nat]
  BY DEF Init
<1>5. err \in BOOLEAN
  BY Zenon DEF Init
<1>6. QED
  BY <1>1, <1>2, <1>3, <1>4, <1>5 DEF TypeOK, Writes

\* The tables, the entries the loop has fetched and what the clients have yet
\* to write keep their types; the loop's index and the task a client writes
\* always name something (controller.cpp HandlePendingTasks, scheduler.cpp).
THEOREM TypeCorrect == Spec => []TypeOK
BY TypeInit, TypeStep, PTL DEF Spec
-----------------------------------------------------------------------------
(***************************************************************************)
(* The inductive invariant.                                                *)
(***************************************************************************)
\* The loop runs only tasks that are scheduled.
EntriesScheduled == \A k \in DOMAIN m_tasks_map : m_tasks_map[k].id \in scheduled

\* What a client has yet to write leaves the files of a task as they are.
FilesKept ==
  \A c \in Clients : client[c].op # "idle" => client[c].row.files = row[client[c].id].files

\* Only a task with several files is fetched more than once.
OneEntry ==
  \A j, k \in DOMAIN m_tasks_map :
    j # k /\ m_tasks_map[j].id = m_tasks_map[k].id => row[m_tasks_map[j].id].files > 1

\* The failed runs that a status accounts for
Level(completed) == CASE completed = SCHEDULED -> 0
                      [] completed = FAILED    -> 1
                      [] OTHER                 -> 2

\* The entries that HandlePendingTasks has yet to run
ToRun(k) == k > next \/ (k = next /\ pc = "execute")

\* A run has failed and its outcome is not written yet.
InFlight(t) == pc = "status" /\ err /\ Running.id = t

RowCounted(t) ==
  attempts[t] <= crashes + Level(row[t].completed) + (IF InFlight(t) THEN 1 ELSE 0)

\* The copy that the loop has fetched, which decides the outcome, whatever a
\* client has made of the row meanwhile
EntryCounted(k) ==
  /\ ToRun(k) =>
       /\ m_tasks_map[k].completed \in {SCHEDULED, FAILED}
       /\ attempts[m_tasks_map[k].id] <= crashes + Level(m_tasks_map[k].completed)
  /\ k = next /\ pc = "status" /\ err =>
       /\ m_tasks_map[k].completed \in {SCHEDULED, FAILED}
       /\ attempts[m_tasks_map[k].id] <= crashes + Level(m_tasks_map[k].completed) + 1
  /\ k = next /\ pc \in {"status", "recur", "record"} /\ ~err =>
       attempts[m_tasks_map[k].id] = 0

RowsCounted    == \A t \in scheduled : row[t].files <= 1 => RowCounted(t)
EntriesCounted == \A k \in DOMAIN m_tasks_map :
                    row[m_tasks_map[k].id].files <= 1 => EntryCounted(k)

\* An entry that no client has touched since it was fetched: its recurrence is
\* the row's, and its time is not before that of the table "recurring", unless
\* updateRecurring has already moved that on.
InStep(k) ==
  m_tasks_map[k].id \notin touched =>
    /\ m_tasks_map[k].recurring = row[m_tasks_map[k].id].recurring
    /\ \/ rec[m_tasks_map[k].id] <= m_tasks_map[k].datetime
       \/ rec[m_tasks_map[k].id]
            = m_tasks_map[k].datetime + GetIntervalSeconds(m_tasks_map[k].recurring)

EntriesInStep ==
  /\ \A k \in DOMAIN m_tasks_map : InStep(k)
  /\ \A j, k \in DOMAIN m_tasks_map :
       m_tasks_map[j].id = m_tasks_map[k].id
         => m_tasks_map[j].datetime = m_tasks_map[k].datetime

Structure == EntriesScheduled /\ FilesKept /\ OneEntry
IInv == TypeOK /\ Structure /\ RowsCounted /\ EntriesCounted /\ EntriesInStep
-----------------------------------------------------------------------------
(***************************************************************************)
(* Steps keep the entries apart and the files of a task.                   *)
(***************************************************************************)
\* A task that is scheduled stays so, with as many files.
LEMMA FilesStay ==
  ASSUME TypeOK, FilesKept, [Next]_vars
  PROVE  scheduled \subseteq scheduled' /\ \A t \in scheduled : row'[t].files = row[t].files
<1> USE DEF TypeOK
<1>1. CASE UpdateStatus
  <2> DEFINE done == CompletedBy(m_tasks_map[FindTask], err)
             new  == [NoRow EXCEPT !.time = m_tasks_map[FindTask].datetime]
  <2>1. row' = [u \in Tasks |-> IF u = Running.id THEN [row[u] EXCEPT !.completed = done]
                                ELSE IF u \in Triggered(Running.id) THEN new
                                ELSE row[u]]
    BY <1>1 DEF UpdateStatus
  <2>2. \A u \in scheduled : u \notin Triggered(Running.id)
    BY DEF Triggered
  <2>3. done \in Statuses
    BY DEF CompletedBy, Statuses
  <2> HIDE DEF done, new
  <2>4. \A u \in scheduled : [row[u] EXCEPT !.completed = done].files = row[u].files
    BY <2>3 DEF Rows
  <2>5. scheduled \subseteq scheduled'
    BY <1>1 DEF UpdateStatus
  <2>6. QED
    BY <2>1, <2>2, <2>4, <2>5
<1>2. CASE RecordCompletion
  <2>1. scheduled' = scheduled
    BY <1>2 DEF RecordCompletion
  <2> DEFINE done == IF err THEN row[Running.id].completed
                     ELSE IF Running.recurring # NO THEN SCHEDULED ELSE SUCCESS
  <2>2. row' = [row EXCEPT ![Running.id].completed = done]
    BY <1>2 DEF RecordCompletion
  <2> HIDE DEF done
  <2>3. \A u \in Tasks : \/ row'[u] = row[u]
                          \/ row'[u] = [row[u] EXCEPT !.completed = done]
    BY <2>2
  <2>4. \A u \in Tasks : [row[u] EXCEPT !.completed = done].files = row[u].files
    BY DEF Rows
  <2>5. QED
    BY <2>1, <2>3, <2>4
<1>3. ASSUME NEW c \in Clients, NEW t \in Tasks, ScheduleInsert(c, t)
      PROVE  /\ scheduled \subseteq scheduled'
             /\ \A u \in scheduled : row'[u] = row[u]
  BY <1>3 DEF ScheduleInsert
<1>4. ASSUME NEW c \in Clients, UpdateSchedule(c)
      PROVE  /\ scheduled' = scheduled
             /\ \A u \in scheduled : row'[u].files = row[u].files
  BY <1>4 DEF UpdateSchedule, FilesKept
<1>5. ASSUME \/ FetchTasks \/ FetchRecurringTasks \/ ExecuteTask \/ UpdateRecurring
             \/ ClearTasks \/ Tick \/ Crash \/ Restart \/ UNCHANGED vars
             \/ \E c \in Clients : \/ InsertRecurring(c) \/ InsertFails(c)
                                   \/ \E t \in Tasks : Update(c, t)
      PROVE  UNCHANGED <<scheduled, row>>
  BY <1>5 DEF FetchTasks, FetchRecurringTasks, ExecuteTask, UpdateRecurring, ClearTasks,
              Tick, Crash, Restart, vars, InsertRecurring, InsertFails, Update, tables
<1>6. QED
  BY <1>1, <1>2, <1>3, <1>4, <1>5 DEF Next, LoopStep, ClientStep

\* The loop fetches, forgets, or keeps its entries but for their status.
LEMMA EntriesKeep ==
  ASSUME TypeOK, [Next]_vars
  PROVE  \/ FetchRecurringTasks
         \/ m_tasks_map' = <<>>
         \/ /\ DOMAIN m_tasks_map' = DOMAIN m_tasks_map
            /\ \A k \in DOMAIN m_tasks_map :
                 /\ m_tasks_map'[k].id = m_tasks_map[k].id
                 /\ m_tasks_map'[k].datetime = m_tasks_map[k].datetime
                 /\ m_tasks_map'[k].recurring = m_tasks_map[k].recurring
<1> USE DEF TypeOK
<1>1. CASE UpdateStatus
  <2> DEFINE done == CompletedBy(m_tasks_map[FindTask], err)
  <2>1. m_tasks_map' = [m_tasks_map EXCEPT ![FindTask].completed = done]
    BY <1>1 DEF UpdateStatus
  <2>2. FindTask \in DOMAIN m_tasks_map
    BY <1>1, FindTaskFinds DEF UpdateStatus
  <2> HIDE DEF done
  <2>3. \A e \in Entries : /\ [e EXCEPT !.completed = done].id = e.id
                           /\ [e EXCEPT !.completed = done].datetime = e.datetime
                           /\ [e EXCEPT !.completed = done].recurring = e.recurring
    BY DEF Entries
  <2>4. /\ DOMAIN m_tasks_map' = DOMAIN m_tasks_map
        /\ \A k \in DOMAIN m_tasks_map :
             \/ m_tasks_map'[k] = m_tasks_map[k]
             \/ m_tasks_map'[k] = [m_tasks_map[k] EXCEPT !.completed = done]
    BY <2>1
  <2>5. \A k \in DOMAIN m_tasks_map : m_tasks_map[k] \in Entries
    OBVIOUS
  <2>6. QED
    BY <2>3, <2>4, <2>5
<1>2. ASSUME FetchTasks \/ ClearTasks \/ Crash
      PROVE  m_tasks_map' = <<>> \/ m_tasks_map' = m_tasks_map
  BY <1>2 DEF FetchTasks, ClearTasks, Crash, Terminate
<1>3. ASSUME \/ ExecuteTask \/ UpdateRecurring \/ RecordCompletion
             \/ Tick \/ Restart \/ UNCHANGED vars \/ \E c \in Clients : ClientStep(c)
      PROVE  m_tasks_map' = m_tasks_map
  BY <1>3 DEF ExecuteTask, UpdateRecurring, RecordCompletion, Tick, Restart, vars, loopVars,
              ClientStep, ScheduleInsert, Update, InsertRecurring, InsertFails, UpdateSchedule
<1>4. QED
  BY <1>1, <1>2, <1>3 DEF Next, LoopStep

LEMMA StructureStep ==
  ASSUME TypeOK, Structure, [Next]_vars
  PROVE  Structure'
<1> USE DEF TypeOK
<1>0. EntriesScheduled /\ FilesKept /\ OneEntry
  BY DEF Structure
<1>1. scheduled \subseteq scheduled' /\ \A t \in scheduled : row'[t].files = row[t].files
  BY <1>0, FilesStay
<1>2. EntriesScheduled' /\ OneEntry'
  <2>1. CASE FetchRecurringTasks
    <3>1. PICK order \in SetToSeqs(FetchedRows) :
            m_tasks_map' = [k \in DOMAIN order |-> FetchedTask(order[k][1])]
      BY <2>1 DEF FetchRecurringTasks
    <3>2. /\ \A k \in DOMAIN m_tasks_map' :
               \E t \in Tasks : DueRecurring(t) /\ m_tasks_map'[k] = FetchedTask(t)
          /\ \A j, k \in DOMAIN m_tasks_map' :
               j # k /\ m_tasks_map'[j].id = m_tasks_map'[k].id
                 => row[m_tasks_map'[j].id].files > 1
      BY <3>1, FetchedEntries
    <3>3. \A t \in Tasks : DueRecurring(t) => FetchedTask(t).id \in scheduled
      BY DEF FetchedTask, DueRecurring, Pending
    <3>4. UNCHANGED <<scheduled, row>>
      BY <2>1 DEF FetchRecurringTasks, tables
    <3>5. EntriesScheduled'
      BY <3>2, <3>3, <3>4 DEF EntriesScheduled
    <3>6. OneEntry'
      BY <3>2, <3>4 DEF OneEntry
    <3>7. QED
      BY <3>5, <3>6
  <2>2. CASE m_tasks_map' = <<>>
    BY <2>2 DEF EntriesScheduled, OneEntry
  <2>3. CASE /\ DOMAIN m_tasks_map' = DOMAIN m_tasks_map
             /\ \A k \in DOMAIN m_tasks_map : m_tasks_map'[k].id = m_tasks_map[k].id
    <3>1. EntriesScheduled'
      BY <1>0, <1>1, <2>3 DEF EntriesScheduled
    <3>2. OneEntry'
      BY <1>0, <1>1, <2>3 DEF EntriesScheduled, OneEntry
    <3>3. QED
      BY <3>1, <3>2
  <2>4. QED
    BY <2>1, <2>2, <2>3, EntriesKeep
<1>3. FilesKept'
  <2>1. ASSUME NEW c \in Clients, NEW t \in Tasks, ScheduleInsert(c, t)
        PROVE  FilesKept'
    <3>1. PICK time \in Times, code \in Codes, files \in FileCounts :
            LET new == [time |-> time, completed |-> SCHEDULED,
                        recurring |-> code, files |-> files]
            IN /\ row' = [row EXCEPT ![t] = new]
               /\ client' = [client EXCEPT ![c] =
                    IF code # NO THEN [op |-> "insert", id |-> t, row |-> new] ELSE @]
      BY <2>1 DEF ScheduleInsert
    <3>2. client[c].op = "idle"
      BY <2>1, IdleType DEF ScheduleInsert
    <3>3. ASSUME NEW d \in Clients, client'[d].op # "idle"
          PROVE  client'[d].row.files = row'[client'[d].id].files
      <4>1. CASE d = c
        BY <3>1, <3>2, <3>3, <4>1
      <4>2. CASE d # c
        BY <1>0, <1>1, <3>1, <3>3, <4>2 DEF FilesKept
      <4>3. QED
        BY <4>1, <4>2
    <3>4. QED
      BY <3>3 DEF FilesKept
  <2>2. ASSUME NEW c \in Clients, NEW t \in Tasks, Update(c, t)
        PROVE  FilesKept'
    <3>1. PICK time \in Times, code \in Codes, completed \in Statuses :
            client' = [client EXCEPT ![c] =
                        [op |-> "update", id |-> t,
                         row |-> [row[t] EXCEPT !.time = time, !.completed = completed,
                                                !.recurring = code]]]
      BY <2>2 DEF Update
    <3> DEFINE new == [row[t] EXCEPT !.time = time, !.completed = completed,
                                     !.recurring = code]
    <3>2. row[t] \in Rows /\ time \in Int /\ code \in Nat
      BY InputsAssumption
    <3>3. \A r \in Rows : [r EXCEPT !.time = time, !.completed = completed,
                                    !.recurring = code].files = r.files
      BY <3>2 DEF Rows
    <3>4. new.files = row[t].files
      BY <3>2, <3>3
    <3> HIDE DEF new
    <3>5. client' = [client EXCEPT ![c] = [op |-> "update", id |-> t, row |-> new]]
      BY <3>1 DEF new
    <3>6. UNCHANGED row
      BY <2>2 DEF Update
    <3>7. QED
      BY <1>0, <3>4, <3>5, <3>6 DEF FilesKept
  <2>3. ASSUME NEW c \in Clients, InsertRecurring(c) \/ InsertFails(c) \/ UpdateSchedule(c)
        PROVE  FilesKept'
    <3>1. client' = [client EXCEPT ![c] = IdleOp]
      BY <2>3 DEF InsertRecurring, InsertFails, UpdateSchedule
    <3>2. QED
      BY <1>0, <1>1, <3>1, IdleType DEF FilesKept
  <2>4. CASE Terminate
    BY <2>4, TerminateType DEF FilesKept
  <2>5. CASE UNCHANGED client
    BY <1>0, <1>1, <2>5 DEF FilesKept
  <2>6. LoopStep => Terminate \/ UNCHANGED client
    BY DEF LoopStep, FetchTasks, FetchRecurringTasks, ExecuteTask, UpdateStatus,
           UpdateRecurring, RecordCompletion, ClearTasks
  <2>7. Tick \/ Crash \/ Restart \/ UNCHANGED vars => Terminate \/ UNCHANGED client
    BY DEF Tick, Crash, Restart, vars
  <2>8. QED
    BY <2>1, <2>2, <2>3, <2>4, <2>5, <2>6, <2>7 DEF Next, ClientStep
<1>4. QED
  BY <1>2, <1>3 DEF Structure
-----------------------------------------------------------------------------
(***************************************************************************)
(* Failed runs are counted.                                                *)
(***************************************************************************)
Counted == RowsCounted /\ EntriesCounted

LEMMA LevelType ==
  ASSUME NEW completed
  PROVE  Level(completed) \in 0 .. 2
BY DEF Level

\* The facts about one task or entry that the steps start from
LEMMA CountedFacts ==
  ASSUME TypeOK
  PROVE  /\ crashes \in Nat
         /\ \A t \in Tasks : attempts[t] \in Nat /\ row[t] \in Rows /\ row[t].files \in Nat
         /\ \A k \in DOMAIN m_tasks_map : m_tasks_map[k] \in Entries /\ m_tasks_map[k].id \in Tasks
         /\ next \in Nat /\ DOMAIN m_tasks_map \subseteq Nat
<1>1. \A r \in Rows : r.files \in Nat
  BY DEF Rows
<1>2. \A e \in Entries : e.id \in Tasks
  BY DEF Entries
<1>3. \A k \in DOMAIN m_tasks_map : m_tasks_map[k] \in Entries
  BY DEF TypeOK
<1>4. QED
  BY <1>1, <1>2, <1>3 DEF TypeOK

LEMMA ExecuteCounted ==
  ASSUME TypeOK, Structure, Counted, ExecuteTask
  PROVE  Counted'
<1>0. /\ EntriesScheduled /\ OneEntry /\ RowsCounted /\ EntriesCounted
      /\ next \in DOMAIN m_tasks_map /\ pc = "execute"
      /\ UNCHANGED <<scheduled, row, m_tasks_map, crashes>>
  BY DEF Structure, Counted, ExecuteTask, TypeOK, tables, bounds
<1>1. CASE Running.id \notin Runnable
  <2>1. next' = next + 1 /\ UNCHANGED <<pc, err, attempts>>
    BY <1>1 DEF ExecuteTask
  <2>2. RowsCounted'
    BY <1>0, <2>1 DEF RowsCounted, RowCounted, InFlight
  <2>3. EntriesCounted'
    BY <1>0, <2>1, CountedFacts DEF EntriesCounted, EntryCounted, ToRun
  <2>4. QED
    BY <2>2, <2>3 DEF Counted
<1>2. CASE Running.id \in Runnable
  <2>1. PICK e \in BOOLEAN :
          /\ err' = e /\ pc' = "status" /\ next' = next
          /\ attempts' = [attempts EXCEPT ![Running.id] = IF e THEN AtMostPlenty(@ + 1) ELSE 0]
    BY <1>2 DEF ExecuteTask
  <2>2. Running.id \in Tasks /\ Running' = Running
    BY <1>0, <2>1, CountedFacts DEF Running
  <2>3. \A n \in Nat : AtMostPlenty(n + 1) <= n + 1
    BY BoundsAssumption DEF AtMostPlenty, Plenty
  <2>4. attempts'[Running.id] <= attempts[Running.id] + 1
    BY <2>1, <2>2, <2>3, CountedFacts DEF TypeOK
  <2>5. \A t \in Tasks : t # Running.id => attempts'[t] = attempts[t]
    BY <2>1 DEF TypeOK
  <2>6. ~e => attempts'[Running.id] = 0
    BY <2>1, <2>2 DEF TypeOK
  <2>7. attempts'[Running.id] \in Nat
    <3>1. \A n \in Nat : AtMostPlenty(n + 1) \in Nat
      BY BoundsAssumption DEF AtMostPlenty, Plenty
    <3>2. QED
      BY <2>1, <2>2, <3>1, CountedFacts DEF TypeOK
  <2>8. ASSUME NEW t \in scheduled, row[t].files <= 1
        PROVE  RowCounted(t)'
    <3>1. RowCounted(t) /\ t \in Tasks /\ ~InFlight(t)
      BY <1>0, <2>8 DEF RowsCounted, TypeOK, InFlight
    <3>2. Level(row[t].completed) \in 0 .. 2 /\ crashes \in Nat
      BY LevelType, CountedFacts
    <3>3. CASE t # Running.id
      <4>1. ~InFlight(t)'
        BY <2>2, <3>3 DEF InFlight
      <4>2. QED
        BY <1>0, <2>5, <3>1, <3>3, <4>1 DEF RowCounted
    <3>4. CASE t = Running.id /\ e
      <4>1. InFlight(t)'
        BY <2>1, <2>2, <3>4 DEF InFlight
      <4>2. attempts[t] <= crashes + Level(row[t].completed)
        BY <3>1, <3>2 DEF RowCounted
      <4>3. attempts[t] \in Nat /\ attempts'[t] \in Nat /\ attempts'[t] <= attempts[t] + 1
        BY <2>4, <2>7, <3>1, <3>4, CountedFacts
      <4>4. attempts'[t] <= crashes + Level(row[t].completed) + 1
        BY <3>2, <4>2, <4>3
      <4>5. QED
        BY <1>0, <3>2, <4>1, <4>4 DEF RowCounted
    <3>5. CASE t = Running.id /\ ~e
      <4>1. attempts'[t] = 0
        BY <2>6, <3>5
      <4>2. QED
        BY <1>0, <3>2, <4>1 DEF RowCounted
    <3>6. QED
      BY <3>3, <3>4, <3>5
  <2>9. ASSUME NEW k \in DOMAIN m_tasks_map, row[m_tasks_map[k].id].files <= 1
        PROVE  EntryCounted(k)'
    <3>1. EntryCounted(k) /\ k \in Nat /\ next \in Nat /\ m_tasks_map[k].id \in Tasks
      BY <1>0, <2>9, CountedFacts DEF EntriesCounted
    <3>2. CASE k = next
      <4>1. ToRun(k) /\ ~ToRun(k)' /\ m_tasks_map[k].id = Running.id
        BY <1>0, <2>1, <3>1, <3>2 DEF ToRun, Running
      <4>2. Level(m_tasks_map[k].completed) \in 0 .. 2 /\ crashes \in Nat
        BY LevelType, CountedFacts
      <4>3. /\ m_tasks_map[k].completed \in {SCHEDULED, FAILED}
            /\ attempts'[Running.id] <= crashes + Level(m_tasks_map[k].completed) + 1
        BY <2>2, <2>4, <2>7, <3>1, <4>1, <4>2, CountedFacts DEF EntryCounted
      <4>4. QED
        BY <1>0, <2>1, <2>6, <4>1, <4>3 DEF EntryCounted
    <3>3. CASE k # next
      <4>1. m_tasks_map[k].id # Running.id
        BY <1>0, <2>9, <3>3, CountedFacts DEF OneEntry, Running
      <4>2. QED
        BY <1>0, <2>1, <2>5, <3>1, <3>3, <4>1 DEF EntryCounted, ToRun
    <3>4. QED
      BY <3>2, <3>3
  <2>10. QED
    BY <1>0, <2>8, <2>9 DEF Counted, RowsCounted, EntriesCounted
<1>3. QED
  BY <1>1, <1>2

LEMMA StatusCounted ==
  ASSUME TypeOK, Structure, Counted, UpdateStatus
  PROVE  Counted'
<1> DEFINE k0   == FindTask
           id   == Running.id
           done == CompletedBy(m_tasks_map[k0], err)
<1>0. /\ EntriesScheduled /\ OneEntry /\ RowsCounted /\ EntriesCounted
      /\ next \in DOMAIN m_tasks_map /\ pc = "status" /\ pc' \in {"recur", "record"}
      /\ UNCHANGED <<next, err, crashes>>
  BY DEF Structure, Counted, UpdateStatus, TypeOK, bounds
<1>1. k0 \in DOMAIN m_tasks_map /\ m_tasks_map[k0].id = id /\ k0 <= next
  BY <1>0, FindTaskFinds DEF TypeOK
<1>2. id \in scheduled /\ id \in Tasks
  BY <1>0 DEF EntriesScheduled, Running, TypeOK
<1>3. /\ m_tasks_map' = [m_tasks_map EXCEPT ![k0].completed = done]
      /\ scheduled' = scheduled \cup Triggered(id)
      /\ row' = [u \in Tasks |->
                   IF u = id THEN [row[u] EXCEPT !.completed = done]
                   ELSE IF u \in Triggered(id)
                     THEN [NoRow EXCEPT !.time = m_tasks_map[k0].datetime]
                   ELSE row[u]]
      /\ attempts' = [u \in Tasks |-> IF u \in Triggered(id) /\ u # id THEN 0 ELSE attempts[u]]
  BY DEF UpdateStatus
<1>4. Triggered(id) \subseteq Tasks /\ \A u \in scheduled : u \notin Triggered(id)
  BY <1>2, TriggerAssumption DEF Triggered
<1>5. row'[id].completed = done /\ row'[id].files = row[id].files
  <2>1. \A r \in Rows : /\ [r EXCEPT !.completed = done].completed = done
                        /\ [r EXCEPT !.completed = done].files = r.files
    BY DEF Rows
  <2> HIDE DEF done, id, k0
  <2>2. QED
    BY <1>2, <1>3, <2>1, CountedFacts
<1>6. \A u \in scheduled : /\ attempts'[u] = attempts[u]
                           /\ u # id => row'[u] = row[u]
  BY <1>3, <1>4 DEF TypeOK
<1>7. /\ DOMAIN m_tasks_map' = DOMAIN m_tasks_map
      /\ \A k \in DOMAIN m_tasks_map : /\ m_tasks_map'[k].id = m_tasks_map[k].id
                                       /\ k # k0 => m_tasks_map'[k] = m_tasks_map[k]
  <2>1. \A e \in Entries : [e EXCEPT !.completed = done].id = e.id
    BY DEF Entries
  <2> HIDE DEF done, id, k0
  <2>2. QED
    BY <1>1, <1>3, <2>1, CountedFacts
<1> DEFINE of == m_tasks_map[next].completed
<1>8. row[id].files <= 1 => k0 = next /\ EntryCounted(next)
  BY <1>0, <1>1, <1>2, CountedFacts DEF OneEntry, EntriesCounted, Running
<1>9. row[id].files <= 1 => attempts[id] <= crashes + Level(done)
  <2>1. attempts[id] \in Nat /\ crashes \in Nat /\ Level(done) \in 0 .. 2
    BY <1>2, LevelType, CountedFacts
  <2>2. CASE err
    <3>1. row[id].files <= 1 => /\ of \in {SCHEDULED, FAILED}
                                /\ attempts[id] <= crashes + Level(of) + 1
      BY <1>0, <1>8, <2>2 DEF EntryCounted, Running
    <3>2. row[id].files <= 1 => done = IF of = FAILED THEN RETRY_FAIL ELSE FAILED
      BY <1>8, <2>2 DEF CompletedBy
    <3> HIDE DEF id, done, of
    <3>3. QED
      BY <2>1, <3>1, <3>2 DEF Level, SCHEDULED, FAILED, RETRY_FAIL
  <2>3. CASE ~err
    <3>1. row[id].files <= 1 => attempts[id] = 0
      BY <1>0, <1>8, <2>3 DEF EntryCounted, Running
    <3>2. QED
      BY <2>1, <3>1
  <2>4. QED
    BY <2>2, <2>3
<1> HIDE DEF k0, id, done, of
<1>10. ASSUME NEW t \in scheduled', row'[t].files <= 1
       PROVE  RowCounted(t)'
  <2>1. ~InFlight(t)' /\ crashes \in Nat /\ Level(row'[t].completed) \in 0 .. 2
    BY <1>0, LevelType, CountedFacts DEF InFlight
  <2>2. CASE t = id
    BY <1>0, <1>2, <1>5, <1>6, <1>9, <1>10, <2>1, <2>2 DEF RowCounted
  <2>3. CASE t \in scheduled /\ t # id
    <3>1. RowCounted(t) /\ ~InFlight(t)
      BY <1>0, <1>6, <1>10, <2>3 DEF RowsCounted, InFlight, id
    <3>2. QED
      BY <1>0, <1>6, <2>1, <2>3, <3>1 DEF RowCounted
  <2>4. CASE t \in Triggered(id) /\ t # id
    <3>1. attempts'[t] = 0
      BY <1>3, <1>4, <2>4
    <3>2. QED
      BY <1>0, <2>1, <3>1 DEF RowCounted
  <2>5. QED
    BY <1>3, <2>2, <2>3, <2>4
<1>11. ASSUME NEW k \in DOMAIN m_tasks_map, row'[m_tasks_map'[k].id].files <= 1
       PROVE  EntryCounted(k)'
  <2>1. /\ m_tasks_map[k].id \in scheduled /\ k \in Nat /\ next \in Nat
        /\ row[m_tasks_map[k].id].files <= 1
    BY <1>0, <1>5, <1>6, <1>7, <1>11, CountedFacts DEF EntriesScheduled
  <2>2. EntryCounted(k)
    BY <1>0, <2>1 DEF EntriesCounted
  <2>3. attempts'[m_tasks_map'[k].id] = attempts[m_tasks_map[k].id]
    BY <1>6, <1>7, <2>1
  <2>4. ASSUME ToRun(k)'
        PROVE  ToRun(k) /\ m_tasks_map'[k] = m_tasks_map[k]
    <3>1. k > next
      BY <1>0, <2>4 DEF ToRun
    <3>2. k # k0
      BY <1>1, <2>1, <3>1, CountedFacts
    <3>3. QED
      BY <1>7, <3>1, <3>2 DEF ToRun
  <2>5. QED
    BY <1>0, <2>2, <2>3, <2>4 DEF EntryCounted
<1>12. QED
  BY <1>7, <1>10, <1>11 DEF Counted, RowsCounted, EntriesCounted

LEMMA RecordCounted ==
  ASSUME TypeOK, Structure, Counted, RecordCompletion
  PROVE  Counted'
<1> DEFINE id   == Running.id
           done == IF err THEN row[id].completed
                   ELSE IF Running.recurring # NO THEN SCHEDULED ELSE SUCCESS
<1>0. /\ EntriesScheduled /\ OneEntry /\ RowsCounted /\ EntriesCounted
      /\ next \in DOMAIN m_tasks_map /\ pc = "record" /\ pc' = "execute" /\ next' = next + 1
      /\ UNCHANGED <<scheduled, m_tasks_map, err, crashes, attempts>>
  BY DEF Structure, Counted, RecordCompletion, TypeOK, bounds
<1>1. id \in scheduled /\ id \in Tasks
  BY <1>0 DEF EntriesScheduled, Running, TypeOK
<1>2. row' = [row EXCEPT ![id].completed = done]
  BY DEF RecordCompletion
<1>3. /\ \A u \in Tasks : row'[u].files = row[u].files
      /\ \A u \in Tasks : u # id => row'[u] = row[u]
      /\ row'[id].completed = done
  <2>1. \A r \in Rows : /\ [r EXCEPT !.completed = done].completed = done
                        /\ [r EXCEPT !.completed = done].files = r.files
    BY DEF Rows
  <2> HIDE DEF done, id
  <2>2. row'[id] = [row[id] EXCEPT !.completed = done]
    BY <1>1, <1>2, CountedFacts DEF TypeOK
  <2>3. \A u \in Tasks : u # id => row'[u] = row[u]
    BY <1>2 DEF TypeOK
  <2>4. QED
    BY <1>1, <2>1, <2>2, <2>3, CountedFacts
<1>4. row[id].files <= 1 => (err => done = row[id].completed) /\ (~err => attempts[id] = 0)
  BY <1>0 DEF EntriesCounted, EntryCounted, Running
<1> HIDE DEF done
<1>5. ASSUME NEW t \in scheduled, row'[t].files <= 1
      PROVE  RowCounted(t)'
  <2>1. /\ ~InFlight(t)' /\ ~InFlight(t) /\ crashes \in Nat /\ Level(row'[t].completed) \in 0 .. 2
        /\ t \in Tasks
    BY <1>0, LevelType, CountedFacts DEF InFlight, TypeOK
  <2>2. RowCounted(t)
    BY <1>0, <1>3, <1>5, <2>1 DEF RowsCounted
  <2>3. CASE t # id
    BY <1>0, <1>3, <2>1, <2>2, <2>3 DEF RowCounted
  <2>4. CASE t = id /\ err
    BY <1>0, <1>3, <1>4, <1>5, <2>1, <2>2, <2>4 DEF RowCounted
  <2>5. CASE t = id /\ ~err
    <3>1. attempts'[t] = 0
      BY <1>0, <1>3, <1>4, <1>5, <2>1, <2>5
    <3>2. QED
      BY <1>0, <2>1, <3>1 DEF RowCounted
  <2>6. QED
    BY <2>3, <2>4, <2>5
<1>6. ASSUME NEW k \in DOMAIN m_tasks_map, row'[m_tasks_map[k].id].files <= 1
      PROVE  EntryCounted(k)'
  <2>1. EntryCounted(k) /\ k \in Nat /\ next \in Nat
    BY <1>0, <1>3, <1>6, CountedFacts DEF EntriesCounted
  <2>2. ToRun(k)' => ToRun(k)
    BY <1>0, <2>1 DEF ToRun
  <2>3. QED
    BY <1>0, <2>1, <2>2 DEF EntryCounted
<1>7. QED
  BY <1>0, <1>5, <1>6 DEF Counted, RowsCounted, EntriesCounted

LEMMA FetchCounted ==
  ASSUME TypeOK, Counted, FetchRecurringTasks
  PROVE  Counted'
<1>0. /\ RowsCounted /\ pc = "fetchRecurring" /\ pc' = "execute"
      /\ UNCHANGED <<scheduled, row, err, crashes, attempts>>
  BY DEF Counted, FetchRecurringTasks, tables, bounds
<1>1. RowsCounted'
  BY <1>0 DEF RowsCounted, RowCounted, InFlight
<1>2. ASSUME NEW k \in DOMAIN m_tasks_map', row[m_tasks_map'[k].id].files <= 1
      PROVE  EntryCounted(k)'
  <2>1. PICK t \in Tasks : DueRecurring(t) /\ m_tasks_map'[k] = FetchedTask(t)
    BY FetchedEntries DEF FetchRecurringTasks
  <2>2. /\ t \in scheduled /\ row[t].completed \in {SCHEDULED, FAILED}
        /\ m_tasks_map'[k].id = t /\ m_tasks_map'[k].completed = row[t].completed
    BY <2>1 DEF DueRecurring, Pending, FetchedTask
  <2>3. RowCounted(t) /\ ~InFlight(t)
    BY <1>0, <1>2, <2>2 DEF RowsCounted, InFlight
  <2>4. Level(row[t].completed) \in 0 .. 2 /\ crashes \in Nat
    BY LevelType, CountedFacts
  <2>5. attempts[t] <= crashes + Level(row[t].completed)
    BY <2>3, <2>4 DEF RowCounted
  <2>6. QED
    BY <1>0, <2>2, <2>5 DEF EntryCounted
<1>3. QED
  BY <1>0, <1>1, <1>2 DEF Counted, EntriesCounted

\* A loop that stops has no entries, and the outcome it did not write is made
\* up for by the crash.
LEMMA TerminateCounted ==
  ASSUME TypeOK, Counted, Terminate, UNCHANGED <<scheduled, row, attempts>>,
         crashes' = crashes + 1 \/ (crashes' = crashes /\ pc # "status")
  PROVE  Counted'
<1>1. m_tasks_map' = <<>> /\ pc' = "down"
  BY DEF Terminate
<1>2. EntriesCounted'
  BY <1>1 DEF EntriesCounted
<1>3. ASSUME NEW t \in scheduled, row[t].files <= 1
      PROVE  RowCounted(t)'
  <2>1. RowCounted(t) /\ ~InFlight(t)' /\ (pc # "status" => ~InFlight(t))
    BY <1>1, <1>3 DEF Counted, RowsCounted, InFlight
  <2>2. /\ Level(row[t].completed) \in 0 .. 2 /\ crashes \in Nat /\ t \in Tasks
        /\ attempts[t] \in Nat
    BY LevelType, CountedFacts DEF TypeOK
  <2>3. QED
    BY <2>1, <2>2 DEF RowCounted
<1>4. QED
  BY <1>2, <1>3 DEF Counted, RowsCounted

LEMMA CountedStep ==
  ASSUME TypeOK, Structure, Counted, [Next]_vars
  PROVE  Counted'
<1>0. EntriesScheduled /\ FilesKept /\ RowsCounted /\ EntriesCounted
  BY DEF Structure, Counted
<1>1. CASE FetchTasks
  <2>1. pc = "fetch" /\ UNCHANGED <<scheduled, row, crashes, attempts>>
    BY <1>1 DEF FetchTasks, tables, bounds
  <2>2. CASE Terminate
    BY <2>1, <2>2, TerminateCounted
  <2>3. CASE pc' = "fetchRecurring" /\ UNCHANGED <<m_tasks_map, next, err>>
    <3>1. RowsCounted'
      BY <1>0, <2>1, <2>3 DEF RowsCounted, RowCounted, InFlight
    <3>2. EntriesCounted'
      BY <1>0, <2>1, <2>3 DEF EntriesCounted, EntryCounted, ToRun
    <3>3. QED
      BY <3>1, <3>2 DEF Counted
  <2>4. QED
    BY <1>1, <2>2, <2>3 DEF FetchTasks
<1>2. CASE UpdateRecurring
  <2>1. /\ pc = "recur" /\ pc' = "record"
        /\ UNCHANGED <<scheduled, row, m_tasks_map, next, err, crashes, attempts>>
    BY <1>2 DEF UpdateRecurring, bounds
  <2>2. RowsCounted'
    BY <1>0, <2>1 DEF RowsCounted, RowCounted, InFlight
  <2>3. EntriesCounted'
    BY <1>0, <2>1 DEF EntriesCounted, EntryCounted, ToRun
  <2>4. QED
    BY <2>2, <2>3 DEF Counted
<1>3. CASE ClearTasks
  <2>1. /\ m_tasks_map' = <<>> /\ pc = "execute" /\ pc' = "fetch"
        /\ UNCHANGED <<scheduled, row, crashes, attempts>>
    BY <1>3 DEF ClearTasks, tables, bounds
  <2>2. RowsCounted'
    BY <1>0, <2>1 DEF RowsCounted, RowCounted, InFlight
  <2>3. QED
    BY <2>1, <2>2 DEF Counted, EntriesCounted
<1>4. ASSUME NEW c \in Clients, NEW t \in Tasks, ScheduleInsert(c, t)
      PROVE  Counted'
  <2>1. /\ t \notin scheduled /\ scheduled' = scheduled \cup {t}
        /\ \A u \in Tasks : u # t => row'[u] = row[u] /\ attempts'[u] = attempts[u]
        /\ attempts'[t] = 0
        /\ UNCHANGED <<m_tasks_map, pc, next, err, crashes>>
    BY <1>4 DEF ScheduleInsert, TypeOK, loopVars, bounds
  <2>2. Running' = Running
    BY <2>1 DEF Running
  <2>3. ASSUME NEW u \in scheduled', row'[u].files <= 1
        PROVE  RowCounted(u)'
    <3>1. CASE u = t
      BY <2>1, <3>1, LevelType, CountedFacts DEF RowCounted
    <3>2. CASE u # t
      BY <1>0, <2>1, <2>2, <2>3, <3>2 DEF RowsCounted, RowCounted, InFlight, TypeOK
    <3>3. QED
      BY <3>1, <3>2
  <2>4. EntriesCounted'
    BY <1>0, <2>1, CountedFacts DEF EntriesCounted, EntryCounted, EntriesScheduled, ToRun
  <2>5. QED
    BY <2>3, <2>4 DEF Counted, RowsCounted
<1>5. ASSUME NEW c \in Clients, UpdateSchedule(c)
      PROVE  Counted'
  <2> DEFINE t == client[c].id
  <2>1. /\ t \in scheduled /\ scheduled' = scheduled
        /\ \A u \in Tasks : u # t => row'[u] = row[u] /\ attempts'[u] = attempts[u]
        /\ attempts'[t] = 0
        /\ UNCHANGED <<m_tasks_map, pc, next, err, crashes>>
    BY <1>5 DEF UpdateSchedule, TypeOK, loopVars, bounds
  <2>2. Running' = Running /\ \A u \in scheduled : row'[u].files = row[u].files
    BY <1>0, <2>1, FilesStay DEF Running
  <2> HIDE DEF t
  <2>3. ASSUME NEW u \in scheduled', row'[u].files <= 1
        PROVE  RowCounted(u)'
    <3>1. CASE u = t
      BY <2>1, <3>1, LevelType, CountedFacts DEF RowCounted
    <3>2. CASE u # t
      BY <1>0, <2>1, <2>2, <2>3, <3>2 DEF RowsCounted, RowCounted, InFlight, TypeOK
    <3>3. QED
      BY <3>1, <3>2
  <2>4. ASSUME NEW k \in DOMAIN m_tasks_map, row'[m_tasks_map[k].id].files <= 1
        PROVE  EntryCounted(k)'
    <3>1. EntryCounted(k)
      BY <1>0, <2>2, <2>4 DEF EntriesCounted, EntriesScheduled
    <3>2. Level(m_tasks_map[k].completed) \in 0 .. 2 /\ crashes \in Nat
      BY LevelType, CountedFacts
    <3>3. attempts'[m_tasks_map[k].id] \in {0, attempts[m_tasks_map[k].id]}
      BY <2>1, CountedFacts
    <3>4. ToRun(k)' = ToRun(k)
      BY <2>1 DEF ToRun
    <3>5. CASE attempts'[m_tasks_map[k].id] = 0
      BY <2>1, <3>1, <3>2, <3>4, <3>5 DEF EntryCounted
    <3>6. CASE attempts'[m_tasks_map[k].id] = attempts[m_tasks_map[k].id]
      BY <2>1, <3>1, <3>4, <3>6 DEF EntryCounted
    <3>7. QED
      BY <3>3, <3>5, <3>6
  <2>5. QED
    BY <2>1, <2>3, <2>4 DEF Counted, RowsCounted, EntriesCounted
<1>6. ASSUME UNCHANGED <<scheduled, row, m_tasks_map, pc, next, err, crashes, attempts>>
      PROVE  Counted'
  <2>1. RowsCounted'
    BY <1>0, <1>6 DEF RowsCounted, RowCounted, InFlight, Running
  <2>2. EntriesCounted'
    BY <1>0, <1>6 DEF EntriesCounted, EntryCounted, ToRun
  <2>3. QED
    BY <2>1, <2>2 DEF Counted
<1>7. ASSUME \/ Tick \/ UNCHANGED vars
             \/ \E c \in Clients : \/ InsertRecurring(c) \/ InsertFails(c)
                                   \/ \E t \in Tasks : Update(c, t)
      PROVE  Counted'
  <2>1. UNCHANGED <<scheduled, row, m_tasks_map, pc, next, err, crashes, attempts>>
    BY <1>7 DEF Tick, vars, InsertRecurring, InsertFails, Update, tables, loopVars, bounds
  <2>2. QED
    BY <1>6, <2>1
<1>8. CASE Crash
  <2>1. Terminate /\ crashes' = crashes + 1 /\ UNCHANGED <<scheduled, row, attempts>>
    BY <1>8 DEF Crash, tables
  <2>2. QED
    BY <2>1, TerminateCounted
<1>9. CASE Restart
  <2>1. /\ pc = "down" /\ pc' = "fetch"
        /\ UNCHANGED <<scheduled, row, m_tasks_map, next, err, crashes, attempts>>
    BY <1>9 DEF Restart, tables, bounds
  <2>2. RowsCounted'
    BY <1>0, <2>1 DEF RowsCounted, RowCounted, InFlight
  <2>3. EntriesCounted'
    BY <1>0, <2>1 DEF EntriesCounted, EntryCounted, ToRun
  <2>4. QED
    BY <2>2, <2>3 DEF Counted
<1>10. QED
  BY <1>1, <1>2, <1>3, <1>4, <1>5, <1>7, <1>8, <1>9, ExecuteCounted, StatusCounted,
     RecordCounted, FetchCounted
  DEF Next, LoopStep, ClientStep
-----------------------------------------------------------------------------
(***************************************************************************)
(* The times of an occurrence.                                             *)
(***************************************************************************)
\* The hour of an earlier time, today, is not before it.
LEMMA TodayNotBefore ==
  ASSUME now \in Int, NEW a \in Int, now > a
  PROVE  a <= time_as_today(a)
<1> DEFINE qa == a \div Day
           qn == now \div Day
           ra == a % Day
           rn == now % Day
<1>1. /\ qa \in Int /\ qn \in Int /\ ra \in 0 .. Day - 1 /\ rn \in 0 .. Day - 1
      /\ a = Day * qa + ra /\ now = Day * qn + rn
  BY ClockAssumption
<1>2. Day \in Nat /\ Day > 0
  BY ClockAssumption
<1> HIDE DEF qa, qn, ra, rn
<1>3. qa <= qn
  <2>1. ASSUME qn + 1 <= qa PROVE FALSE
    <3>1. Day * (qn + 1) <= Day * qa
      BY <1>1, <1>2, <2>1
    <3>2. Day * (qn + 1) = Day * qn + Day
      BY <1>1, <1>2
    <3>3. QED
      BY <1>1, <1>2, <3>1, <3>2
  <2>2. QED
    BY <1>1, <2>1
<1>4. Day * qa <= Day * qn
  BY <1>1, <1>2, <1>3
<1>5. qn * Day = Day * qn /\ Day * qn \in Int /\ Day * qa \in Int
  BY <1>1, <1>2
<1>6. time_as_today(a) = qn * Day + ra
  BY DEF time_as_today, qn, ra
<1>7. QED
  BY <1>1, <1>4, <1>5, <1>6

\* An entry stays in step when no client writes its task and neither its time
\* nor its recurrence changes.
LEMMA InStepStays ==
  ASSUME EntriesInStep, DOMAIN m_tasks_map' = DOMAIN m_tasks_map,
         \A k \in DOMAIN m_tasks_map :
           /\ m_tasks_map'[k].id = m_tasks_map[k].id
           /\ m_tasks_map'[k].datetime = m_tasks_map[k].datetime
           /\ m_tasks_map'[k].recurring = m_tasks_map[k].recurring,
         touched \subseteq touched',
         \A k \in DOMAIN m_tasks_map :
           m_tasks_map[k].id \notin touched' =>
             /\ rec'[m_tasks_map[k].id] = rec[m_tasks_map[k].id]
             /\ row'[m_tasks_map[k].id].recurring = row[m_tasks_map[k].id].recurring
  PROVE  EntriesInStep'
<1>1. \A k \in DOMAIN m_tasks_map' : InStep(k)'
  BY DEF EntriesInStep, InStep
<1>2. QED
  BY <1>1 DEF EntriesInStep

\* updateRecurring never sets a task back, unless a client writes it (one step
\* of OccurrenceAdvances).
Advances ==
  \A t \in hasRec :
    (t \notin touched' /\ rec'[t] # rec[t])
      => rec'[t] >= rec[t] + GetIntervalSeconds(row[t].recurring)

LEMMA InStepStep ==
  ASSUME TypeOK, Structure, EntriesInStep, [Next]_vars
  PROVE  EntriesInStep' /\ Advances
<1>0. EntriesScheduled /\ DOMAIN m_tasks_map \subseteq Nat
  BY CountedFacts DEF Structure
<1>1. CASE FetchRecurringTasks
  <2>1. UNCHANGED <<row, rec>> /\ touched' = {}
    BY <1>1 DEF FetchRecurringTasks, tables
  <2>2. \A k \in DOMAIN m_tasks_map' :
          \E t \in Tasks : DueRecurring(t) /\ m_tasks_map'[k] = FetchedTask(t)
    BY <1>1, FetchedEntries DEF FetchRecurringTasks
  <2>3. ASSUME NEW k \in DOMAIN m_tasks_map'
        PROVE  InStep(k)'
    <3>1. PICK t \in Tasks : DueRecurring(t) /\ m_tasks_map'[k] = FetchedTask(t)
      BY <2>2
    <3>2. /\ m_tasks_map'[k].id = t /\ m_tasks_map'[k].recurring = row[t].recurring
          /\ m_tasks_map'[k].datetime = time_as_today(rec[t])
      BY <3>1 DEF FetchedTask
    <3>3. rec[t] \in Int /\ now \in Int /\ now > rec[t]
      BY <3>1 DEF DueRecurring, TypeOK
    <3>4. rec[t] <= time_as_today(rec[t])
      BY <3>3, TodayNotBefore
    <3>5. QED
      BY <2>1, <3>2, <3>4 DEF InStep
  <2>4. \A j, k \in DOMAIN m_tasks_map' :
          m_tasks_map'[j].id = m_tasks_map'[k].id
            => m_tasks_map'[j].datetime = m_tasks_map'[k].datetime
    BY <2>2 DEF FetchedTask
  <2>5. QED
    BY <2>1, <2>3, <2>4 DEF EntriesInStep, Advances
<1>2. CASE UpdateRecurring
  <2> DEFINE k0 == FindTask
             e0 == m_tasks_map[k0]
  <2>1. next \in DOMAIN m_tasks_map
    BY <1>2 DEF UpdateRecurring, TypeOK
  <2>2. k0 \in DOMAIN m_tasks_map
    BY <2>1, FindTaskFinds DEF TypeOK
  <2>3. /\ rec' = [rec EXCEPT ![e0.id] = IF e0.id \in hasRec
                                         THEN e0.datetime + GetIntervalSeconds(e0.recurring)
                                         ELSE @]
        /\ UNCHANGED <<row, m_tasks_map, touched>>
    BY <1>2 DEF UpdateRecurring
  <2> HIDE DEF k0
  <2>4. e0.datetime \in Int /\ e0.id \in Tasks /\ GetIntervalSeconds(e0.recurring) \in Nat
    <3>1. \A e \in Entries : e.datetime \in Int /\ e.id \in Tasks
      BY DEF Entries
    <3>2. QED
      BY <2>2, <3>1, CountedFacts, IntervalType
  <2>5. rec'[e0.id] \in {rec[e0.id], e0.datetime + GetIntervalSeconds(e0.recurring)}
    BY <2>3, <2>4 DEF TypeOK
  <2>6. \A t \in Tasks : t # e0.id => rec'[t] = rec[t]
    BY <2>3 DEF TypeOK
  <2>7. InStep(k0)
    BY <2>2 DEF EntriesInStep
  <2>8. ASSUME NEW k \in DOMAIN m_tasks_map
        PROVE  InStep(k)'
    <3>1. InStep(k) /\ m_tasks_map[k].id \in Tasks
      BY CountedFacts DEF EntriesInStep
    <3>2. CASE m_tasks_map[k].id # e0.id
      BY <2>3, <2>6, <3>1, <3>2 DEF InStep
    <3>3. CASE m_tasks_map[k].id = e0.id /\ rec'[e0.id] = rec[e0.id]
      BY <2>3, <3>1, <3>3 DEF InStep
    <3>4. CASE /\ m_tasks_map[k].id = e0.id
               /\ rec'[e0.id] = e0.datetime + GetIntervalSeconds(e0.recurring)
      <4>1. m_tasks_map[k].datetime = e0.datetime
        BY <2>2, <3>4 DEF EntriesInStep
      <4>2. e0.id \notin touched => m_tasks_map[k].recurring = e0.recurring
        BY <2>7, <3>1, <3>4 DEF InStep
      <4>3. QED
        BY <2>3, <3>1, <3>4, <4>1, <4>2 DEF InStep
    <3>5. QED
      BY <2>5, <3>2, <3>3, <3>4
  <2>9. EntriesInStep'
    BY <2>3, <2>8 DEF EntriesInStep
  <2>10. ASSUME NEW t \in hasRec, t \notin touched', rec'[t] # rec[t]
         PROVE  rec'[t] >= rec[t] + GetIntervalSeconds(row[t].recurring)
    <3>1. t = e0.id /\ rec'[t] = e0.datetime + GetIntervalSeconds(e0.recurring)
      BY <2>5, <2>6, <2>10 DEF TypeOK
    <3>2. e0.recurring = row[t].recurring /\ rec[t] <= e0.datetime
      BY <2>3, <2>7, <2>10, <3>1 DEF InStep
    <3>3. rec[t] \in Int
      BY DEF TypeOK
    <3>4. QED
      BY <2>4, <3>1, <3>2, <3>3
  <2>11. QED
    BY <2>9, <2>10 DEF Advances
<1>3. CASE UpdateStatus
  <2>1. UNCHANGED <<rec, touched>>
    BY <1>3 DEF UpdateStatus
  <2>2. ASSUME NEW u \in scheduled
        PROVE  row'[u].recurring = row[u].recurring
    <3> DEFINE done == CompletedBy(m_tasks_map[FindTask], err)
    <3>1. row'[u] \in {row[u], [row[u] EXCEPT !.completed = done]}
      BY <1>3 DEF UpdateStatus, Triggered, TypeOK
    <3>2. \A r \in Rows : [r EXCEPT !.completed = done].recurring = r.recurring
      BY DEF Rows
    <3> HIDE DEF done
    <3>3. QED
      BY <3>1, <3>2 DEF TypeOK
  <2>3. /\ DOMAIN m_tasks_map' = DOMAIN m_tasks_map
        /\ \A k \in DOMAIN m_tasks_map :
             /\ m_tasks_map'[k].id = m_tasks_map[k].id
             /\ m_tasks_map'[k].datetime = m_tasks_map[k].datetime
             /\ m_tasks_map'[k].recurring = m_tasks_map[k].recurring
    <3> DEFINE done == CompletedBy(m_tasks_map[FindTask], err)
    <3>1. m_tasks_map' = [m_tasks_map EXCEPT ![FindTask].completed = done]
      BY <1>3 DEF UpdateStatus
    <3> HIDE DEF done
    <3>2. \A e \in Entries : /\ [e EXCEPT !.completed = done].id = e.id
                             /\ [e EXCEPT !.completed = done].datetime = e.datetime
                             /\ [e EXCEPT !.completed = done].recurring = e.recurring
      BY DEF Entries
    <3>3. /\ DOMAIN m_tasks_map' = DOMAIN m_tasks_map
          /\ \A k \in DOMAIN m_tasks_map :
               \/ m_tasks_map'[k] = m_tasks_map[k]
               \/ m_tasks_map'[k] = [m_tasks_map[k] EXCEPT !.completed = done]
      BY <3>1 DEF TypeOK
    <3>4. QED
      BY <3>2, <3>3, CountedFacts
  <2>4. EntriesInStep'
    BY <1>0, <2>1, <2>2, <2>3, InStepStays DEF EntriesScheduled
  <2>5. QED
    BY <2>1, <2>4 DEF Advances
<1>4. CASE RecordCompletion
  <2>1. UNCHANGED <<rec, touched, m_tasks_map>>
    BY <1>4 DEF RecordCompletion
  <2>2. ASSUME NEW u \in Tasks
        PROVE  row'[u].recurring = row[u].recurring
    <3> DEFINE done == IF err THEN row[Running.id].completed
                       ELSE IF Running.recurring # NO THEN SCHEDULED ELSE SUCCESS
    <3>1. row' = [row EXCEPT ![Running.id].completed = done]
      BY <1>4 DEF RecordCompletion
    <3> HIDE DEF done
    <3>2. row'[u] \in {row[u], [row[u] EXCEPT !.completed = done]}
      BY <3>1 DEF TypeOK
    <3>3. \A r \in Rows : [r EXCEPT !.completed = done].recurring = r.recurring
      BY DEF Rows
    <3>4. QED
      BY <3>2, <3>3 DEF TypeOK
  <2>3. EntriesInStep'
    BY <2>1, <2>2, CountedFacts, InStepStays
  <2>4. QED
    BY <2>1, <2>3 DEF Advances
<1>5. ASSUME m_tasks_map' = <<>>, UNCHANGED rec
      PROVE  EntriesInStep' /\ Advances
  BY <1>5 DEF EntriesInStep, Advances
<1>6. ASSUME NEW t \in Tasks, UNCHANGED m_tasks_map,
             \/ touched' = touched \cup {t} /\ \A u \in Tasks : u # t => rec'[u] = rec[u]
             \/ touched' = touched /\ UNCHANGED rec,
             \A k \in DOMAIN m_tasks_map : \/ row'[m_tasks_map[k].id] = row[m_tasks_map[k].id]
                                           \/ m_tasks_map[k].id \in touched'
      PROVE  EntriesInStep' /\ Advances
  <2>1. EntriesInStep'
    BY <1>6, CountedFacts, InStepStays
  <2>2. Advances
    BY <1>6 DEF Advances, TypeOK
  <2>3. QED
    BY <2>1, <2>2
<1>7. ASSUME NEW c \in Clients, ClientStep(c)
      PROVE  EntriesInStep' /\ Advances
  <2>1. ASSUME NEW t \in Tasks, ScheduleInsert(c, t)
        PROVE  EntriesInStep' /\ Advances
    <3>1. /\ UNCHANGED <<m_tasks_map, rec>> /\ touched' = touched \cup {t}
          /\ t \notin scheduled /\ \A u \in Tasks : u # t => row'[u] = row[u]
      BY <2>1 DEF ScheduleInsert, loopVars, TypeOK
    <3>2. QED
      BY <1>0, <1>6, <3>1, CountedFacts DEF EntriesScheduled
  <2>2. ASSUME NEW t \in Tasks, Update(c, t)
        PROVE  EntriesInStep' /\ Advances
    <3>1. /\ UNCHANGED <<m_tasks_map, row>> /\ touched' = touched \cup {t}
          /\ \A u \in Tasks : u # t => rec'[u] = rec[u]
      BY <2>2 DEF Update, loopVars, TypeOK
    <3>2. QED
      BY <1>6, <3>1
  <2>3. CASE InsertRecurring(c)
    <3>1. /\ UNCHANGED <<m_tasks_map, row>> /\ touched' = touched \cup {client[c].id}
          /\ client[c].id \in Tasks
          /\ \A u \in Tasks : u # client[c].id => rec'[u] = rec[u]
      BY <2>3 DEF InsertRecurring, loopVars, TypeOK
    <3>2. QED
      BY <1>6, <3>1
  <2>4. CASE UpdateSchedule(c)
    <3>1. /\ UNCHANGED <<m_tasks_map, rec>> /\ touched' = touched \cup {client[c].id}
          /\ client[c].id \in Tasks
          /\ \A u \in Tasks : u # client[c].id => row'[u] = row[u]
      BY <2>4 DEF UpdateSchedule, loopVars, TypeOK
    <3>2. QED
      BY <1>6, <3>1, CountedFacts
  <2>5. CASE InsertFails(c)
    <3>1. UNCHANGED <<m_tasks_map, row, rec, touched>>
      BY <2>5 DEF InsertFails, loopVars, tables
    <3>2. EntriesInStep'
      BY <3>1 DEF EntriesInStep, InStep
    <3>3. QED
      BY <3>1, <3>2 DEF Advances
  <2>6. QED
    BY <1>7, <2>1, <2>2, <2>3, <2>4, <2>5 DEF ClientStep
<1>8. ASSUME (FetchTasks /\ ~Terminate) \/ ExecuteTask \/ Tick \/ Restart \/ UNCHANGED vars
      PROVE  EntriesInStep' /\ Advances
  <2>1. UNCHANGED <<m_tasks_map, row, rec, touched>>
    BY <1>8 DEF FetchTasks, ExecuteTask, Tick, Restart, vars, loopVars, tables
  <2>2. EntriesInStep'
    BY <2>1 DEF EntriesInStep, InStep
  <2>3. QED
    BY <2>1, <2>2 DEF Advances
<1>9. ASSUME (FetchTasks /\ Terminate) \/ ClearTasks \/ Crash
      PROVE  EntriesInStep' /\ Advances
  BY <1>5, <1>9 DEF FetchTasks, Terminate, ClearTasks, Crash, tables
<1>10. QED
  BY <1>1, <1>2, <1>3, <1>4, <1>7, <1>8, <1>9 DEF Next, LoopStep
-----------------------------------------------------------------------------
(***************************************************************************)
(* The theorems.                                                           *)
(***************************************************************************)
LEMMA Inductive == Spec => []IInv
<1>1. Init => IInv
  <2> SUFFICES ASSUME Init PROVE IInv
    OBVIOUS
  <2>1. TypeOK
    BY TypeInit
  <2>2. m_tasks_map = <<>> /\ scheduled = {} /\ \A c \in Clients : client[c].op = "idle"
    BY IdleType DEF Init
  <2>3. QED
    BY <2>1, <2>2 DEF IInv, Structure, EntriesScheduled, FilesKept, OneEntry, RowsCounted,
                      EntriesCounted, EntriesInStep
<1>2. IInv /\ [Next]_vars => IInv'
  BY TypeStep, StructureStep, CountedStep, InStepStep DEF IInv, Counted
<1>3. QED
  BY <1>1, <1>2, PTL DEF Spec

\* "Failed tasks will re-run once more": a task with at most one file fails at
\* most twice between two successes or client's writes, and once more for each
\* crash, whatever the clients edit meanwhile (Controller::onProcessComplete).
THEOREM RetriedOnceCorrect == Spec => []RetriedOnce
<1>1. IInv => RetriedOnce
  <2> SUFFICES ASSUME IInv, NEW t \in scheduled, row[t].files <= 1
               PROVE  attempts[t] <= 2 + crashes
    BY DEF RetriedOnce
  <2>1. /\ TypeOK /\ RowCounted(t) /\ t \in Tasks /\ attempts[t] \in Nat /\ crashes \in Nat
        /\ Level(row[t].completed) \in 0 .. 2
    BY CountedFacts, LevelType DEF IInv, RowsCounted, TypeOK
  <2>2. CASE ~InFlight(t)
    BY <2>1, <2>2 DEF RowCounted
  <2>3. CASE InFlight(t)
    <3>1. next \in DOMAIN m_tasks_map /\ m_tasks_map[next].id = t /\ pc = "status" /\ err
      BY <2>1, <2>3 DEF InFlight, TypeOK, Running
    <3>2. EntryCounted(next)
      BY <3>1 DEF IInv, EntriesCounted
    <3>3. /\ m_tasks_map[next].completed \in {SCHEDULED, FAILED}
          /\ attempts[t] <= crashes + Level(m_tasks_map[next].completed) + 1
      BY <3>1, <3>2 DEF EntryCounted
    <3>4. Level(m_tasks_map[next].completed) \in 0 .. 1
      BY <3>3 DEF Level
    <3>5. QED
      BY <2>1, <3>3, <3>4
  <2>4. QED
    BY <2>2, <2>3
<1>2. QED
  BY <1>1, Inductive, PTL

\* updateRecurring never sets a task back: unless a client writes the task, its
\* next time is at least an interval after the last, however late the loop
\* runs it and however often it is interrupted.
THEOREM OccurrenceAdvancesCorrect == Spec => OccurrenceAdvances
<1>1. IInv /\ [Next]_vars => [Advances]_vars
  BY InStepStep DEF IInv
<1>2. QED
  BY <1>1, Inductive, PTL DEF Spec, OccurrenceAdvances, Advances
=============================================================================
