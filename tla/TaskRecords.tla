---------------------------- MODULE TaskRecords ----------------------------
(***************************************************************************)
(* The tables "schedule", "file" and "recurring", written one row at a     *)
(* time by the threads that schedule tasks, and what the queries of the    *)
(* scheduler (system/process/scheduler.cpp) and of the triggers            *)
(* (system/process/trigger.cpp) make of them meanwhile.                    *)
(*                                                                         *)
(* An id is a number, 0 where a client sends none; the flags of a task are *)
(* the tokens they name; the name of a file is the sequence of the words   *)
(* between its spaces, beside the extension it ends with; a range is a     *)
(* sequence of characters.  A task's env is what the file it names holds:  *)
(* its tokens with their values, <<>> where the task names no file.        *)
(* Rows come in any order, as a select without an order returns them;      *)
(* those of "file" and "triggers" are never changed and come as they were  *)
(* inserted.                                                               *)
(***************************************************************************)
EXTENDS Integers, Sequences, SequencesExt, FiniteSets, TLC

CONSTANTS TaskInputs,    \* the tasks that are scheduled
          MaskNames,     \* m_app_map, read when the server started
          Apps,          \* the masks in "apps" now
          TriggerRows,   \* rows of "triggers", with those of "trigger_map" and "trigger_config"
          TriggerArgs,   \* what clients send to add a trigger
          Writers,       \* the threads that schedule tasks
          Ranges,        \* the ranges of time that clients ask for
          Day, Today,    \* the length of a day and the start of this one
          Interval,      \* GetIntervalSeconds
          MaxTasks       \* bound on the rows of "schedule"

\* Today is the start of a day.
ASSUME TimesAssumption ==
  /\ MaxTasks \in Nat /\ Day \in Nat \ {0} /\ Today \in Nat /\ Today % Day = 0
  /\ \A n \in DOMAIN Interval : Interval[n] \in Nat
ASSUME TasksAssumption ==
  \A task \in TaskInputs :
    task.time \in Nat /\ task.flags \in Seq(STRING) /\ task.recurring \in {0} \cup DOMAIN Interval
ASSUME TriggersAssumption ==
  \A t \in Range(TriggerRows) :
    /\ \A f \in DOMAIN t.map : t.map[f] \in STRING
    /\ t.config \in Seq([token_name : STRING, value : STRING])
ASSUME TriggerRowsAssumption == TriggerRows \in Seq(Range(TriggerRows))
\* front() of an empty range is undefined.
ASSUME RangesAssumption == <<>> \notin Ranges

VARIABLES scheduleRows,   \* a row's id is its position
          fileRows,
          recurringRows,
          saving,         \* what each writer has yet to insert
          cutShort,       \* the tasks whose insertion failed half way
          reply           \* the last query and what it returned

taskVars == <<scheduleRows, fileRows, recurringRows, saving, cutShort, reply>>
rowVars  == <<scheduleRows, fileRows, recurringRows, saving, cutShort>>

Idle    == [id |-> 0, files |-> <<>>, recurring |-> FALSE]
NoReply == [op |-> "none"]

\* A call that threw, or during which the process ended, has no value.
Reply(op, of, ok, value) ==
  reply' = [op |-> op, of |-> of, ok |-> ok, value |-> IF ok THEN value ELSE <<>>]

TasksInit ==
  /\ scheduleRows = <<>>
  /\ fileRows = <<>>
  /\ recurringRows = <<>>
  /\ saving = [w \in Writers |-> Idle]
  /\ cutShort = {}
  /\ reply = NoReply
-----------------------------------------------------------------------------
(***************************************************************************)
(* Writing.                                                                *)
(***************************************************************************)
\* validate of a task: it has a time, an env file and flags
Validate(task) == task.time # 0 /\ task.env # <<>> /\ task.flags # <<>>

GetFileType(extension) ==
  CASE extension \in {"jpg", "jpeg", "png", "gif", "bmp", "svg"} -> "image"
    [] extension \in {"mp4", "avi", "mkv", "webm"} -> "video"
    [] OTHER -> "unknown"

Saved(s) == IF s.files = <<>> /\ ~s.recurring THEN Idle ELSE s

ScheduleRow(w, task) ==
  /\ saving[w] = Idle
  /\ Len(scheduleRows) < MaxTasks
  /\ LET id == Len(scheduleRows) + 1
     IN /\ scheduleRows' = Append(scheduleRows,
             [id |-> id, time |-> task.time, mask |-> task.mask, flags |-> task.flags,
              env |-> task.env, recurring |-> task.recurring, notify |-> task.notify,
              completed |-> 0])
        /\ saving' = [saving EXCEPT ![w] =
             Saved([id |-> id, files |-> task.files, recurring |-> task.recurring # 0])]
  /\ UNCHANGED <<fileRows, recurringRows, cutShort>>

\* A task that does not validate is not inserted, and no id is returned.
Schedule(w, task) ==
  /\ Validate(task)
  /\ ScheduleRow(w, task)
  /\ reply' = NoReply

ScheduleFile(w) ==
  /\ saving[w].files # <<>>
  /\ LET file == Head(saving[w].files)
     IN fileRows' = Append(fileRows, [sid |-> saving[w].id, name |-> file.name,
                                      type |-> GetFileType(file.extension)])
  /\ saving' = [saving EXCEPT ![w] = Saved([saving[w] EXCEPT !.files = Tail(@)])]
  /\ reply' = NoReply
  /\ UNCHANGED <<scheduleRows, recurringRows, cutShort>>

ScheduleRecurring(w) ==
  /\ saving[w].files = <<>> /\ saving[w].recurring
  /\ LET row == scheduleRows[saving[w].id]
     IN recurringRows' = Append(recurringRows,
                                [sid |-> row.id, time |-> row.time - Interval[row.recurring]])
  /\ saving' = [saving EXCEPT ![w] = Idle]
  /\ reply' = NoReply
  /\ UNCHANGED <<scheduleRows, fileRows, cutShort>>

\* An insertion throws: what was inserted stays, and schedule returns the id.
ScheduleFails(w) ==
  /\ saving[w] # Idle
  /\ cutShort' = cutShort \cup {saving[w].id}
  /\ saving' = [saving EXCEPT ![w] = Idle]
  /\ reply' = NoReply
  /\ UNCHANGED <<scheduleRows, fileRows, recurringRows>>

UpdateStatus(id, completed) ==
  /\ scheduleRows' = IF id \in DOMAIN scheduleRows
                     THEN [scheduleRows EXCEPT ![id].completed = completed] ELSE scheduleRows
  /\ Reply("status", id, TRUE, id \in DOMAIN scheduleRows)
  /\ UNCHANGED <<fileRows, recurringRows, saving, cutShort>>

\* updateEnvfile gives up when it finds the row it looks for; without one it
\* reads the first of no rows, and the process ends there.
UpdateEnvfile(id) ==
  /\ Reply("envfile", id, id \in DOMAIN scheduleRows, FALSE)
  /\ UNCHANGED rowVars
-----------------------------------------------------------------------------
(***************************************************************************)
(* Reading.                                                                *)
(***************************************************************************)
\* The elements of a sequence at these places, in their order (what SelectSeq
\* gives, said without recursion), and the first of the places.
Place(places, k) == CHOOSE i \in places : Cardinality({ j \in places : j <= i }) = k
InOrder(s, places) == [k \in 1 .. Cardinality(places) |-> s[Place(places, k)]]
FirstOfPlaces(places) == IF places = {} THEN 0 ELSE Min(places)

\* rows of "file", of every task when the id is empty and of every type when
\* the type is
GetFiles(sid, type) ==
  LET rows == InOrder(fileRows, { i \in DOMAIN fileRows : /\ sid \in {0, fileRows[i].sid}
                                                         /\ type \in {"", fileRows[i].type} })
  IN [i \in DOMAIN rows |-> [name |-> rows[i].name, type |-> rows[i].type, task_id |-> sid]]

FileNames(sid) == LET files == GetFiles(sid, "") IN [i \in DOMAIN files |-> files[i].name]

TimeAsToday(time) == Today + (time % Day)

\* ReadEnvToken, and ReadRunArgs of the token R_ARGS
Token(env, name) == IF name \in DOMAIN env THEN env[name] ELSE ""

Parsed(row, time, filenames) ==
  [id |-> row.id, mask |-> row.mask, time |-> time, flags |-> row.flags, env |-> row.env,
   completed |-> row.completed, recurring |-> row.recurring, notify |-> row.notify,
   runtime |-> Token(row.env, "R_ARGS"), name |-> MaskNames[row.mask], filenames |-> filenames]

NoTask == [id |-> 0, filenames |-> <<>>]

\* a row for each file of a task, or one with none
JoinFiles(rows) ==
  UNION { {r} \X (1 .. (IF FileNames(r.id) = <<>> THEN 1 ELSE Len(FileNames(r.id)))) : r \in rows }

InAnyOrder(joined) ==
  { [i \in DOMAIN order |-> order[i][1]] :
      order \in { f \in [1 .. Cardinality(joined) -> joined] : Range(f) = joined } }

ReadTime(row) == IF row.recurring = 0 THEN row.time ELSE TimeAsToday(row.time)

\* Slip: the files are added for each row
ParseTaskTwice(rows) ==
  IF rows = <<>> THEN NoTask
  ELSE Parsed(Last(rows), ReadTime(Last(rows)),
              FlattenSeq([i \in DOMAIN rows |-> FileNames(rows[i].id)]))

\* parseTask: the last row, with the files of the first row that has some
ParseTask(rows) ==
  IF rows = <<>> THEN NoTask
  ELSE LET first == FirstOfPlaces({ i \in DOMAIN rows : FileNames(rows[i].id) # <<>> })
       IN Parsed(Last(rows), ReadTime(Last(rows)),
                 IF first = 0 THEN <<>> ELSE FileNames(rows[first].id))

\* parseTasks: string_agg puts spaces between the names and Split looks for them
ParseTasks(rows) ==
  [i \in DOMAIN rows |-> Parsed(rows[i], ReadTime(rows[i]), FlattenSeq(FileNames(rows[i].id)))]

\* m_app_map.at throws for an application it does not know
Named(rows) == \A i \in DOMAIN rows : rows[i].mask \in DOMAIN MaskNames

GetTask(id) ==
  \E rows \in InAnyOrder(JoinFiles({ r \in Range(scheduleRows) : id \in {0, r.id} })) :
    /\ Reply("task", id, Named(rows), IF Named(rows) THEN ParseTask(rows) ELSE NoTask)
    /\ UNCHANGED rowVars

\* GetTask(int) does not select all the columns that parseTask reads
GetTaskInt(id) ==
  /\ Reply("task_int", id, id \notin DOMAIN scheduleRows, NoTask)
  /\ UNCHANGED rowVars

\* the flag original_time is passed in the place of another parameter
FetchAllTasks ==
  \E rows \in InAnyOrder(JoinFiles(Range(scheduleRows))) :
    /\ Reply("all", 0, Named(rows), IF Named(rows) THEN ParseTasks(rows) ELSE <<>>)
    /\ UNCHANGED rowVars

Numerals == <<"0", "1", "2", "3", "4", "5", "6", "7", "8", "9">>
IsNumeral(text) == text # <<>> /\ Range(text) \subseteq Range(Numerals)
NumberOf(text) ==
  FoldLeft(LAMBDA n, c : (10 * n) + SelectInSeq(Numerals, LAMBDA d : d = c) - 1, 0, text)

MAX_INT == <<"2", "1", "4", "7", "4", "8", "3", "6", "4", "7">>

\* find_first_of stops at the T, so that what follows begins with the O; the
\* length of what precedes it is counted from the end and, below zero, is all
GetDateRange(range) ==
  LET pos  == SelectInSeq(range, LAMBDA c : c \in {"T", "O"})
      size == Len(range)
  IN IF Head(range) = "0" THEN << <<"0">>, MAX_INT >>
     ELSE IF pos = 0 THEN << SubSeq(range, 1, size - 1), range >>
     ELSE << SubSeq(range, 1, IF pos = size THEN size ELSE size - pos - 1),
             SubSeq(range, pos + 1, size) >>

\* fetchTasks(mask, range, count): the server refuses a bound that is no
\* number, and parseTasks looks for a column that was not selected in every
\* row, so that only a call that selects none returns; their order is nothing
\* then, and max_id is not used.
FetchTasksIn(mask, range, count) ==
  LET bounds  == GetDateRange(range)
      refused == ~(IsNumeral(bounds[1]) /\ IsNumeral(bounds[2]))
      rows    == SelectSeq(scheduleRows, LAMBDA r :
                   /\ r.mask = mask
                   /\ r.time >= NumberOf(bounds[1])
                   /\ bounds[2] = MAX_INT \/ r.time <= NumberOf(bounds[2]))
  IN /\ Reply("range", range, ~refused /\ (rows = <<>> \/ count = 0), <<>>)
     /\ UNCHANGED rowVars

\* a list for each id, which the code appends to one another
GetFilesOf(sids, type) ==
  /\ Reply("files", [sids |-> sids, type |-> type], TRUE,
           [i \in DOMAIN sids |-> GetFiles(sids[i], type)])
  /\ UNCHANGED rowVars

\* the flags of one row with the mask, whichever comes first
GetFlags(mask) ==
  LET rows == { r \in Range(scheduleRows) : r.mask = mask }
  IN /\ \/ rows = {} /\ Reply("flags", mask, TRUE, <<>>)
        \/ \E r \in rows : Reply("flags", mask, TRUE, r.flags)
     /\ UNCHANGED rowVars

HasRecurring(id) == \E i \in DOMAIN recurringRows : recurringRows[i].sid = id
-----------------------------------------------------------------------------
(***************************************************************************)
(* Triggers.                                                               *)
(***************************************************************************)
Matches(row, trigger) == Token(row.env, trigger.token_name) = trigger.token_value

\* The time of a task that ran, as fetchTasks and fetchRecurringTasks read it.
FetchedTime(row) ==
  IF row.recurring = 0 THEN row.time
  ELSE TimeAsToday(recurringRows[CHOOSE i \in DOMAIN recurringRows : recurringRows[i].sid = row.id].time)

\* Trigger::process: the tokens of the task's flags that the trigger maps,
\* under their new names, and the settings that it takes from the
\* configuration where they are set.  parseTasks left the task's files empty.
TriggeredTask(row, trigger) ==
  LET tokens   == InOrder(row.flags, { i \in DOMAIN row.flags : row.flags[i] \in DOMAIN trigger.map })
      settings == InOrder(trigger.config,
                          { i \in DOMAIN trigger.config : trigger.config[i].value # "" })
      flags    == [i \in DOMAIN tokens |-> trigger.map[tokens[i]]]
                  \o [i \in DOMAIN settings |-> settings[i].token_name]
      values   == [i \in DOMAIN tokens |-> Token(row.env, tokens[i])]
                  \o [i \in DOMAIN settings |-> settings[i].value]
  IN [ time |-> FetchedTime(row), mask |-> trigger.trigger_mask, flags |-> flags,
       env |-> [f \in Range(flags) |-> values[FirstOfPlaces({ i \in DOMAIN flags : flags[i] = f })]],
       recurring |-> 0, notify |-> FALSE, files |-> <<>> ]

\* get_triggers: the trigger of the mask that matches and whose application
\* exists.  Its match replaces the rows that the loop walks, which ends well
\* only when the match is the last of them, and else reads what was freed.
GetTriggers(row) ==
  LET rows == InOrder(TriggerRows, { i \in DOMAIN TriggerRows : TriggerRows[i].mask = row.mask })
      hit  == FirstOfPlaces({ i \in DOMAIN rows : /\ Matches(row, rows[i])
                                                 /\ rows[i].trigger_mask \in Apps })
  IN [ ok |-> hit \in {0, Len(rows)}, found |-> IF hit \in 1 .. Len(rows) THEN << rows[hit] >> ELSE <<>> ]

\* processTriggers, after a task that was fetched and ran.
ProcessTriggers(w, id) ==
  /\ id \in DOMAIN scheduleRows
  /\ scheduleRows[id].recurring # 0 => HasRecurring(id)
  /\ saving[w] = Idle
  /\ LET row  == scheduleRows[id]
         got  == GetTriggers(row)
         task == TriggeredTask(row, Head(got.found))
     IN \/ /\ ~got.ok \/ got.found = <<>>
           /\ Reply("triggers", id, got.ok, TRUE)
           /\ UNCHANGED rowVars
        \/ /\ got.ok /\ got.found # <<>>
           /\ IF Validate(task)
              THEN ScheduleRow(w, task) /\ Reply("triggers", id, TRUE, TRUE)
              ELSE Reply("triggers", id, TRUE, FALSE) /\ UNCHANGED rowVars

\* addTrigger reads pairs and triples that overlap, and .at throws beyond the
\* payload; it never sets the application of the trigger, so that Trigger::add
\* finds it not ready, inserts nothing and reports success.
AddTrigger(args) ==
  LET valid == {args.mask, args.trigger_mask} \subseteq Apps
      read  == /\ args.map_num > 0 => args.size > 6 + args.map_num
               /\ args.config_num > 0 => args.size > 7 + args.map_num + args.config_num
  IN /\ Reply("add_trigger", args, args.size >= 7 /\ (valid => read), valid)
     /\ UNCHANGED rowVars

Query ==
  \/ \E id \in 0 .. Len(scheduleRows) : GetTask(id)
  \/ \E id \in 1 .. MaxTasks : GetTaskInt(id) \/ UpdateEnvfile(id)
  \/ \E id \in 1 .. MaxTasks, w \in Writers : ProcessTriggers(w, id)
  \/ FetchAllTasks
  \/ \E range \in Ranges, task \in TaskInputs, count \in {0, 1} : FetchTasksIn(task.mask, range, count)
  \/ \E sids \in { <<0>>, <<1>>, <<2, 1>> }, type \in {"", "image"} : GetFilesOf(sids, type)
  \/ \E task \in TaskInputs : GetFlags(task.mask)
  \/ \E args \in TriggerArgs : AddTrigger(args)

TasksNext ==
  \/ \E w \in Writers :
       \/ \E task \in TaskInputs : Schedule(w, task)
       \/ ScheduleFile(w) \/ ScheduleRecurring(w) \/ ScheduleFails(w)
  \/ \E id \in 1 .. MaxTasks, completed \in {2} : UpdateStatus(id, completed)
  \/ Query

TasksSpec == TasksInit /\ [][TasksNext]_taskVars
-----------------------------------------------------------------------------
(***************************************************************************)
(* Properties.                                                             *)
(***************************************************************************)
OwnFiles(id) ==
  LET rows == InOrder(fileRows, { i \in DOMAIN fileRows : fileRows[i].sid = id })
  IN [i \in DOMAIN rows |-> rows[i].name]

AsStored(task, row) ==
  /\ task.mask = row.mask /\ task.flags = row.flags /\ task.env = row.env
  /\ task.completed = row.completed /\ task.recurring = row.recurring /\ task.notify = row.notify
  /\ task.time % Day = row.time % Day

TaskReadBack ==
  reply.op = "task" /\ reply.of # 0 =>
    LET row == scheduleRows[reply.of]
    IN IF row.mask \notin DOMAIN MaskNames THEN ~reply.ok
       ELSE /\ reply.ok
            /\ reply.value.id = reply.of /\ AsStored(reply.value, row)
            /\ reply.value.filenames = OwnFiles(reply.of)

AllReadBack ==
  reply.op = "all" =>
    IF ~Named(scheduleRows) THEN ~reply.ok
    ELSE /\ reply.ok
         /\ { t.id : t \in Range(reply.value) } = DOMAIN scheduleRows
         /\ \A t \in Range(reply.value) : /\ AsStored(t, scheduleRows[t.id])
                                          /\ t.filenames = FlattenSeq(OwnFiles(t.id))

FilesReadBack ==
  reply.op = "files" /\ 0 \notin Range(reply.of.sids) =>
    { << f.task_id, f.name >> : f \in UNION { Range(files) : files \in Range(reply.value) } }
      = { << f.sid, f.name >> : f \in { f \in Range(fileRows) : /\ f.sid \in Range(reply.of.sids)
                                                             /\ reply.of.type \in {"", f.type} } }

\* Where two tokens are mapped to one name, the value is that of either.
TriggersFollowed ==
  reply.op = "triggers" /\ reply.ok /\ reply.value =>
    LET row == scheduleRows[reply.of]
        mapped(t) == Range(row.flags) \cap DOMAIN t.map
    IN \A t \in Range(TriggerRows) :
         t.mask = row.mask /\ Matches(row, t) /\ t.trigger_mask \in Apps =>
           \E new \in Range(scheduleRows) :
             /\ new.mask = t.trigger_mask
             /\ \A f \in mapped(t) :
                  /\ t.map[f] \in Range(new.flags)
                  /\ \E g \in mapped(t) : /\ t.map[g] = t.map[f]
                                           /\ Token(new.env, t.map[f]) = Token(row.env, g)

RecurrencesKept ==
  \A id \in DOMAIN scheduleRows \ cutShort :
    scheduleRows[id].recurring # 0 /\ (\A w \in Writers : saving[w].id # id) => HasRecurring(id)

\* A query that answers gives every task as it is stored, with the files that
\* were recorded for it so far and none of another task, while other threads
\* record more; and one task of an application that m_app_map does not know
\* keeps the whole schedule from being read, not only that task.  A task that
\* a trigger matched is followed by one that holds each token the trigger
\* maps, and a recurring task whose insertion did not fail has its recurrence
\* (scheduler.cpp schedule, parseTask, parseTasks, getFiles; trigger.cpp process).
TasksReadBack ==
  TaskReadBack /\ AllReadBack /\ FilesReadBack /\ TriggersFollowed /\ RecurrencesKept
=============================================================================
