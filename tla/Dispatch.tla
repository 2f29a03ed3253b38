------------------------------ MODULE Dispatch ------------------------------
(***************************************************************************)
(* How requests become events and events become messages: the controller's *)
(* switch over the requests of a client, the table of event handlers, the  *)
(* events the scheduler and the platforms raise in their turn, and what    *)
(* reaches the sockets, or does not because a session went away.           *)
(*                                                                         *)
(* Three kinds of threads run handlers: one worker for each client, the    *)
(* controller's loop and the worker of the IPC manager.  A thread's stack  *)
(* is the rest of the calls its input makes, the next one first.  A call   *)
(* that sends, saves or raises an event is a step, so that the threads     *)
(* interleave between any two of them.                                     *)
(*                                                                         *)
(* Of a payload only what decides the control is kept (a short tag); what  *)
(* the database answers is a choice.  Sessions are told apart by their     *)
(* descriptor, and iterated in its order; Connections has what makes them  *)
(* come and go, FileTransfers the files, IPCManager the queue of messages, *)
(* TaskSchedule and PlatformPosts the rows.                                *)
(***************************************************************************)
EXTENDS Integers, Sequences, FiniteSets

CONSTANTS Fds,        \* descriptors of clients
          Requesters, \* those whose clients make requests of the controller
          MaxInputs   \* bound on the inputs of all the threads

ASSUME FdsAssumption    == /\ Fds \subseteq Nat \ {0} /\ IsFiniteSet(Fds)
                           /\ Requesters \subseteq Fds
ASSUME InputsAssumption == MaxInputs \in Nat

VARIABLES
  sessions,   \* the session of a descriptor: "none", "active", "inactive" (it
              \* has ended, or been silent for 20 seconds), or "dangling"
              \* (erased by its name, its pointer left behind)
  stack,      \* the calls each thread has yet to make
  input,      \* what each thread was last given
  log,        \* what it has sent to one client, and whether it threw
  away,       \* the clients that have not been active all the while
  m_requests, \* what the controller asks of the main thread
  inputs,     \* how many inputs there have been
  fate        \* "running", or how the server ended

vars == <<sessions, stack, input, log, away, m_requests, inputs, fate>>

Loop    == -2                  \* Controller::InfiniteLoop
Ipc     == -3                  \* the worker of the IPC manager
Threads == Fds \cup {Loop, Ipc}

ALL_CLIENTS == -1

-----------------------------------------------------------------------------
(* The calls a handler makes.                                              *)

Event(fd, code, arg) == <<"event", fd, code, arg>>
System(code, arg)    == <<"system", code, arg>>
Send(fd, name)       == <<"send", fd, name>>
Broadcast(name)      == <<"broadcast", name>>
CastTo(fd, name)     == <<"castto", fd, name>>
Cast(fd, name, told) == <<"cast", fd, name, told>> \* the iterator stands on fd
Throw(why)           == <<"throw", why>>
EndTry               == <<"endtry">>
Return               == <<"return">>               \* to wait for the next input
InitClient(fd)       == <<"init", fd>>
EndSession(fd)       == <<"end", fd>>
Notify(fd)           == <<"notify", fd>>
ValidateClients      == <<"sweep">>
Request(what)        == <<"request", what>>

SendEvent(fd, name) ==
  IF fd = ALL_CLIENTS THEN <<Broadcast(name)>> ELSE <<Send(fd, name)>>

\* One of the first calls, then one of the second.
Then(first, second) == {a \o b : a \in first, b \in second}

\* What changes nothing this module has: a row, a file, a counter, a mail, or
\* the queue of the IPC manager.
Effect(what)       == <<>>
ReceiveEvent(code) == Effect("a message for a peer")
SendMail           == Effect("mail")
ScheduleIPC        == Effect("a request for a peer")

-----------------------------------------------------------------------------
(* The codes of the events, and their handlers.                            *)

FILE_UPDATE == 1
PROCESS_EXECUTION_REQUESTED == 2
SCHEDULED_TASKS_READY == 3
SCHEDULER_FETCH == 5
SCHEDULER_FETCH_TOKENS == 6
SCHEDULER_UPDATE == 7
SCHEDULER_SUCCESS == 8
REGISTRAR_SUCCESS == 10
REGISTRAR_FAIL == 11
TASK_FETCH_FLAGS == 12
PLATFORM_CREATED == 38
PLATFORM_NEW_POST == 15
PLATFORM_POST_REQUESTED == 16
PLATFORM_ERROR == 17
PLATFORM_REQUEST == 18
PLATFORM_EVENT == 19
PLATFORM_INFO == 20
PLATFORM_FETCH_POSTS == 22
PLATFORM_UPDATE == 23
PROCESS_COMPLETE == 24
TRIGGER_ADD_SUCCESS == 26
TRIGGER_ADD_FAIL == 27
FILES_SEND == 28
FILES_SEND_ACK == 29
FILES_SEND_READY == 30
TASK_DATA == 31
TASK_DATA_FINAL == 32
PROCESS_RESEARCH == 33
PROCESS_RESEARCH_RESULT == 34
KIQ_IPC_MESSAGE == 35
TERM_HITS == 36
IPC_REQUEST == 37
STATUS_REPORT == 38
IPC_RECONNECT_REQUEST == 39

\* m_dispatch_table in the order it is written.
DispatchTable == <<
  <<1, "on_file_update">>, <<2, "on_execution_requested">>,
  <<3, "on_tasks_ready">>, <<4, "on_tasks_none">>,
  <<5, "on_scheduler_fetch">>, <<6, "on_scheduler_tokens">>,
  <<7, "on_scheduler_update">>, <<8, "on_scheduler_success">>,
  <<9, "on_scheduler_fail">>, <<10, "on_registrar_success">>,
  <<11, "on_registrar_fail">>, <<12, "on_task_flags">>,
  <<13, "on_application_fetch_success">>,
  <<14, "on_application_fetch_fail">>, <<38, "on_platform_created">>,
  <<15, "on_platform_new_post">>, <<16, "on_platform_post_request">>,
  <<17, "on_platform_error">>, <<18, "on_platform_request">>,
  <<19, "on_platform_event">>, <<20, "on_platform_info">>,
  <<21, "on_platform_info_request">>, <<22, "on_platform_fetch_posts">>,
  <<23, "on_platform_update">>, <<24, "on_process_complete">>,
  <<25, "on_scheduler_request">>, <<26, "on_trigger_add_success">>,
  <<27, "on_trigger_add_fail">>, <<28, "on_files_send">>,
  <<29, "on_files_send_ack">>, <<30, "on_files_send_ready">>,
  <<31, "on_task_data">>, <<32, "on_task_data_final">>,
  <<33, "on_process_research">>, <<34, "on_process_research_result">>,
  <<35, "on_KIQ_ipc_Message">>, <<36, "on_term_hits">>,
  <<38, "on_status_report">>, <<39, "on_ipc_reconnect_request">> >>

\* A table indexed by the code.
HandlerAt == [code \in 1 .. 39 |-> DispatchTable[code][2]]

\* A std::map keeps the first of two entries with one key.
HandlerOf == [code \in 1 .. 39 |->
  LET entries == {i \in DOMAIN DispatchTable : DispatchTable[i][1] = code}
  IN  IF entries = {} THEN "none"
      ELSE DispatchTable[CHOOSE i \in entries : \A j \in entries : i <= j][2]]

\* The handlers that only send their payload on, under this name.
ForwardedAnswers ==
  [on_execution_requested |-> "Process Execution Requested",
   on_tasks_ready |-> "Scheduled Tasks Ready",
   on_tasks_none |-> "No tasks ready",
   on_scheduler_fetch |-> "Scheduled Tasks",
   on_scheduler_tokens |-> "Schedule Tokens",
   on_scheduler_update |-> "Schedule PUT",
   on_scheduler_success |-> "Task Scheduled",
   on_registrar_success |-> "Application was registered",
   on_registrar_fail |-> "Failed to register application",
   on_task_flags |-> "Application Flags",
   on_application_fetch_success |-> "Application was found",
   on_application_fetch_fail |-> "Application was not found",
   on_platform_created |-> "Platform post created"]

ForwardedData ==
  [on_task_data |-> "Task Data",
   on_task_data_final |-> "Task Data Final",
   on_term_hits |-> "Term Hits",
   on_status_report |-> "Status Report"]

NoActions == {"on_scheduler_fail", "on_process_complete", "on_scheduler_request",
              "on_trigger_add_success", "on_trigger_add_fail",
              "on_process_research", "on_process_research_result"}

\* A file that came is saved and announced; a file of several is saved, and
\* then payload.at(3) throws because the payload ends before it.
OnFileUpdate(fd, arg) ==
  {<<Send(fd, "File Save Failure")>>,
   Effect("file saved") \o IF arg = "final" THEN <<Send(fd, "File Save Success")>>
                                                ELSE <<Throw("payload")>>}

OnPlatformNewPost(fd, arg) ==
  {<<System(PLATFORM_NEW_POST, arg)>> \o SendEvent(fd, "Platform Post")}

\* A request no bot takes is raised once more.
PostRequestAgain(fd, arg) ==
  {IF arg = "bot" THEN ReceiveEvent(PLATFORM_POST_REQUESTED)
                  ELSE <<Event(fd, PLATFORM_POST_REQUESTED, arg)>>}

OnPlatformPostRequest(fd, arg) ==
  {IF arg = "bot" THEN ReceiveEvent(PLATFORM_POST_REQUESTED)
                  ELSE <<System(PLATFORM_ERROR, arg)>>}

OnPlatformErrorEvent(fd, arg) ==
  {<<System(PLATFORM_ERROR, arg), Broadcast("Platform Error")>>}

OnPlatformInfo(fd, arg) ==
  {SendEvent(fd, "Platform Info") \o ReceiveEvent(PLATFORM_EVENT)
     \o (IF arg = "agitation" THEN SendMail ELSE <<>>)}

\* The queue of outbound files is FileTransfers': here its front may be
\* anyone's.
OnFilesSend(fd)      == {Effect("files enqueued") \o <<Send(fd, "File Upload")>>}
OnFilesSendAck(fd)   == {<<Send(f, "File Upload Meta")>> : f \in Fds}
OnFilesSendReady(fd) == {<<Send(f, "the bytes of the file")>> : f \in Fds}

\* What the handler of an event does.  A code that is not in the table finds
\* an empty std::function, and calling it throws.
Handle(fd, code, arg) ==
  LET handler == HandlerOf[code]
  IN  CASE handler \in DOMAIN ForwardedAnswers -> {SendEvent(fd, ForwardedAnswers[handler])}
        [] handler \in DOMAIN ForwardedData    -> {SendEvent(fd, ForwardedData[handler])}
        [] handler \in NoActions       -> {<<>>}
        [] handler = "on_file_update"  -> OnFileUpdate(fd, arg)
        [] handler = "on_platform_new_post" -> OnPlatformNewPost(fd, arg)
        [] handler = "on_platform_post_request" -> OnPlatformPostRequest(fd, arg)
        [] handler = "on_platform_error" -> OnPlatformErrorEvent(fd, arg)
        [] handler = "on_platform_request" -> {<<System(code, arg)>>}
        [] handler = "on_platform_info" -> OnPlatformInfo(fd, arg)
        [] handler = "on_platform_fetch_posts" -> {<<Broadcast("Platform Posts")>>}
        [] handler = "on_platform_update" -> {<<Broadcast("Platform Update")>>}
        [] handler = "on_files_send" -> OnFilesSend(fd)
        [] handler = "on_files_send_ack" -> OnFilesSendAck(fd)
        [] handler = "on_files_send_ready" -> OnFilesSendReady(fd)
        [] handler = "on_ipc_reconnect_request" -> {<<Request("RECONNECT_IPC")>>}
        [] handler \in {"on_platform_event", "on_platform_info_request",
                        "on_KIQ_ipc_Message"} -> {ReceiveEvent(code)}
        [] OTHER -> {<<Throw("bad_function_call")>>}

-----------------------------------------------------------------------------
(* What the scheduler and the platforms do with an event.                  *)

\* Platform::Update raises an event of its own, unless the post has no id.
Update == {<<>>, <<Event(ALL_CLIENTS, PLATFORM_UPDATE, "none")>>}

\* A post that is known is updated, another one is inserted; either may fail.
SavePlatformPost ==
  Then(Update, {<<Event(ALL_CLIENTS, PLATFORM_CREATED, "none")>>,
                <<Event(ALL_CLIENTS, PLATFORM_ERROR, "post")>>})

\* The payload of this error is too short for its handlers.
SavePlatformPostOfTask ==
  {<<Throw("application")>>}
    \cup Then(Update, {<<Event(ALL_CLIENTS, PLATFORM_CREATED, "none")>>,
                       <<Event(ALL_CLIENTS, PLATFORM_ERROR, "short")>>})

OnPlatformError(arg) ==
  IF arg = "short" THEN {<<Throw("payload")>>}
                   ELSE Then({SendMail}, Update)

\* Scheduler::OnPlatformError: the platform's part, then the answer of a peer
\* is recorded.
OnErrorOfPlatform(arg) == Then(OnPlatformError(arg), {Effect("IPC received")})

\* The messages that wait are raised as events, and no command is pending.
SetIPCCommand         == Effect("m_ipc_command")
ResolvePending(queue) ==
  [i \in DOMAIN queue |-> Event(ALL_CLIENTS, queue[i][1], queue[i][2])] \o SetIPCCommand

\* No research is ever under way, so that the data of a poll finds no input
\* and is mailed; but the inputs always count as ready (the loop over them
\* ends in true), and their data, the header or nothing, is sent and made a
\* task of the application that is found for it, or of none.
FinalizeMLInputs == SendMail
MLInputReady     == TRUE
FindMask         == Effect("the mask of Kneural")
GenerateMLData   ==
  FindMask \o Effect("task scheduled") \o ResolvePending(<< <<PLATFORM_POST_REQUESTED, "bot">> >>)

\* The result of a poll is matched with its request, which may not be the
\* last one that is awaited.
OnPlatformRequest(arg) ==
  CASE arg = "poll_result" ->
         {<<>>} \cup Then({<<>>, FinalizeMLInputs},
                          {<<>>} \cup (IF MLInputReady THEN {GenerateMLData} ELSE {}))
    [] arg \in {"poll_stop", "generate"} -> {ScheduleIPC}
    [] OTHER -> {<<>>}

\* GetTask(int) selects no column "recurring", which parseTask reads from
\* every row, so that it throws for the id of a task.
GetTaskInt(id) == IF id = "task" THEN <<Throw("column")>> ELSE <<>>

\* The parent is read, to be the root of a list, and then its child, which is
\* a task.
PostExecWait(id) == GetTaskInt(id) \o Effect("a root") \o GetTaskInt("task")

\* The application may be unknown, or the task not be inserted.
CreateChild(id) == {<<>>, Effect("task scheduled") \o PostExecWait(id)}

\* Only roots that are no tasks are ever recorded, all with the id 0, and
\* only the result of a process with that id finds one.  Its own task may not
\* be recorded, it has no application, and no messages wait.
PostExecWork     == {<<Throw("child")>>, ResolvePending(<<>>), <<>>}
FindPostExec(id) == {<<>>} \cup (IF id = "task" THEN {} ELSE PostExecWork)

\* What the parsers make of an output: a post, with the header of the task; a
\* result of research; or text to research, whose event is kept with the root
\* an earlier text may have left.
OnProcessOutput(id) ==
  {<<>>, GetTaskInt(id) \o <<Event(ALL_CLIENTS, PLATFORM_NEW_POST, "post")>>}
    \cup FindPostExec(id)
    \cup Then(CreateChild(id), {<<>>, <<Throw("child")>>})

\* Controller::ProcessSystemEvent.
ProcessSystemEvent(code, arg) ==
  LET handled == CASE code = PLATFORM_REQUEST  -> OnPlatformRequest(arg)
                   [] code = PLATFORM_NEW_POST -> SavePlatformPost
                   [] code = PLATFORM_ERROR    -> OnErrorOfPlatform(arg)
                   [] code = PROCESS_COMPLETE  -> OnProcessOutput(arg)
                   [] OTHER                    -> {<<>>}
  IN  Then(handled, {Effect("m_system_rq_count")})

\* KServer::OnProcessEvent: the output of a process of the project's own is
\* parsed, if the id of its request is a number.
OnProcessEvent(id) ==
  Then({<<Broadcast("Process Result")>>},
       {<<>>, <<IF id = "text" THEN Throw("stoi") ELSE System(PROCESS_COMPLETE, id)>>})

-----------------------------------------------------------------------------
(* What is asked of the threads.                                           *)

Execute(fd) ==
  {<<>>} \cup
  Then({<<Event(fd, PROCESS_EXECUTION_REQUESTED, "none")>>},
       {<<>>} \cup UNION {OnProcessEvent(id) : id \in {"task", "number", "text"}})

\* What the requests may lead to.  GET_, REGISTER_ and REMOVE_APPLICATION:
Application(fd) == {<<Event(fd, REGISTRAR_SUCCESS, "none")>>,
                    <<Event(fd, REGISTRAR_FAIL, "none")>>}

FetchSchedule(fd) == {<<Event(fd, SCHEDULER_FETCH, "tasks"),
                        Event(fd, SCHEDULER_FETCH, "end"), EndTry>>,
                      <<Throw("application"), EndTry>>}

UpdateSchedule(fd) == {<<Event(fd, SCHEDULER_UPDATE, "none")>>}

FetchScheduleTokens(fd) == {<<>>, <<Event(fd, SCHEDULER_FETCH_TOKENS, "none")>>}

\* fetchTasks selects no FILEQUERY: parseTasks throws when there is a row.
FetchTaskData(fd) == {<<Event(fd, TASK_DATA, "none"), Event(fd, TASK_DATA_FINAL, "none")>>,
                      <<Throw("column")>>}

TriggerCreate(fd) == {<<Event(fd, TRIGGER_ADD_SUCCESS, "none")>>,
                      <<Event(fd, TRIGGER_ADD_FAIL, "none")>>, <<Throw("payload")>>}

\* One answer with every hit of a term, however many there are.
FetchTermEvents(fd) == {<<Event(fd, TERM_HITS, "none")>>}

\* Controller::ProcessClientRequest.
ProcessClientRequest == [fd \in Fds |->
  [APPLICATION |-> Application(fd),
   FETCH_SCHEDULE |-> FetchSchedule(fd),
   UPDATE_SCHEDULE |-> UpdateSchedule(fd),
   FETCH_SCHEDULE_TOKENS |-> FetchScheduleTokens(fd),
   FETCH_TASK_DATA |-> FetchTaskData(fd),
   TRIGGER_CREATE |-> TriggerCreate(fd),
   TASK_FLAGS |-> {<<Event(fd, TASK_FETCH_FLAGS, "none")>>},
   FETCH_FILE |-> {<<>>, <<Event(fd, FILES_SEND, "none")>>},
   FETCH_FILE_ACK |-> {<<Event(fd, FILES_SEND_ACK, "none")>>},
   FETCH_FILE_READY |-> {<<Event(fd, FILES_SEND_READY, "none")>>},
   FETCH_TERM_HITS |-> FetchTermEvents(fd),
   CONVERT_TASK |-> SavePlatformPostOfTask,
   EXECUTE |-> Execute(fd),
   FETCH_POSTS |-> {<<Event(ALL_CLIENTS, PLATFORM_FETCH_POSTS, "none")>>},
   UPDATE_POST |-> SavePlatformPost \cup {<<Throw("payload")>>},
   KIQ_STATUS |-> {<<Event(fd, STATUS_REPORT, "none")>>},
   IPC_REQUEST |-> {ScheduleIPC},
   \* UPDATE_APPLICATION, UNKNOWN and any other number
   UNKNOWN |-> {<<>>}]]

\* Controller::operator(): the files the client uploaded, then the task.
ScheduleTask(fd) ==
  LET files == {<<>>, <<Event(fd, FILE_UPDATE, "final")>>,
                <<Event(fd, FILE_UPDATE, "none"), Event(fd, FILE_UPDATE, "none")>>}
  IN  {<<>>, <<Throw("stoi")>>}
        \cup Then(files, {<<>>, <<Event(fd, SCHEDULER_SUCCESS, "none")>>})

\* The messages of a client that are no requests of the controller.  The
\* session of a client that sends a wrong token ends as it does with STOP.
ClientMessages == [fd \in Fds |->
  [START    |-> {<<InitClient(fd)>>},
   STOP     |-> {<<EndSession(fd)>>},
   PING     |-> {<<Notify(fd), Send(fd, "pong")>>},
   UPLOAD   |-> {<<Send(fd, "File Ready")>>},
   MESSAGE  |-> {<<Send(fd, "Message Received")>>},
   SCHEDULE |-> Then({<<Send(fd, "Processing Schedule Request")>>}, ScheduleTask(fd))]]

\* The table of IPCManager: the messages of peers, and what the watch over
\* their heartbeats raises.
PeerEvents == {<<PLATFORM_NEW_POST, "post">>, <<PLATFORM_REQUEST, "poll_result">>,
               <<PLATFORM_REQUEST, "poll_stop">>, <<PLATFORM_REQUEST, "other">>,
               <<PLATFORM_INFO, "info">>, <<PLATFORM_INFO, "agitation">>,
               <<PLATFORM_ERROR, "post">>, <<KIQ_IPC_MESSAGE, "none">>,
               <<IPC_RECONNECT_REQUEST, "none">>}

\* A pass of Controller::InfiniteLoop: the due task, the sessions that are
\* silent, the requests to peers, the posts to platforms and the messages that
\* wait, of which there are none.
InfiniteLoop ==
  <<<<"tasks">>, ValidateClients, <<"ipc">>, <<"platforms">>>> \o ResolvePending(<<>>)

HandlePendingTasks ==
  {<<>>} \cup Then({<<Event(ALL_CLIENTS, SCHEDULED_TASKS_READY, "none")>>}, OnProcessEvent("task"))

SendIPCRequest == {<<>>, <<Event(ALL_CLIENTS, PLATFORM_EVENT, "none")>>}

ProcessPlatform ==
  {<<>>} \cup {<<Event(ALL_CLIENTS, PLATFORM_POST_REQUESTED, method)>> :
                  method \in {"bot", "process"}}

-----------------------------------------------------------------------------
\* Some clients have logged in.
Init == /\ sessions \in [Fds -> {"none", "active"}]
        /\ stack = [t \in Threads |-> <<>>]
        /\ input = [t \in Threads |-> "none"]
        /\ log = [t \in Threads |-> <<>>]
        /\ away = [t \in Threads |-> {}]
        /\ m_requests = <<>>
        /\ inputs = 0
        /\ fate = "running"

Active == {f \in Fds : sessions[f] = "active"}

\* The clients that have been away once fd is not active.
Without(fd) == [t \in Threads |-> IF input[t] = "none" THEN {} ELSE away[t] \cup {fd}]

Idle(t) == fate = "running" /\ stack[t] = <<>> /\ inputs < MaxInputs

Begin(t, what, calls) ==
  /\ stack' = [stack EXCEPT ![t] = Append(calls, Return)]
  /\ input' = [input EXCEPT ![t] = what]
  /\ away' = [away EXCEPT ![t] = Fds \ Active]
  /\ inputs' = inputs + 1
  /\ UNCHANGED <<sessions, log, m_requests, fate>>

\* KServer::ReceiveMessage and OperationRequest.
ClientSends(fd) ==
  /\ Idle(fd)
  /\ \/ \E type \in DOMAIN ClientMessages[fd] :
          \E calls \in ClientMessages[fd][type] : Begin(fd, type, calls)
     \/ /\ fd \in Requesters
        /\ \E type \in DOMAIN ProcessClientRequest[fd] :
             \E calls \in ProcessClientRequest[fd][type] :
               Begin(fd, type, calls \o Effect("m_client_rq_count"))

PeerSends ==
  /\ Idle(Ipc)
  /\ \E e \in PeerEvents : Begin(Ipc, "peer", <<Event(ALL_CLIENTS, e[1], e[2])>>)

LoopPasses == Idle(Loop) /\ Begin(Loop, "pass", InfiniteLoop)

\* A client has not been heard of for 20 seconds.
Expire(fd) ==
  /\ fate = "running"
  /\ sessions[fd] = "active"
  /\ sessions' = [sessions EXCEPT ![fd] = "inactive"]
  /\ away' = Without(fd)
  /\ UNCHANGED <<stack, input, log, m_requests, inputs, fate>>

\* KServer::run takes a request of the controller and has the IPC manager
\* connect again.
GetRequest ==
  /\ fate = "running"
  /\ m_requests # <<>>
  /\ m_requests' = Tail(m_requests)
  /\ UNCHANGED <<sessions, stack, input, log, away, inputs, fate>>

-----------------------------------------------------------------------------
(* The steps of a thread.                                                  *)

NextIs(t, kind) == /\ fate = "running"
                   /\ stack[t] # <<>>
                   /\ Head(stack[t])[1] = kind

Goes(t, calls)   == stack' = [stack EXCEPT ![t] = calls \o Tail(@)]
Records(t, what) == log' = [log EXCEPT ![t] = Append(@, what)]

\* An exception leaves the calls up to the end of the try block around them.
\* Around everything a client's worker does there is one, and none around the
\* loop, whose thread then ends the server; an exception ends the worker of
\* the IPC manager, which IPCManager replaces.
Unwind(t, why) ==
  LET caught == {i \in DOMAIN stack[t] : stack[t][i] \in {EndTry, Return}}
      to     == CHOOSE i \in caught : \A j \in caught : i <= j
  IN  /\ stack' = [stack EXCEPT ![t] = SubSeq(@, to, Len(@))]
      /\ fate' = IF t = Loop THEN why ELSE fate

\* evt::operator() and Controller::ProcessSystemEvent.
Call(t) ==
  /\ \/ /\ NextIs(t, "event")
        /\ LET e == Head(stack[t])
           IN  \E calls \in Handle(e[2], e[3], e[4]) : Goes(t, calls)
     \/ /\ NextIs(t, "system")
        /\ LET e == Head(stack[t])
           IN  \E calls \in ProcessSystemEvent(e[2], e[3]) : Goes(t, calls)
     \/ NextIs(t, "tasks") /\ \E calls \in HandlePendingTasks : Goes(t, calls)
     \/ NextIs(t, "ipc") /\ \E calls \in SendIPCRequest : Goes(t, calls)
     \/ NextIs(t, "platforms") /\ \E calls \in ProcessPlatform : Goes(t, calls)
  /\ UNCHANGED <<sessions, input, log, away, m_requests, inputs, fate>>

\* KServer::SendMessage: the message goes out, then the session is looked up
\* to count its bytes.  Through a pointer left behind that writes into freed
\* memory, which may end the server.
SendMessage(t) ==
  /\ NextIs(t, "send") \/ NextIs(t, "castto")
  /\ LET call == Head(stack[t])
         fd   == call[2]
     IN  /\ IF call[1] = "send" THEN Records(t, call) ELSE UNCHANGED log
         /\ \/ /\ sessions[fd] = "none"
               /\ Unwind(t, "session")
            \/ /\ sessions[fd] # "none"
               /\ Goes(t, <<>>)
               /\ fate' \in IF sessions[fd] = "dangling" THEN {fate, "crashed"} ELSE {fate}
  /\ UNCHANGED <<sessions, input, away, m_requests, inputs>>

\* The loop over the sessions breaks off at one that is not active.
AheadUntilInactive(fd) ==
  {f \in Active : f > fd /\ \A g \in Fds : g > fd /\ g < f => g \in Active}

Ahead(fd) == {f \in Active : f > fd}

\* KServer::Broadcast goes over the sessions and sends to the active ones.
\* When the session its iterator stands on was erased meanwhile, it goes on
\* from freed memory.
BroadcastStep(t) ==
  /\ \/ /\ NextIs(t, "broadcast")
        /\ Goes(t, <<Cast(0, Head(stack[t])[2], {})>>)
        /\ UNCHANGED fate
     \/ /\ NextIs(t, "cast")
        /\ LET at    == Head(stack[t])[2]
               name  == Head(stack[t])[3]
               told  == Head(stack[t])[4]
               after == Ahead(at)
               next  == CHOOSE f \in after : \A g \in after : f <= g
           IN  /\ Goes(t, IF after = {} THEN <<>>
                          ELSE <<CastTo(next, name), Cast(next, name, told \cup {next})>>)
               /\ fate' \in IF at # 0 /\ sessions[at] \in {"none", "dangling"}
                            THEN {fate, "crashed"} ELSE {fate}
  /\ UNCHANGED <<sessions, input, log, away, m_requests, inputs>>

ThrowStep(t) ==
  /\ NextIs(t, "throw")
  /\ Unwind(t, Head(stack[t])[2])
  /\ Records(t, Head(stack[t]))
  /\ UNCHANGED <<sessions, input, away, m_requests, inputs>>

\* The end of a try block, and a request to the main thread.
RequestStep(t) ==
  /\ \/ NextIs(t, "endtry") /\ UNCHANGED m_requests
     \/ /\ NextIs(t, "request")
        /\ m_requests' = Append(m_requests, Head(stack[t])[2])
  /\ Goes(t, <<>>)
  /\ UNCHANGED <<sessions, input, log, away, inputs, fate>>

ReturnStep(t) ==
  /\ NextIs(t, "return")
  /\ Goes(t, <<>>)
  /\ input' = [input EXCEPT ![t] = "none"]
  /\ log' = [log EXCEPT ![t] = <<>>]
  /\ away' = [away EXCEPT ![t] = {}]
  /\ UNCHANGED <<sessions, m_requests, inputs, fate>>

\* What becomes of the session of fd, and who is no longer active.
Becomes(fd, state) ==
  /\ sessions' = [sessions EXCEPT ![fd] = state]
  /\ away' = IF state = "active" THEN away ELSE Without(fd)

\* Every application of the table, in one message.
CreateSession(fd) == <<Send(fd, "New Session")>>

\* KServer::InitClient: the session begins before its token is validated; a
\* user who is logged in already, on whichever descriptor, loses that session.
InitStep(t) ==
  /\ NextIs(t, "init")
  /\ LET fd == Head(stack[t])[2]
     IN  \/ /\ \E calls \in {CreateSession(fd) \o <<Send(fd, "Session started")>>,
                             <<Send(fd, "Session rejected"), EndSession(fd)>>} :
                 Goes(t, calls)
            /\ sessions[fd] # "active"
            /\ Becomes(fd, "active")
         \/ \E other \in Active :
              /\ Goes(t, <<Send(fd, "Session rejected"), EndSession(fd)>>)
              /\ Becomes(other, "dangling")
  /\ UNCHANGED <<input, log, m_requests, inputs, fate>>

\* The worker erases the session it ends.
EndSessionErases(t) ==
  /\ NextIs(t, "end")
  /\ Becomes(Head(stack[t])[2], "none")
  /\ Goes(t, <<>>)
  /\ UNCHANGED <<input, log, m_requests, inputs, fate>>

\* KServer::EndSession.
EndSessionStep(t) ==
  /\ NextIs(t, "end")
  /\ LET fd == Head(stack[t])[2]
     IN  Becomes(fd, IF sessions[fd] = "active" THEN "inactive" ELSE sessions[fd])
  /\ Goes(t, <<>>)
  /\ UNCHANGED <<input, log, m_requests, inputs, fate>>

\* The first half of KServer::SendPong: a ping keeps the session alive.
NotifyStep(t) ==
  /\ NextIs(t, "notify")
  /\ LET fd == Head(stack[t])[2]
     IN  \/ /\ sessions[fd] = "none"
            /\ Unwind(t, "session")
            /\ UNCHANGED <<sessions, away>>
         \/ /\ sessions[fd] # "none"
            /\ Goes(t, <<>>)
            /\ Becomes(fd, IF sessions[fd] = "dangling" THEN "dangling" ELSE "active")
            /\ UNCHANGED fate
  /\ UNCHANGED <<input, log, m_requests, inputs>>

\* KServer::ValidateClients: the sessions that are silent, and no others, are
\* ended and erased.  One that was just ended may not be silent long enough.
ValidateClientsStep ==
  /\ NextIs(Loop, "sweep")
  /\ \E expired \in SUBSET {f \in Fds : sessions[f] = "inactive"} :
       sessions' = [f \in Fds |-> IF f \in expired THEN "none" ELSE sessions[f]]
  /\ Goes(Loop, <<>>)
  /\ UNCHANGED <<input, log, away, m_requests, inputs, fate>>

Step(t) == \/ Call(t) \/ SendMessage(t) \/ BroadcastStep(t) \/ ThrowStep(t)
           \/ RequestStep(t) \/ ReturnStep(t) \/ InitStep(t) \/ EndSessionStep(t) \/ NotifyStep(t)
           \/ t = Loop /\ ValidateClientsStep

Next == \/ \E fd \in Fds : ClientSends(fd) \/ Expire(fd)
        \/ PeerSends \/ LoopPasses \/ GetRequest
        \/ \E t \in Threads : Step(t)

\* While threads have calls to make, one of them makes its next one: no call
\* takes a lock.
Spec == Init /\ [][Next]_vars /\ WF_vars(\E t \in Threads : Step(t))

-----------------------------------------------------------------------------
(* Properties.                                                             *)

\* No client that leaves, falls silent or logs in twice makes a send of the
\* controller's loop throw: an exception there has no handler and ends the
\* server.  The loop's own sweep is the only code that takes a descriptor out
\* of the session map (SendMessage, Broadcast, ValidateClients).
LoopOutlivesSessions == fate # "session"

\* A broadcast that comes to its end has been sent to every client that was
\* active since the thread began, whatever sessions came and went meanwhile
\* (Broadcast).
StayersHearAll ==
  \A t \in Threads :
    NextIs(t, "cast") /\ Ahead(Head(stack[t])[2]) = {}
      => Fds \ away[t] \subseteq Head(stack[t])[4]

\* What the client that makes a request is sent back.
Answers ==
     [APPLICATION     |-> {<<"Application was registered">>,
                           <<"Failed to register application">>},
      FETCH_SCHEDULE  |-> {<<"Scheduled Tasks", "Scheduled Tasks">>},
      UPDATE_SCHEDULE |-> {<<"Schedule PUT">>},
      FETCH_SCHEDULE_TOKENS |-> {<<>>, <<"Schedule Tokens">>},
      FETCH_TASK_DATA |-> {<<"Task Data", "Task Data Final">>},
      TASK_FLAGS      |-> {<<"Application Flags">>},
      FETCH_FILE      |-> {<<>>, <<"File Upload">>},
      FETCH_TERM_HITS |-> {<<"Term Hits">>},
      EXECUTE         |-> {<<>>, <<"Process Execution Requested">>},
      KIQ_STATUS      |-> {<<"Platform post created">>},
      PING            |-> {<<"pong">>},
      UPLOAD          |-> {<<"File Ready">>},
      MESSAGE         |-> {<<"Message Received">>}]

\* A client whose request is handled to its end, while its session stays, has
\* been sent the answers of its type, data before what closes it, and nobody
\* else has been sent any of them (ProcessClientRequest and the table of
\* handlers), whatever sessions its broadcasts meet.
AnsweredInFull ==
  \A f \in Fds :
    LET sent == log[f]
    IN  /\ stack[f] = <<Return>> /\ input[f] \in DOMAIN Answers
        /\ f \notin away[f]
        /\ \A i \in DOMAIN sent : sent[i][1] = "send"
        => /\ \A i \in DOMAIN sent : sent[i][2] = f
           /\ [i \in DOMAIN sent |-> sent[i][3]] \in Answers[input[f]]

\* Handlers raise events whose handlers raise events: each input comes to an
\* end, unless the server does (evt::operator(), ProcessSystemEvent).
InputsEnd ==
  []<>((\A t \in Threads : stack[t] = <<>>) \/ fate # "running")

=============================================================================
