--------------------------- MODULE DispatchProofs ---------------------------
(***************************************************************************)
(* Proofs about Dispatch.                                                  *)
(***************************************************************************)
EXTENDS Dispatch, WellFoundedInduction, TLAPS

-----------------------------------------------------------------------------
(* The calls a stack may hold, by their shapes.                            *)

MessageNames ==
  {ForwardedAnswers[h] : h \in DOMAIN ForwardedAnswers}
    \cup {ForwardedData[h] : h \in DOMAIN ForwardedData}
    \cup {"File Save Failure", "File Save Success", "Platform Post", "Platform Error",
          "Platform Info", "Platform Posts", "Platform Update", "File Upload",
          "File Upload Meta", "the bytes of the file", "Process Result", "pong",
          "File Ready", "Message Received", "Processing Schedule Request",
          "New Session", "Session started", "Session rejected"}

\* What is kept of payloads, of exceptions and of requests to the main thread.
Tags      == {"none", "post", "short", "bot", "process", "task", "number", "text", "tasks",
              "end", "final", "poll_result", "poll_stop", "other", "info",
              "agitation"}
Reasons   == {"payload", "bad_function_call", "application", "column", "child", "stoi"}
MainTasks == {"RECONNECT_IPC"}

\* What a handler may leave to be called: anything but a place in the loop of
\* a broadcast and the return.
PlainCall ==
  ({"event"} \X Int \X (1 .. 39) \X Tags)
    \cup ({"system"} \X (1 .. 39) \X Tags)
    \cup ({"send", "castto"} \X Int \X MessageNames)
    \cup ({"broadcast"} \X MessageNames)
    \cup ({"throw"} \X Reasons)
    \cup ({"request"} \X MainTasks)
    \cup ({"init", "end", "notify"} \X Fds)
    \cup {<<"endtry">>, <<"sweep">>, <<"tasks">>, <<"ipc">>, <<"platforms">>}

CastCall == {"cast"} \X Nat \X MessageNames \X SUBSET Fds

AnyCall == PlainCall \cup CastCall \cup {Return}

\* What the loop's thread may have to call: nothing for one client alone, and
\* events that are answered by broadcasts.
LoopCode   == {3, 15, 16, 17, 19, 23, 38}
SystemCode == {15, 17, 24}
LoopCall ==
  ({"event"} \X {ALL_CLIENTS} \X LoopCode \X Tags)
    \cup ({"system"} \X SystemCode \X Tags)
    \cup ({"broadcast"} \X MessageNames)
    \cup ({"throw"} \X Reasons)
    \cup {<<"sweep">>, <<"tasks">>, <<"ipc">>, <<"platforms">>}

OnLoop == LoopCall \cup CastCall \cup ({"castto"} \X Fds \X MessageNames) \cup {Return}

-----------------------------------------------------------------------------
(* The inductive invariant.                                                *)

Inputs == {"none", "peer", "pass"}
            \cup UNION {DOMAIN ClientMessages[fd] \cup DOMAIN ProcessClientRequest[fd] : fd \in Fds}

TypeInv ==
  /\ sessions \in [Fds -> {"none", "active", "inactive", "dangling"}]
  /\ stack \in [Threads -> Seq(AnyCall)]
  /\ input \in [Threads -> Inputs]
  /\ log \in [Threads -> Seq(AnyCall)]
  /\ away \in [Threads -> SUBSET Fds]
  /\ m_requests \in Seq(MainTasks)
  /\ inputs \in 0 .. MaxInputs
  /\ fate \in Reasons \cup {"running", "crashed", "session"}

\* The return is the last call and no other.
ReturnIsLast(s) == \A i \in DOMAIN s : s[i][1] = "return" <=> i = Len(s)

\* A broadcast has told whom it has passed, of those that stayed.
PassedAreTold(s, gone) ==
  \A i \in DOMAIN s : s[i][1] = "cast" => \A f \in Fds \ gone : f <= s[i][2] => f \in s[i][4]

\* While a thread has an input those it does not count as away are active.
StayersActive(t) ==
  /\ stack[t] # <<>> => input[t] # "none"
  /\ input[t] # "none" => \A f \in Fds \ away[t] : sessions[f] = "active"

StackInv == \A t \in Threads : ReturnIsLast(stack[t])

CastInv == \A t \in Threads : PassedAreTold(stack[t], away[t]) /\ StayersActive(t)

\* The loop sends only in a broadcast, and at once, to one that has a session.
SendsAtOnce(s) ==
  \A i \in DOMAIN s :
    /\ s[i] \in OnLoop
    /\ s[i][1] = "castto" => i = 1 /\ sessions[s[i][2]] # "none"

LoopInv == SendsAtOnce(stack[Loop]) /\ fate # "session"

IInv == TypeInv /\ StackInv /\ CastInv /\ LoopInv

-----------------------------------------------------------------------------
(* Sequences.                                                              *)

LEMMA ConcatSeq ==
  ASSUME NEW S, NEW s \in Seq(S), NEW t \in Seq(S)
  PROVE  s \o t \in Seq(S)
  OBVIOUS

LEMMA ThenSeq ==
  ASSUME NEW S, NEW X \in SUBSET Seq(S), NEW Y \in SUBSET Seq(S)
  PROVE  Then(X, Y) \subseteq Seq(S)
<1> DEFINE c(a, b) == a \o b
<1>1. \A a \in X, b \in Y : c(a, b) \in Seq(S)
  OBVIOUS
<1>2. Then(X, Y) = {c(a, b) : a \in X, b \in Y}
  BY DEF Then
<1> HIDE DEF c
<1>3. {c(a, b) : a \in X, b \in Y} \subseteq Seq(S)
  BY <1>1
<1> QED BY <1>2, <1>3

LEMMA SeqOne == ASSUME NEW S, NEW x \in S PROVE <<x>> \in Seq(S)
  OBVIOUS

LEMMA SeqTwo == ASSUME NEW S, NEW x \in S, NEW y \in S PROVE <<x, y>> \in Seq(S)
  OBVIOUS

LEMMA ResolveNothing == ResolvePending(<<>>) = <<>>
  BY DEF ResolvePending, SetIPCCommand, Effect

LEMMA ResolveOne ==
  ASSUME NEW code, NEW arg
  PROVE  ResolvePending(<< <<code, arg>> >>) = <<Event(ALL_CLIENTS, code, arg)>>
  BY DEF ResolvePending, SetIPCCommand, Effect

\* The place of a code in the table.
LEMMA TableCodes ==
  /\ DOMAIN DispatchTable = 1 .. 39
  /\ \A i \in 1 .. 39 :
       DispatchTable[i][1] = IF i = 15 THEN 38
                             ELSE IF i >= 16 /\ i <= 37 THEN i - 1 ELSE i
  BY SMTT(60) DEF DispatchTable

LEMMA TableNames ==
  /\ DispatchTable[3][2]  = "on_tasks_ready"
  /\ DispatchTable[16][2] = "on_platform_new_post"
  /\ DispatchTable[17][2] = "on_platform_post_request"
  /\ DispatchTable[18][2] = "on_platform_error"
  /\ DispatchTable[20][2] = "on_platform_event"
  /\ DispatchTable[24][2] = "on_platform_update"
  /\ DispatchTable[15][2] = "on_platform_created"
  BY DEF DispatchTable

\* The first entry of a code is the one that counts.
LEMMA HandlerAtPlace ==
  ASSUME NEW code \in 1 .. 39, NEW n \in 1 .. 39, DispatchTable[n][1] = code,
         \A j \in 1 .. 39 : DispatchTable[j][1] = code => n <= j
  PROVE  HandlerOf[code] = DispatchTable[n][2]
<1> DEFINE entries == {i \in DOMAIN DispatchTable : DispatchTable[i][1] = code}
           first   == CHOOSE i \in entries : \A j \in entries : i <= j
<1>1. HandlerOf[code] = IF entries = {} THEN "none" ELSE DispatchTable[first][2]
  BY DEF HandlerOf
<1>2. entries \subseteq Int /\ n \in entries /\ \A j \in entries : n <= j
  BY TableCodes
<1> HIDE DEF entries
<1>3. first \in entries /\ \A j \in entries : first <= j
  BY <1>2, Zenon
<1> HIDE DEF first
<1>4. first = n
  BY <1>2, <1>3
<1> QED BY <1>1, <1>2, <1>4

\* The handlers of the codes that the loop's thread raises.
LEMMA LoopHandlers ==
  /\ HandlerOf[3]  = "on_tasks_ready"
  /\ HandlerOf[15] = "on_platform_new_post"
  /\ HandlerOf[16] = "on_platform_post_request"
  /\ HandlerOf[17] = "on_platform_error"
  /\ HandlerOf[19] = "on_platform_event"
  /\ HandlerOf[23] = "on_platform_update"
  /\ HandlerOf[38] = "on_platform_created"
<1> DEFINE At(code, n) == /\ n \in 1 .. 39 /\ code \in 1 .. 39 /\ DispatchTable[n][1] = code
                          /\ \A j \in 1 .. 39 : DispatchTable[j][1] = code => n <= j
<1>1. At(3, 3) /\ At(38, 15)
  BY TableCodes
<1>2. At(15, 16) /\ At(16, 17) /\ At(17, 18) /\ At(19, 20) /\ At(23, 24)
  BY TableCodes
<1>3. \A code, n : At(code, n) => HandlerOf[code] = DispatchTable[n][2]
  BY HandlerAtPlace
<1> HIDE DEF At
<1>4. /\ HandlerOf[3] = DispatchTable[3][2]   /\ HandlerOf[15] = DispatchTable[16][2]
      /\ HandlerOf[16] = DispatchTable[17][2] /\ HandlerOf[17] = DispatchTable[18][2]
      /\ HandlerOf[19] = DispatchTable[20][2] /\ HandlerOf[23] = DispatchTable[24][2]
      /\ HandlerOf[38] = DispatchTable[15][2]
  BY <1>1, <1>2, <1>3
<1> QED BY <1>4, TableNames

-----------------------------------------------------------------------------
(* The shapes of the calls.                                                *)

LEMMA PlainShapes ==
  /\ \A fd \in Int, code \in 1 .. 39, arg \in Tags : Event(fd, code, arg) \in PlainCall
  /\ \A code \in 1 .. 39, arg \in Tags : System(code, arg) \in PlainCall
  /\ \A fd \in Int, name \in MessageNames : Send(fd, name) \in PlainCall
  /\ \A name \in MessageNames : Broadcast(name) \in PlainCall
  /\ \A why \in Reasons : Throw(why) \in PlainCall
  /\ \A what \in MainTasks : Request(what) \in PlainCall
  /\ \A fd \in Fds : /\ InitClient(fd) \in PlainCall
                     /\ EndSession(fd) \in PlainCall
                     /\ Notify(fd) \in PlainCall
  /\ EndTry \in PlainCall /\ ValidateClients \in PlainCall
  /\ <<"tasks">> \in PlainCall /\ <<"ipc">> \in PlainCall /\ <<"platforms">> \in PlainCall
  BY DEF PlainCall, Event, System, Send, Broadcast, Throw, Request, InitClient, EndSession,
         Notify, EndTry, ValidateClients

LEMMA CastToPlain ==
  ASSUME NEW fd \in Int, NEW name \in MessageNames
  PROVE  CastTo(fd, name) \in PlainCall
  BY DEF PlainCall, CastTo

LEMMA LoopShapes ==
  /\ \A code \in LoopCode, arg \in Tags : Event(ALL_CLIENTS, code, arg) \in LoopCall
  /\ \A code \in SystemCode, arg \in Tags : System(code, arg) \in LoopCall
  /\ \A name \in MessageNames : Broadcast(name) \in LoopCall
  /\ \A why \in Reasons : Throw(why) \in LoopCall
  /\ ValidateClients \in LoopCall
  /\ <<"tasks">> \in LoopCall /\ <<"ipc">> \in LoopCall /\ <<"platforms">> \in LoopCall
  BY DEF LoopCall, Event, System, Broadcast, Throw, ValidateClients

LEMMA Names ==
  /\ \A h \in DOMAIN ForwardedAnswers : ForwardedAnswers[h] \in MessageNames
  /\ \A h \in DOMAIN ForwardedData : ForwardedData[h] \in MessageNames
  /\ \A n \in {"File Save Failure", "File Save Success", "Platform Post", "Platform Error",
          "Platform Info", "Platform Posts", "Platform Update", "File Upload",
          "File Upload Meta", "the bytes of the file", "Process Result", "pong",
          "File Ready", "Message Received", "Processing Schedule Request",
          "New Session", "Session started", "Session rejected"} : n \in MessageNames
  BY DEF MessageNames

-----------------------------------------------------------------------------
(* What the handlers leave to be called.                                   *)

LEMMA SendEventPlain ==
  ASSUME NEW fd \in Int, NEW name \in MessageNames
  PROVE  SendEvent(fd, name) \in Seq(PlainCall)
  BY PlainShapes, SeqOne DEF SendEvent

LEMMA SendEventLoop ==
  ASSUME NEW name \in MessageNames
  PROVE  SendEvent(ALL_CLIENTS, name) \in Seq(LoopCall)
  BY LoopShapes, SeqOne DEF SendEvent

LEMMA EmptySeq == ASSUME NEW S PROVE <<>> \in Seq(S)
  OBVIOUS

LEMMA Effects ==
  /\ \A what : Effect(what) = <<>>
  /\ \A code : ReceiveEvent(code) = <<>>
  /\ SendMail = <<>> /\ ScheduleIPC = <<>>
  BY DEF Effect, ReceiveEvent, SendMail, ScheduleIPC

LEMMA ConcatEmpty ==
  ASSUME NEW S, NEW s \in Seq(S)
  PROVE  <<>> \o s = s /\ s \o <<>> = s
  OBVIOUS

\* A handler's calls, whatever the event.
LEMMA HandlePlain ==
  ASSUME NEW fd \in Int, NEW code \in 1 .. 39, NEW arg \in Tags
  PROVE  Handle(fd, code, arg) \subseteq Seq(PlainCall)
<1> DEFINE h == HandlerOf[code]
<1>1. h \in DOMAIN ForwardedAnswers => {SendEvent(fd, ForwardedAnswers[h])} \subseteq Seq(PlainCall)
  BY SendEventPlain, Names
<1>2. h \in DOMAIN ForwardedData => {SendEvent(fd, ForwardedData[h])} \subseteq Seq(PlainCall)
  BY SendEventPlain, Names
<1>3. OnFileUpdate(fd, arg) \subseteq Seq(PlainCall)
  <2>1. <<Send(fd, "File Save Failure")>> \in Seq(PlainCall)
    BY PlainShapes, Names, SeqOne
  <2>2. <<Send(fd, "File Save Success")>> \in Seq(PlainCall)
    BY PlainShapes, Names, SeqOne
  <2>3. <<Throw("payload")>> \in Seq(PlainCall)
    BY PlainShapes, SeqOne DEF Reasons
  <2> QED BY <2>1, <2>2, <2>3, ConcatEmpty DEF OnFileUpdate, Effect
<1>4. OnPlatformNewPost(fd, arg) \subseteq Seq(PlainCall)
  <2>1. <<System(PLATFORM_NEW_POST, arg)>> \in Seq(PlainCall)
    BY PlainShapes, SeqOne DEF PLATFORM_NEW_POST
  <2>2. SendEvent(fd, "Platform Post") \in Seq(PlainCall)
    BY SendEventPlain, Names
  <2> QED BY <2>1, <2>2, ConcatSeq DEF OnPlatformNewPost
<1>5. OnPlatformPostRequest(fd, arg) \subseteq Seq(PlainCall)
  <2>1. <<System(PLATFORM_ERROR, arg)>> \in Seq(PlainCall)
    BY PlainShapes, SeqOne DEF PLATFORM_ERROR
  <2> QED BY <2>1, Effects, EmptySeq DEF OnPlatformPostRequest
<1>6. OnPlatformErrorEvent(fd, arg) \subseteq Seq(PlainCall)
  <2>1. System(PLATFORM_ERROR, arg) \in PlainCall
    BY PlainShapes DEF PLATFORM_ERROR
  <2>2. Broadcast("Platform Error") \in PlainCall
    BY PlainShapes, Names
  <2> QED BY <2>1, <2>2, SeqTwo DEF OnPlatformErrorEvent
<1>7. {<<System(code, arg)>>} \subseteq Seq(PlainCall)
  BY PlainShapes, SeqOne
<1>8. OnPlatformInfo(fd, arg) \subseteq Seq(PlainCall)
  <2>1. SendEvent(fd, "Platform Info") \in Seq(PlainCall)
    BY SendEventPlain, Names
  <2> DEFINE mail == IF arg = "agitation" THEN SendMail ELSE <<>>
  <2>2. mail = <<>>
    BY Effects
  <2>3. OnPlatformInfo(fd, arg)
          = {SendEvent(fd, "Platform Info") \o ReceiveEvent(PLATFORM_EVENT) \o mail}
    BY Zenon DEF OnPlatformInfo
  <2> HIDE DEF mail
  <2>4. SendEvent(fd, "Platform Info") \o ReceiveEvent(PLATFORM_EVENT) \in Seq(PlainCall)
    BY <2>1, Effects, EmptySeq, ConcatSeq
  <2>5. (SendEvent(fd, "Platform Info") \o ReceiveEvent(PLATFORM_EVENT)) \o mail \in Seq(PlainCall)
    BY <2>2, <2>4, EmptySeq, ConcatSeq
  <2> QED BY <2>3, <2>5
<1>9. /\ {<<Broadcast("Platform Posts")>>} \subseteq Seq(PlainCall)
      /\ {<<Broadcast("Platform Update")>>} \subseteq Seq(PlainCall)
  BY PlainShapes, Names, SeqOne
<1>10. OnFilesSend(fd) \subseteq Seq(PlainCall)
  <2>1. <<Send(fd, "File Upload")>> \in Seq(PlainCall)
    BY PlainShapes, Names, SeqOne
  <2> QED BY <2>1, ConcatEmpty DEF OnFilesSend, Effect
<1>11. OnFilesSendAck(fd) \subseteq Seq(PlainCall)
  <2>1. ASSUME NEW f \in Fds PROVE <<Send(f, "File Upload Meta")>> \in Seq(PlainCall)
    <3>1. f \in Int
      BY FdsAssumption
    <3>2. Send(f, "File Upload Meta") \in PlainCall
      BY <3>1, PlainShapes, Names
    <3> QED BY <3>2, SeqOne
  <2> QED BY <2>1 DEF OnFilesSendAck
<1>12. OnFilesSendReady(fd) \subseteq Seq(PlainCall)
  <2>1. ASSUME NEW f \in Fds PROVE <<Send(f, "the bytes of the file")>> \in Seq(PlainCall)
    <3>1. f \in Int
      BY FdsAssumption
    <3>2. Send(f, "the bytes of the file") \in PlainCall
      BY <3>1, PlainShapes, Names
    <3> QED BY <3>2, SeqOne
  <2> QED BY <2>1 DEF OnFilesSendReady
<1>13. {<<Request("RECONNECT_IPC")>>} \subseteq Seq(PlainCall)
  BY PlainShapes, SeqOne DEF MainTasks
<1>14. {ReceiveEvent(code)} \subseteq Seq(PlainCall) /\ {<<>>} \subseteq Seq(PlainCall)
  BY Effects, EmptySeq
<1>15. {<<Throw("bad_function_call")>>} \subseteq Seq(PlainCall)
  BY PlainShapes, SeqOne DEF Reasons
<1> QED
  BY <1>1, <1>2, <1>3, <1>4, <1>5, <1>6, <1>7, <1>8, <1>9, <1>10, <1>11, <1>12, <1>13, <1>14,
     <1>15 DEF Handle

LEMMA LoopIsPlain == LoopCall \subseteq PlainCall
  BY DEF LoopCall, PlainCall, LoopCode, SystemCode, ALL_CLIENTS

LEMMA LoopSeqIsPlain == Seq(LoopCall) \subseteq Seq(PlainCall)
  BY LoopIsPlain

\* The handlers of the events the loop raises raise only such events.
LEMMA HandleLoop ==
  ASSUME NEW code \in LoopCode, NEW arg \in Tags
  PROVE  Handle(ALL_CLIENTS, code, arg) \subseteq Seq(LoopCall)
<1> DEFINE h == HandlerOf[code]
           fd == ALL_CLIENTS
<1>1. h \in DOMAIN ForwardedAnswers => {SendEvent(fd, ForwardedAnswers[h])} \subseteq Seq(LoopCall)
  BY SendEventLoop, Names
<1>2. h \in DOMAIN ForwardedData => {SendEvent(fd, ForwardedData[h])} \subseteq Seq(LoopCall)
  BY SendEventLoop, Names
<1>3. OnPlatformNewPost(fd, arg) \subseteq Seq(LoopCall)
  <2>1. <<System(PLATFORM_NEW_POST, arg)>> \in Seq(LoopCall)
    BY LoopShapes, SeqOne DEF PLATFORM_NEW_POST, SystemCode
  <2>2. SendEvent(fd, "Platform Post") \in Seq(LoopCall)
    BY SendEventLoop, Names
  <2> QED BY <2>1, <2>2, ConcatSeq DEF OnPlatformNewPost
<1>4. OnPlatformPostRequest(fd, arg) \subseteq Seq(LoopCall)
  <2>1. <<System(PLATFORM_ERROR, arg)>> \in Seq(LoopCall)
    BY LoopShapes, SeqOne DEF PLATFORM_ERROR, SystemCode
  <2> QED BY <2>1, Effects, EmptySeq DEF OnPlatformPostRequest
<1>5. OnPlatformErrorEvent(fd, arg) \subseteq Seq(LoopCall)
  <2>1. System(PLATFORM_ERROR, arg) \in LoopCall
    BY LoopShapes DEF PLATFORM_ERROR, SystemCode
  <2>2. Broadcast("Platform Error") \in LoopCall
    BY LoopShapes, Names
  <2> QED BY <2>1, <2>2, SeqTwo DEF OnPlatformErrorEvent
<1>6. {<<Broadcast("Platform Update")>>} \subseteq Seq(LoopCall)
  BY LoopShapes, Names, SeqOne
<1>7. {ReceiveEvent(code)} \subseteq Seq(LoopCall) /\ {<<>>} \subseteq Seq(LoopCall)
  BY Effects, EmptySeq
<1>8. {<<Throw("bad_function_call")>>} \subseteq Seq(LoopCall)
  BY LoopShapes, SeqOne DEF Reasons
<1>9. h \in {"on_tasks_ready", "on_platform_new_post", "on_platform_post_request",
             "on_platform_error", "on_platform_event", "on_platform_update",
             "on_platform_created"}
  BY LoopHandlers DEF LoopCode
<1> QED
  BY <1>1, <1>2, <1>3, <1>4, <1>5, <1>6, <1>7, <1>8, <1>9 DEF Handle

LEMMA UpdateLoop == Update \subseteq Seq(LoopCall)
<1>1. <<Event(ALL_CLIENTS, PLATFORM_UPDATE, "none")>> \in Seq(LoopCall)
  BY LoopShapes, SeqOne DEF PLATFORM_UPDATE, LoopCode, Tags
<1> QED BY <1>1, EmptySeq DEF Update

LEMMA RaisedLoop ==
  /\ <<Event(ALL_CLIENTS, PLATFORM_CREATED, "none")>> \in Seq(LoopCall)
  /\ <<Event(ALL_CLIENTS, PLATFORM_ERROR, "post")>> \in Seq(LoopCall)
  /\ <<Event(ALL_CLIENTS, PLATFORM_ERROR, "short")>> \in Seq(LoopCall)
  /\ <<Event(ALL_CLIENTS, PLATFORM_NEW_POST, "post")>> \in Seq(LoopCall)
  /\ <<Event(ALL_CLIENTS, PLATFORM_POST_REQUESTED, "bot")>> \in Seq(LoopCall)
<1>1. /\ PLATFORM_CREATED \in LoopCode /\ PLATFORM_ERROR \in LoopCode
      /\ PLATFORM_NEW_POST \in LoopCode /\ PLATFORM_POST_REQUESTED \in LoopCode
  BY DEF LoopCode, PLATFORM_CREATED, PLATFORM_ERROR, PLATFORM_NEW_POST, PLATFORM_POST_REQUESTED
<1>2. "none" \in Tags /\ "post" \in Tags /\ "short" \in Tags /\ "bot" \in Tags
  BY DEF Tags
<1> QED BY <1>1, <1>2, LoopShapes, SeqOne

LEMMA ThrowLoop == \A why \in Reasons : <<Throw(why)>> \in Seq(LoopCall)
<1>1. TAKE why \in Reasons
<1>2. Throw(why) \in LoopCall
  BY LoopShapes
<1> QED BY <1>2, SeqOne

LEMMA SavePlatformPostLoop == SavePlatformPost \subseteq Seq(LoopCall)
<1>1. {<<Event(ALL_CLIENTS, PLATFORM_CREATED, "none")>>,
       <<Event(ALL_CLIENTS, PLATFORM_ERROR, "post")>>} \subseteq Seq(LoopCall)
  BY RaisedLoop
<1> QED BY <1>1, UpdateLoop, ThenSeq DEF SavePlatformPost

LEMMA SavePlatformPostOfTaskLoop == SavePlatformPostOfTask \subseteq Seq(LoopCall)
<1>1. {<<Event(ALL_CLIENTS, PLATFORM_CREATED, "none")>>,
       <<Event(ALL_CLIENTS, PLATFORM_ERROR, "short")>>} \subseteq Seq(LoopCall)
  BY RaisedLoop
<1>2. <<Throw("application")>> \in Seq(LoopCall)
  BY ThrowLoop DEF Reasons
<1> QED BY <1>1, <1>2, UpdateLoop, ThenSeq DEF SavePlatformPostOfTask

LEMMA OnErrorLoop ==
  ASSUME NEW arg
  PROVE  OnErrorOfPlatform(arg) \subseteq Seq(LoopCall)
<1>1. <<Throw("payload")>> \in Seq(LoopCall)
  BY ThrowLoop DEF Reasons
<1>2. {SendMail} \subseteq Seq(LoopCall) /\ {Effect("IPC received")} \subseteq Seq(LoopCall)
  BY EmptySeq, Effects
<1>3. OnPlatformError(arg) \subseteq Seq(LoopCall)
  BY <1>1, <1>2, UpdateLoop, ThenSeq DEF OnPlatformError
<1> QED BY <1>2, <1>3, ThenSeq DEF OnErrorOfPlatform

LEMMA OnRequestLoop ==
  ASSUME NEW arg
  PROVE  OnPlatformRequest(arg) \subseteq Seq(LoopCall)
<1>1. GenerateMLData \in Seq(LoopCall)
  <2>1. ResolvePending(<< <<PLATFORM_POST_REQUESTED, "bot">> >>) \in Seq(LoopCall)
    BY ResolveOne, RaisedLoop
  <2>2. FindMask \o Effect("task scheduled") \in Seq(LoopCall)
    BY Effects, EmptySeq, ConcatSeq DEF FindMask
  <2> QED BY <2>1, <2>2, ConcatSeq DEF GenerateMLData
<1> DEFINE mails   == {<<>>, FinalizeMLInputs}
           readies == {<<>>} \cup (IF MLInputReady THEN {GenerateMLData} ELSE {})
<1>2. mails \subseteq Seq(LoopCall)
  BY Effects, EmptySeq DEF FinalizeMLInputs
<1>3. readies \subseteq Seq(LoopCall)
  BY <1>1, EmptySeq DEF MLInputReady
<1>4. {ScheduleIPC} \subseteq Seq(LoopCall) /\ {<<>>} \subseteq Seq(LoopCall)
  BY Effects, EmptySeq
<1>5. \/ OnPlatformRequest(arg) = {<<>>} \cup Then(mails, readies)
      \/ OnPlatformRequest(arg) = {ScheduleIPC}
      \/ OnPlatformRequest(arg) = {<<>>}
  BY DEF OnPlatformRequest
<1> HIDE DEF mails, readies
<1> QED BY <1>2, <1>3, <1>4, <1>5, ThenSeq

LEMMA GetTaskLoop ==
  ASSUME NEW id
  PROVE  GetTaskInt(id) \in Seq(LoopCall)
<1>1. <<Throw("column")>> \in Seq(LoopCall)
  BY ThrowLoop DEF Reasons
<1> QED BY <1>1, EmptySeq DEF GetTaskInt

LEMMA OnOutputLoop ==
  ASSUME NEW id
  PROVE  OnProcessOutput(id) \subseteq Seq(LoopCall)
<1>1. GetTaskInt(id) \o <<Event(ALL_CLIENTS, PLATFORM_NEW_POST, "post")>> \in Seq(LoopCall)
  BY GetTaskLoop, RaisedLoop, ConcatSeq
<1>2. <<Throw("child")>> \in Seq(LoopCall)
  BY ThrowLoop DEF Reasons
<1>3. FindPostExec(id) \subseteq Seq(LoopCall)
  BY <1>2, ResolveNothing, EmptySeq DEF FindPostExec, PostExecWork
<1>4. PostExecWait(id) \in Seq(LoopCall)
  <2>1. GetTaskInt(id) \o Effect("a root") \in Seq(LoopCall)
    BY GetTaskLoop, Effects, EmptySeq, ConcatSeq
  <2> QED BY <2>1, GetTaskLoop, ConcatSeq DEF PostExecWait
<1>5. CreateChild(id) \subseteq Seq(LoopCall)
  <2>1. Effect("task scheduled") \o PostExecWait(id) \in Seq(LoopCall)
    BY <1>4, Effects, EmptySeq, ConcatSeq
  <2> QED BY <2>1, EmptySeq DEF CreateChild
<1>6. {<<>>, <<Throw("child")>>} \subseteq Seq(LoopCall)
  BY <1>2, EmptySeq
<1>7. Then(CreateChild(id), {<<>>, <<Throw("child")>>}) \subseteq Seq(LoopCall)
  BY <1>5, <1>6, ThenSeq
<1> QED BY <1>1, <1>3, <1>7, EmptySeq DEF OnProcessOutput

\* An event of the system raises only events the loop may raise.
LEMMA SystemLoop ==
  ASSUME NEW code, NEW arg
  PROVE  ProcessSystemEvent(code, arg) \subseteq Seq(LoopCall)
<1> DEFINE handled == CASE code = PLATFORM_REQUEST  -> OnPlatformRequest(arg)
                        [] code = PLATFORM_NEW_POST -> SavePlatformPost
                        [] code = PLATFORM_ERROR    -> OnErrorOfPlatform(arg)
                        [] code = PROCESS_COMPLETE  -> OnProcessOutput(arg)
                        [] OTHER                    -> {<<>>}
<1>1. handled \subseteq Seq(LoopCall)
  BY OnRequestLoop, SavePlatformPostLoop, OnErrorLoop, OnOutputLoop, EmptySeq
<1>2. ProcessSystemEvent(code, arg) = Then(handled, {Effect("m_system_rq_count")})
  BY Zenon DEF ProcessSystemEvent
<1>3. {Effect("m_system_rq_count")} \subseteq Seq(LoopCall)
  BY Effects, EmptySeq
<1> HIDE DEF handled
<1> QED BY <1>1, <1>2, <1>3, ThenSeq

LEMMA ProcessEventLoop ==
  ASSUME NEW id \in Tags
  PROVE  OnProcessEvent(id) \subseteq Seq(LoopCall)
<1> DEFINE parsed == <<IF id = "text" THEN Throw("stoi") ELSE System(PROCESS_COMPLETE, id)>>
<1>1. <<Broadcast("Process Result")>> \in Seq(LoopCall)
  BY LoopShapes, Names, SeqOne
<1>2. parsed \in Seq(LoopCall)
  <2>1. Throw("stoi") \in LoopCall
    BY LoopShapes DEF Reasons
  <2>2. System(PROCESS_COMPLETE, id) \in LoopCall
    BY LoopShapes DEF PROCESS_COMPLETE, SystemCode
  <2> QED BY <2>1, <2>2, SeqOne
<1> DEFINE first  == {<<Broadcast("Process Result")>>}
           second == {<<>>, parsed}
<1>3. OnProcessEvent(id) = Then(first, second)
  BY Zenon DEF OnProcessEvent
<1> HIDE DEF parsed
<1>4. first \subseteq Seq(LoopCall) /\ second \subseteq Seq(LoopCall)
  BY <1>1, <1>2, EmptySeq
<1> HIDE DEF first, second
<1> QED BY <1>3, <1>4, ThenSeq

\* What a pass of the loop calls.
LEMMA PassLoop ==
  /\ InfiniteLoop \in Seq(LoopCall)
  /\ HandlePendingTasks \subseteq Seq(LoopCall)
  /\ SendIPCRequest \subseteq Seq(LoopCall)
  /\ ProcessPlatform \subseteq Seq(LoopCall)
<1>1. InfiniteLoop \in Seq(LoopCall)
  <2>1. <<<<"tasks">>, ValidateClients, <<"ipc">>, <<"platforms">>>> \in Seq(LoopCall)
    BY LoopShapes
  <2> QED BY <2>1, ResolveNothing, EmptySeq, ConcatSeq DEF InfiniteLoop
<1>2. /\ "none" \in Tags /\ "task" \in Tags /\ "bot" \in Tags /\ "process" \in Tags
      /\ SCHEDULED_TASKS_READY \in LoopCode /\ PLATFORM_EVENT \in LoopCode
      /\ PLATFORM_POST_REQUESTED \in LoopCode
  BY DEF Tags, LoopCode, SCHEDULED_TASKS_READY, PLATFORM_EVENT, PLATFORM_POST_REQUESTED
<1>3. HandlePendingTasks \subseteq Seq(LoopCall)
  <2>1. <<Event(ALL_CLIENTS, SCHEDULED_TASKS_READY, "none")>> \in Seq(LoopCall)
    BY <1>2, LoopShapes, SeqOne
  <2>2. OnProcessEvent("task") \subseteq Seq(LoopCall)
    BY <1>2, ProcessEventLoop
  <2> QED BY <2>1, <2>2, EmptySeq, ThenSeq DEF HandlePendingTasks
<1>4. SendIPCRequest \subseteq Seq(LoopCall)
  <2>1. <<Event(ALL_CLIENTS, PLATFORM_EVENT, "none")>> \in Seq(LoopCall)
    BY <1>2, LoopShapes, SeqOne
  <2> QED BY <2>1, EmptySeq DEF SendIPCRequest
<1>5. ProcessPlatform \subseteq Seq(LoopCall)
  <2>1. \A method \in {"bot", "process"} :
           Event(ALL_CLIENTS, PLATFORM_POST_REQUESTED, method) \in LoopCall
    BY <1>2, LoopShapes
  <2>2. \A method \in {"bot", "process"} :
           <<Event(ALL_CLIENTS, PLATFORM_POST_REQUESTED, method)>> \in Seq(LoopCall)
    BY <2>1, SeqOne
  <2> QED BY <2>2, EmptySeq DEF ProcessPlatform
<1> QED BY <1>1, <1>3, <1>4, <1>5

\* An event a request raises for its own client.
LEMMA RaisedPlain ==
  ASSUME NEW fd \in Int, NEW code \in 1 .. 39, NEW arg \in Tags
  PROVE  <<Event(fd, code, arg)>> \in Seq(PlainCall)
<1>1. Event(fd, code, arg) \in PlainCall
  BY PlainShapes
<1> QED BY <1>1, SeqOne

LEMMA ThrowPlain == \A why \in Reasons : <<Throw(why)>> \in Seq(PlainCall)
  BY ThrowLoop, LoopSeqIsPlain

LEMMA RequestCodes ==
  /\ PROCESS_EXECUTION_REQUESTED \in 1 .. 39 /\ SCHEDULER_FETCH \in 1 .. 39
  /\ SCHEDULER_FETCH_TOKENS \in 1 .. 39 /\ SCHEDULER_UPDATE \in 1 .. 39
  /\ SCHEDULER_SUCCESS \in 1 .. 39 /\ REGISTRAR_SUCCESS \in 1 .. 39 /\ REGISTRAR_FAIL \in 1 .. 39
  /\ TASK_FETCH_FLAGS \in 1 .. 39 /\ PLATFORM_FETCH_POSTS \in 1 .. 39
  /\ TRIGGER_ADD_SUCCESS \in 1 .. 39 /\ TRIGGER_ADD_FAIL \in 1 .. 39 /\ FILES_SEND \in 1 .. 39
  /\ FILES_SEND_ACK \in 1 .. 39 /\ FILES_SEND_READY \in 1 .. 39 /\ TASK_DATA \in 1 .. 39
  /\ TASK_DATA_FINAL \in 1 .. 39 /\ TERM_HITS \in 1 .. 39 /\ STATUS_REPORT \in 1 .. 39
  /\ FILE_UPDATE \in 1 .. 39
  BY DEF PROCESS_EXECUTION_REQUESTED, SCHEDULER_FETCH, SCHEDULER_FETCH_TOKENS, SCHEDULER_UPDATE,
         SCHEDULER_SUCCESS, REGISTRAR_SUCCESS, REGISTRAR_FAIL, TASK_FETCH_FLAGS,
         PLATFORM_FETCH_POSTS, TRIGGER_ADD_SUCCESS, TRIGGER_ADD_FAIL, FILES_SEND, FILES_SEND_ACK,
         FILES_SEND_READY, TASK_DATA, TASK_DATA_FINAL, TERM_HITS, STATUS_REPORT, FILE_UPDATE

\* The calls of each request of the controller.
LEMMA RequestsPlain ==
  ASSUME NEW fd \in Fds, NEW type \in DOMAIN ProcessClientRequest[fd]
  PROVE  ProcessClientRequest[fd][type] \subseteq Seq(PlainCall) /\ type # "none"
<1>0. fd \in Int /\ ALL_CLIENTS \in Int
  BY FdsAssumption DEF ALL_CLIENTS
<1>1. "none" \in Tags /\ "tasks" \in Tags /\ "end" \in Tags
  BY DEF Tags
<1>2. Application(fd) \subseteq Seq(PlainCall)
  BY <1>0, <1>1, RaisedPlain, RequestCodes DEF Application
<1>3. FetchSchedule(fd) \subseteq Seq(PlainCall)
  <2>1. /\ Event(fd, SCHEDULER_FETCH, "tasks") \in PlainCall
        /\ Event(fd, SCHEDULER_FETCH, "end") \in PlainCall
    BY <1>0, <1>1, PlainShapes, RequestCodes
  <2>2. EndTry \in PlainCall /\ Throw("application") \in PlainCall
    BY PlainShapes DEF Reasons
  <2>3. <<Event(fd, SCHEDULER_FETCH, "tasks"), Event(fd, SCHEDULER_FETCH, "end"), EndTry>>
          \in Seq(PlainCall)
    BY <2>1, <2>2
  <2>4. <<Throw("application"), EndTry>> \in Seq(PlainCall)
    BY <2>2
  <2> QED BY <2>3, <2>4 DEF FetchSchedule
<1>4. UpdateSchedule(fd) \subseteq Seq(PlainCall)
  BY <1>0, <1>1, RaisedPlain, RequestCodes DEF UpdateSchedule
<1>5. FetchScheduleTokens(fd) \subseteq Seq(PlainCall)
  BY <1>0, <1>1, RaisedPlain, RequestCodes, EmptySeq DEF FetchScheduleTokens
<1>6. FetchTaskData(fd) \subseteq Seq(PlainCall)
  <2>1. /\ Event(fd, TASK_DATA, "none") \in PlainCall
        /\ Event(fd, TASK_DATA_FINAL, "none") \in PlainCall
    BY <1>0, <1>1, PlainShapes, RequestCodes
  <2>2. <<Event(fd, TASK_DATA, "none"), Event(fd, TASK_DATA_FINAL, "none")>> \in Seq(PlainCall)
    BY <2>1, SeqTwo
  <2>3. <<Throw("column")>> \in Seq(PlainCall)
    BY ThrowPlain DEF Reasons
  <2> QED BY <2>2, <2>3 DEF FetchTaskData
<1>7. <<Throw("payload")>> \in Seq(PlainCall)
  BY ThrowPlain DEF Reasons
<1>8. TriggerCreate(fd) \subseteq Seq(PlainCall)
  BY <1>0, <1>1, <1>7, RaisedPlain, RequestCodes DEF TriggerCreate
<1>9. FetchTermEvents(fd) \subseteq Seq(PlainCall)
  BY <1>0, <1>1, RaisedPlain, RequestCodes DEF FetchTermEvents
<1>10. Execute(fd) \subseteq Seq(PlainCall)
  <2> DEFINE first  == {<<Event(fd, PROCESS_EXECUTION_REQUESTED, "none")>>}
             second == {<<>>} \cup UNION {OnProcessEvent(id) : id \in {"task", "number", "text"}}
  <2>1. first \subseteq Seq(PlainCall)
    BY <1>0, <1>1, RaisedPlain, RequestCodes
  <2>2. \A id \in {"task", "number", "text"} : OnProcessEvent(id) \subseteq Seq(PlainCall)
    BY ProcessEventLoop, LoopSeqIsPlain DEF Tags
  <2>3. second \subseteq Seq(PlainCall)
    BY <2>2, EmptySeq
  <2>4. Execute(fd) = {<<>>} \cup Then(first, second)
    BY DEF Execute
  <2> HIDE DEF first, second
  <2> QED BY <2>1, <2>3, <2>4, ThenSeq, EmptySeq
<1>11. /\ {<<Event(fd, TASK_FETCH_FLAGS, "none")>>} \subseteq Seq(PlainCall)
       /\ {<<>>, <<Event(fd, FILES_SEND, "none")>>} \subseteq Seq(PlainCall)
       /\ {<<Event(fd, FILES_SEND_ACK, "none")>>} \subseteq Seq(PlainCall)
       /\ {<<Event(fd, FILES_SEND_READY, "none")>>} \subseteq Seq(PlainCall)
       /\ {<<Event(ALL_CLIENTS, PLATFORM_FETCH_POSTS, "none")>>} \subseteq Seq(PlainCall)
       /\ {<<Event(fd, STATUS_REPORT, "none")>>} \subseteq Seq(PlainCall)
  BY <1>0, <1>1, RaisedPlain, RequestCodes, EmptySeq
<1>12. /\ SavePlatformPostOfTask \subseteq Seq(PlainCall)
       /\ SavePlatformPost \cup {<<Throw("payload")>>} \subseteq Seq(PlainCall)
  BY <1>7, SavePlatformPostLoop, SavePlatformPostOfTaskLoop, LoopSeqIsPlain
<1>13. {ScheduleIPC} \subseteq Seq(PlainCall) /\ {<<>>} \subseteq Seq(PlainCall)
  BY Effects, EmptySeq
<1> DEFINE Fits(calls) == calls \subseteq Seq(PlainCall)
<1>14. /\ Fits(Application(fd)) /\ Fits(FetchSchedule(fd)) /\ Fits(UpdateSchedule(fd))
       /\ Fits(FetchScheduleTokens(fd)) /\ Fits(FetchTaskData(fd)) /\ Fits(TriggerCreate(fd))
       /\ Fits(FetchTermEvents(fd)) /\ Fits(Execute(fd))
       /\ Fits({<<Event(fd, TASK_FETCH_FLAGS, "none")>>})
       /\ Fits({<<>>, <<Event(fd, FILES_SEND, "none")>>})
       /\ Fits({<<Event(fd, FILES_SEND_ACK, "none")>>})
       /\ Fits({<<Event(fd, FILES_SEND_READY, "none")>>})
       /\ Fits({<<Event(ALL_CLIENTS, PLATFORM_FETCH_POSTS, "none")>>})
       /\ Fits({<<Event(fd, STATUS_REPORT, "none")>>}) /\ Fits(SavePlatformPostOfTask)
       /\ Fits(SavePlatformPost \cup {<<Throw("payload")>>})
       /\ Fits({ScheduleIPC}) /\ Fits({<<>>})
  BY <1>2, <1>3, <1>4, <1>5, <1>6, <1>8, <1>9, <1>10, <1>11, <1>12, <1>13, Zenon
<1>15. type # "none"
  BY DEF ProcessClientRequest
<1> HIDE DEF Fits
<1>16. Fits(ProcessClientRequest[fd][type])
  <2> DEFINE r == ProcessClientRequest[fd]
  <2>1. type \in {"APPLICATION", "FETCH_SCHEDULE", "UPDATE_SCHEDULE", "FETCH_SCHEDULE_TOKENS",
                  "FETCH_TASK_DATA", "TRIGGER_CREATE", "TASK_FLAGS", "FETCH_FILE",
                  "FETCH_FILE_ACK", "FETCH_FILE_READY", "FETCH_TERM_HITS", "CONVERT_TASK",
                  "EXECUTE", "FETCH_POSTS", "UPDATE_POST", "KIQ_STATUS", "IPC_REQUEST", "UNKNOWN"}
    BY Zenon DEF ProcessClientRequest
  <2>2. /\ r["APPLICATION"] = Application(fd) /\ r["FETCH_SCHEDULE"] = FetchSchedule(fd)
        /\ r["UPDATE_SCHEDULE"] = UpdateSchedule(fd)
        /\ r["FETCH_SCHEDULE_TOKENS"] = FetchScheduleTokens(fd)
        /\ r["FETCH_TASK_DATA"] = FetchTaskData(fd) /\ r["TRIGGER_CREATE"] = TriggerCreate(fd)
        /\ r["TASK_FLAGS"] = {<<Event(fd, TASK_FETCH_FLAGS, "none")>>}
        /\ r["FETCH_FILE"] = {<<>>, <<Event(fd, FILES_SEND, "none")>>}
        /\ r["FETCH_FILE_ACK"] = {<<Event(fd, FILES_SEND_ACK, "none")>>}
        /\ r["FETCH_FILE_READY"] = {<<Event(fd, FILES_SEND_READY, "none")>>}
    BY Zenon DEF ProcessClientRequest
  <2>3. /\ r["FETCH_TERM_HITS"] = FetchTermEvents(fd) /\ r["CONVERT_TASK"] = SavePlatformPostOfTask
        /\ r["EXECUTE"] = Execute(fd)
        /\ r["FETCH_POSTS"] = {<<Event(ALL_CLIENTS, PLATFORM_FETCH_POSTS, "none")>>}
        /\ r["UPDATE_POST"] = SavePlatformPost \cup {<<Throw("payload")>>}
        /\ r["KIQ_STATUS"] = {<<Event(fd, STATUS_REPORT, "none")>>}
        /\ r["IPC_REQUEST"] = {ScheduleIPC} /\ r["UNKNOWN"] = {<<>>}
    BY Zenon DEF ProcessClientRequest
  <2> HIDE DEF r
  <2>4. Fits(r[type])
    BY <1>14, <2>1, <2>2, <2>3, Zenon
  <2> QED BY <2>4 DEF r
<1> QED BY <1>15, <1>16 DEF Fits

\* The calls of each other message of a client.
LEMMA MessagesPlain ==
  ASSUME NEW fd \in Fds, NEW type \in DOMAIN ClientMessages[fd]
  PROVE  ClientMessages[fd][type] \subseteq Seq(PlainCall) /\ type # "none"
<1>0. fd \in Int /\ "none" \in Tags /\ "final" \in Tags
  BY FdsAssumption DEF Tags
<1>1. \A name \in MessageNames : Send(fd, name) \in PlainCall
  BY <1>0, PlainShapes
<1>2. InitClient(fd) \in PlainCall /\ EndSession(fd) \in PlainCall /\ Notify(fd) \in PlainCall
  BY PlainShapes
<1>3. {<<InitClient(fd)>>} \subseteq Seq(PlainCall) /\ {<<EndSession(fd)>>} \subseteq Seq(PlainCall)
  BY <1>2, SeqOne
<1>4. {<<Notify(fd), Send(fd, "pong")>>} \subseteq Seq(PlainCall)
  BY <1>1, <1>2, Names, SeqTwo
<1>5. {<<Send(fd, "File Ready")>>} \subseteq Seq(PlainCall)
  BY <1>1, Names, SeqOne
<1>6. {<<Send(fd, "Message Received")>>} \subseteq Seq(PlainCall)
  BY <1>1, Names, SeqOne
<1>7. ScheduleTask(fd) \subseteq Seq(PlainCall)
  <2> DEFINE files == {<<>>, <<Event(fd, FILE_UPDATE, "final")>>,
                       <<Event(fd, FILE_UPDATE, "none"), Event(fd, FILE_UPDATE, "none")>>}
             tasks == {<<>>, <<Event(fd, SCHEDULER_SUCCESS, "none")>>}
  <2>1. Event(fd, FILE_UPDATE, "none") \in PlainCall
    BY <1>0, PlainShapes, RequestCodes
  <2>2. <<Event(fd, FILE_UPDATE, "none"), Event(fd, FILE_UPDATE, "none")>> \in Seq(PlainCall)
    BY <2>1, SeqTwo
  <2>3. files \subseteq Seq(PlainCall)
    BY <1>0, <2>2, RaisedPlain, RequestCodes, EmptySeq
  <2>4. tasks \subseteq Seq(PlainCall)
    BY <1>0, RaisedPlain, RequestCodes, EmptySeq
  <2>5. <<Throw("stoi")>> \in Seq(PlainCall)
    BY ThrowPlain DEF Reasons
  <2>6. ScheduleTask(fd) = {<<>>, <<Throw("stoi")>>} \cup Then(files, tasks)
    BY DEF ScheduleTask
  <2> HIDE DEF files, tasks
  <2> QED BY <2>3, <2>4, <2>5, <2>6, ThenSeq, EmptySeq
<1>8. Then({<<Send(fd, "Processing Schedule Request")>>}, ScheduleTask(fd)) \subseteq Seq(PlainCall)
  <2> DEFINE first == {<<Send(fd, "Processing Schedule Request")>>}
  <2>1. first \subseteq Seq(PlainCall)
    BY <1>1, Names, SeqOne
  <2> HIDE DEF first
  <2>2. Then(first, ScheduleTask(fd)) \subseteq Seq(PlainCall)
    BY <1>7, <2>1, ThenSeq
  <2> QED BY <2>2 DEF first
<1> DEFINE Fits(calls) == calls \subseteq Seq(PlainCall)
<1>9. /\ Fits({<<InitClient(fd)>>}) /\ Fits({<<EndSession(fd)>>})
      /\ Fits({<<Notify(fd), Send(fd, "pong")>>}) /\ Fits({<<Send(fd, "File Ready")>>})
      /\ Fits({<<Send(fd, "Message Received")>>})
      /\ Fits(Then({<<Send(fd, "Processing Schedule Request")>>}, ScheduleTask(fd)))
  BY <1>3, <1>4, <1>5, <1>6, <1>8, Zenon
<1>10. type # "none"
  BY DEF ClientMessages
<1> HIDE DEF Fits
<1>11. Fits(ClientMessages[fd][type])
  <2>1. type \in {"START", "STOP", "PING", "UPLOAD", "MESSAGE", "SCHEDULE"}
    BY Zenon DEF ClientMessages
  <2>2. /\ ClientMessages[fd]["START"] = {<<InitClient(fd)>>}
        /\ ClientMessages[fd]["STOP"] = {<<EndSession(fd)>>}
        /\ ClientMessages[fd]["PING"] = {<<Notify(fd), Send(fd, "pong")>>}
        /\ ClientMessages[fd]["UPLOAD"] = {<<Send(fd, "File Ready")>>}
        /\ ClientMessages[fd]["MESSAGE"] = {<<Send(fd, "Message Received")>>}
        /\ ClientMessages[fd]["SCHEDULE"]
             = Then({<<Send(fd, "Processing Schedule Request")>>}, ScheduleTask(fd))
    BY Zenon DEF ClientMessages
  <2> QED BY <1>9, <2>1, <2>2, Zenon
<1> QED BY <1>10, <1>11 DEF Fits

LEMMA PeersPlain ==
  ASSUME NEW e \in PeerEvents
  PROVE  <<Event(ALL_CLIENTS, e[1], e[2])>> \in Seq(PlainCall)
<1>1. e[1] \in 1 .. 39
  BY DEF PeerEvents, PLATFORM_NEW_POST, PLATFORM_REQUEST, PLATFORM_INFO, PLATFORM_ERROR,
         KIQ_IPC_MESSAGE, IPC_RECONNECT_REQUEST
<1>2. e[2] \in Tags
  BY DEF PeerEvents, Tags
<1> QED BY <1>1, <1>2, RaisedPlain DEF ALL_CLIENTS

-----------------------------------------------------------------------------
(* How stacks change.                                                      *)

LEMMA Least ==
  ASSUME NEW S \in SUBSET Nat, S # {}
  PROVE  \E i \in S : \A j \in S : i <= j
<1> DEFINE R == OpToRel(<, Nat)
<1>1. IsWellFoundedOn(R, Nat)
  BY NatLessThanWellFounded
<1>2. \A i, j \in Nat : <<i, j>> \in R <=> i < j
  BY DEF OpToRel
<1> HIDE DEF R
<1>3. PICK i \in S : \A j \in S : ~(<<j, i>> \in R)
  BY <1>1, WFMin
<1>4. ASSUME NEW j \in S PROVE i <= j
  <2>1. i \in Nat /\ j \in Nat /\ ~(j < i)
    BY <1>2, <1>3
  <2> QED BY <2>1
<1> QED BY <1>4

LEMMA ConcatFacts ==
  ASSUME NEW S, NEW c \in Seq(S), NEW r \in Seq(S)
  PROVE  /\ c \o r \in Seq(S) /\ Len(c \o r) = Len(c) + Len(r)
         /\ \A i \in 1 .. Len(c) : (c \o r)[i] = c[i]
         /\ \A i \in 1 .. Len(c) + Len(r) : i > Len(c) => (c \o r)[i] = r[i - Len(c)]
<1>1. c \o r \in Seq(S)
  OBVIOUS
<1>2. Len(c \o r) = Len(c) + Len(r)
  OBVIOUS
<1>3. ASSUME NEW i \in 1 .. Len(c) PROVE (c \o r)[i] = c[i]
  OBVIOUS
<1>4. ASSUME NEW i \in 1 .. Len(c) + Len(r), i > Len(c) PROVE (c \o r)[i] = r[i - Len(c)]
  BY <1>4
<1> QED BY <1>1, <1>2, <1>3, <1>4

LEMMA GoesSeq ==
  ASSUME NEW S, NEW s \in Seq(S), s # <<>>, NEW c \in Seq(S)
  PROVE  /\ c \o Tail(s) \in Seq(S)
         /\ Len(c \o Tail(s)) = Len(c) + Len(s) - 1
         /\ \A i \in 1 .. Len(c) : (c \o Tail(s))[i] = c[i]
         /\ \A i \in 1 .. Len(c) + Len(s) - 1 : i > Len(c) =>
              /\ i - Len(c) + 1 \in 2 .. Len(s)
              /\ (c \o Tail(s))[i] = s[i - Len(c) + 1]
<1> DEFINE r == Tail(s)
<1>1. /\ r \in Seq(S) /\ Len(r) = Len(s) - 1 /\ Len(s) \in Nat \ {0}
      /\ \A i \in 1 .. Len(s) - 1 : r[i] = s[i + 1]
  OBVIOUS
<1> HIDE DEF r
<1>2. /\ c \o r \in Seq(S) /\ Len(c \o r) = Len(c) + Len(r) /\ Len(c) \in Nat
      /\ \A i \in 1 .. Len(c) : (c \o r)[i] = c[i]
      /\ \A i \in 1 .. Len(c) + Len(r) : i > Len(c) => (c \o r)[i] = r[i - Len(c)]
  <2>1. r \in Seq(S)
    BY <1>1
  <2>2. Len(c) \in Nat
    OBVIOUS
  <2> QED BY <2>1, <2>2, ConcatFacts, Zenon
<1>3. ASSUME NEW i \in 1 .. Len(c) + Len(s) - 1, i > Len(c)
      PROVE  /\ i - Len(c) + 1 \in 2 .. Len(s)
             /\ (c \o r)[i] = s[i - Len(c) + 1]
  <2>1. i - Len(c) \in 1 .. Len(s) - 1
    BY <1>1, <1>2, <1>3
  <2>2. r[i - Len(c)] = s[i - Len(c) + 1]
    BY <1>1, <2>1
  <2>3. (c \o r)[i] = r[i - Len(c)]
    BY <1>1, <1>2, <1>3
  <2> QED BY <1>1, <2>1, <2>2, <2>3
<1>4. c \o r \in Seq(S) /\ Len(c \o r) = Len(c) + Len(s) - 1
  BY <1>1, <1>2
<1> QED BY <1>2, <1>3, <1>4 DEF r

LEMMA SuffixSeq ==
  ASSUME NEW S, NEW s \in Seq(S), NEW m \in 1 .. Len(s)
  PROVE  /\ SubSeq(s, m, Len(s)) \in Seq(S)
         /\ Len(SubSeq(s, m, Len(s))) = Len(s) - m + 1
         /\ \A i \in 1 .. Len(s) - m + 1 : /\ SubSeq(s, m, Len(s))[i] = s[i + m - 1]
                                           /\ i + m - 1 \in m .. Len(s)
<1>1. Len(s) \in Nat /\ m \in Int /\ m >= 1 /\ m <= Len(s)
  OBVIOUS
<1>2. SubSeq(s, m, Len(s)) \in Seq(S)
  OBVIOUS
<1>3. Len(SubSeq(s, m, Len(s))) = Len(s) - m + 1
  BY <1>1
<1>4. ASSUME NEW i \in 1 .. Len(s) - m + 1
      PROVE  SubSeq(s, m, Len(s))[i] = s[i + m - 1] /\ i + m - 1 \in m .. Len(s)
  BY <1>1
<1> QED BY <1>2, <1>3, <1>4

\* The kinds of the calls tell what they hold.
LEMMA PlainKinds ==
  ASSUME NEW c \in PlainCall
  PROVE  /\ c[1] # "return" /\ c[1] # "cast"
         /\ c[1] = "event" => c[2] \in Int /\ c[3] \in 1 .. 39 /\ c[4] \in Tags
         /\ c[1] \in {"send", "castto"} => c[2] \in Int /\ c[3] \in MessageNames
         /\ c[1] = "broadcast" => c[2] \in MessageNames
         /\ c[1] = "throw" => c[2] \in Reasons
         /\ c[1] = "request" => c[2] \in MainTasks
         /\ c[1] \in {"init", "end", "notify"} => c[2] \in Fds
  BY DEF PlainCall

LEMMA CastKinds ==
  ASSUME NEW c \in CastCall
  PROVE  c[1] = "cast" /\ c[2] \in Nat /\ c[3] \in MessageNames /\ c[4] \in SUBSET Fds
  BY DEF CastCall

LEMMA ReturnKind == Return[1] = "return"
  BY DEF Return

LEMMA LoopKinds ==
  ASSUME NEW c \in LoopCall
  PROVE  /\ c[1] # "castto" /\ c[1] # "send" /\ c[1] # "notify" /\ c[1] # "cast" /\ c[1] # "return"
         /\ c[1] \notin {"init", "end", "request"}
         /\ c[1] = "event" => c[2] = ALL_CLIENTS /\ c[3] \in LoopCode /\ c[4] \in Tags
         /\ c[1] = "throw" => c[2] \in Reasons
  BY DEF LoopCall

\* A thread goes on: the return stays the last of its calls.
LEMMA GoesStack ==
  ASSUME stack \in [Threads -> Seq(AnyCall)], StackInv,
         NEW t \in Threads, stack[t] # <<>>, Head(stack[t])[1] # "return",
         NEW calls \in Seq(PlainCall \cup CastCall), Goes(t, calls)
  PROVE  /\ stack' \in [Threads -> Seq(AnyCall)]
         /\ StackInv'
         /\ \A u \in Threads \ {t} : stack'[u] = stack[u]
         /\ stack'[t] # <<>>
         /\ DOMAIN stack'[t] = 1 .. Len(calls) + Len(stack[t]) - 1
         /\ \A i \in 1 .. Len(calls) : stack'[t][i] = calls[i]
         /\ \A i \in 1 .. Len(calls) + Len(stack[t]) - 1 : i > Len(calls) =>
              /\ i - Len(calls) + 1 \in 2 .. Len(stack[t])
              /\ stack'[t][i] = stack[t][i - Len(calls) + 1]
<1> DEFINE s == stack[t]
           n == calls \o Tail(s)
<1>1. s \in Seq(AnyCall) /\ s # <<>> /\ calls \in Seq(AnyCall)
  BY DEF AnyCall
<1>2. stack' = [stack EXCEPT ![t] = n]
  BY DEF Goes
<1>3. ReturnIsLast(s) /\ Head(s) = s[1] /\ Head(s)[1] # "return"
  BY DEF StackInv
<1> HIDE DEF s
<1>4. /\ n \in Seq(AnyCall)
      /\ Len(n) = Len(calls) + Len(s) - 1
      /\ \A i \in 1 .. Len(calls) : n[i] = calls[i]
      /\ \A i \in 1 .. Len(calls) + Len(s) - 1 : i > Len(calls) =>
           i - Len(calls) + 1 \in 2 .. Len(s) /\ n[i] = s[i - Len(calls) + 1]
  BY <1>1, GoesSeq
<1>5. Len(calls) \in Nat /\ Len(s) \in Nat \ {0}
  BY <1>1
<1> HIDE DEF n
<1>6. DOMAIN n = 1 .. Len(calls) + Len(s) - 1
  BY <1>4
<1>7. Len(s) >= 2
  <2>1. 1 \in DOMAIN s
    BY <1>1, <1>5
  <2>2. s[1][1] = "return" <=> 1 = Len(s)
    BY <1>3, <2>1, Zenon DEF ReturnIsLast
  <2>3. s[1][1] # "return"
    BY <1>3
  <2>4. Len(s) # 1
    BY <2>2, <2>3
  <2>5. \A k \in Nat \ {0} : k # 1 => k >= 2
    OBVIOUS
  <2> QED BY <1>5, <2>4, <2>5, Zenon
<1>8. ReturnIsLast(n)
  <2> SUFFICES ASSUME NEW i \in 1 .. Len(calls) + Len(s) - 1
               PROVE  n[i][1] = "return" <=> i = Len(calls) + Len(s) - 1
    BY <1>4, <1>6 DEF ReturnIsLast
  <2>1. CASE i > Len(calls)
    <3> DEFINE j == i - Len(calls) + 1
    <3>1. j \in 2 .. Len(s) /\ n[i] = s[j]
      BY <1>4, <2>1
    <3>2. j \in DOMAIN s
      BY <1>1, <3>1
    <3>3. s[j][1] = "return" <=> j = Len(s)
      BY <1>3, <3>2 DEF ReturnIsLast
    <3>4. j = Len(s) <=> i = Len(calls) + Len(s) - 1
      BY <1>5
    <3> QED BY <3>1, <3>3, <3>4
  <2>2. CASE ~(i > Len(calls))
    <3>1. i \in 1 .. Len(calls) /\ i # Len(calls) + Len(s) - 1
      BY <1>5, <1>7, <2>2
    <3>2. calls[i] \in PlainCall \cup CastCall /\ n[i] = calls[i]
      BY <1>4, <3>1
    <3>3. calls[i][1] # "return"
      BY <3>2, PlainKinds, CastKinds
    <3> QED BY <3>1, <3>2, <3>3
  <2> QED BY <2>1, <2>2
<1>9. stack'[t] = n /\ \A u \in Threads \ {t} : stack'[u] = stack[u]
  BY <1>2
<1>10. stack' \in [Threads -> Seq(AnyCall)]
  BY <1>2, <1>4
<1>11. StackInv'
  <2> SUFFICES ASSUME NEW u \in Threads PROVE ReturnIsLast(stack'[u])
    BY DEF StackInv, ReturnIsLast
  <2>1. CASE u = t
    BY <1>8, <1>9, <2>1
  <2>2. CASE u # t
    BY <1>9, <2>2 DEF StackInv
  <2> QED BY <2>1, <2>2
<1>12. n # <<>>
  BY <1>4, <1>5, <1>7
<1> QED BY <1>4, <1>6, <1>9, <1>10, <1>11, <1>12 DEF s

\* An exception leaves the end of a try block or the return on top.
LEMMA UnwindStack ==
  ASSUME stack \in [Threads -> Seq(AnyCall)], StackInv,
         NEW t \in Threads, stack[t] # <<>>, NEW why, Unwind(t, why)
  PROVE  /\ stack' \in [Threads -> Seq(AnyCall)]
         /\ StackInv'
         /\ \A u \in Threads \ {t} : stack'[u] = stack[u]
         /\ stack'[t] # <<>>
         /\ \A i \in DOMAIN stack'[t] : \E j \in DOMAIN stack[t] :
              /\ stack'[t][i] = stack[t][j]
              /\ j = 1 => stack[t][j][1] # "castto"
         /\ fate' = IF t = Loop THEN why ELSE fate
<1> DEFINE s      == stack[t]
           caught == {i \in DOMAIN s : s[i] \in {EndTry, Return}}
           to     == CHOOSE i \in caught : \A j \in caught : i <= j
           n      == SubSeq(s, to, Len(s))
<1>1. s \in Seq(AnyCall) /\ s # <<>> /\ ReturnIsLast(s)
  BY DEF StackInv
<1>2. stack' = [stack EXCEPT ![t] = n] /\ fate' = IF t = Loop THEN why ELSE fate
  BY DEF Unwind
<1> HIDE DEF s
<1>3. Len(s) \in DOMAIN s /\ DOMAIN s = 1 .. Len(s) /\ Len(s) \in Nat
  BY <1>1
<1>4. s[Len(s)][1] = "return" /\ s[Len(s)] \in AnyCall
  BY <1>1, <1>3 DEF ReturnIsLast
<1>5. s[Len(s)] = Return
  BY <1>4, PlainKinds, CastKinds DEF AnyCall
<1>6. caught \in SUBSET Nat /\ caught # {}
  BY <1>3, <1>5
<1>7. to \in caught
  <2> HIDE DEF caught
  <2>1. \E i \in caught : \A j \in caught : i <= j
    BY <1>6, Least
  <2> QED BY <2>1, Zenon
<1> HIDE DEF to
<1>8. to \in 1 .. Len(s) /\ s[to] \in {EndTry, Return}
  BY <1>3, <1>7
<1>9. s[to][1] # "castto"
  BY <1>8 DEF EndTry, Return
<1>10. /\ n \in Seq(AnyCall)
       /\ Len(n) = Len(s) - to + 1
       /\ \A i \in 1 .. Len(s) - to + 1 : n[i] = s[i + to - 1] /\ i + to - 1 \in to .. Len(s)
  BY <1>1, <1>8, SuffixSeq
<1> HIDE DEF n, caught
<1>11. n # <<>> /\ DOMAIN n = 1 .. Len(s) - to + 1
  BY <1>3, <1>8, <1>10
<1>12. ReturnIsLast(n)
  <2> SUFFICES ASSUME NEW i \in 1 .. Len(s) - to + 1
               PROVE  n[i][1] = "return" <=> i = Len(s) - to + 1
    BY <1>10, <1>11 DEF ReturnIsLast
  <2>1. n[i] = s[i + to - 1] /\ i + to - 1 \in DOMAIN s
    BY <1>3, <1>8, <1>10
  <2>2. s[i + to - 1][1] = "return" <=> i + to - 1 = Len(s)
    BY <1>1, <2>1 DEF ReturnIsLast
  <2>3. i + to - 1 = Len(s) <=> i = Len(s) - to + 1
    BY <1>3, <1>8
  <2> QED BY <2>1, <2>2, <2>3
<1>13. stack'[t] = n /\ \A u \in Threads \ {t} : stack'[u] = stack[u]
  BY <1>2
<1>14. stack' \in [Threads -> Seq(AnyCall)]
  BY <1>2, <1>10
<1>15. StackInv'
  <2> SUFFICES ASSUME NEW u \in Threads PROVE ReturnIsLast(stack'[u])
    BY DEF StackInv, ReturnIsLast
  <2>1. CASE u = t
    BY <1>12, <1>13, <2>1
  <2>2. CASE u # t
    BY <1>13, <2>2 DEF StackInv
  <2> QED BY <2>1, <2>2
<1>16. ASSUME NEW i \in DOMAIN n
       PROVE  \E j \in DOMAIN s : n[i] = s[j] /\ (j = 1 => s[j][1] # "castto")
  <2> DEFINE j == i + to - 1
  <2>1. n[i] = s[j] /\ j \in to .. Len(s)
    BY <1>10, <1>11
  <2>2. j \in DOMAIN s
    BY <1>3, <1>8, <2>1
  <2>3. j = 1 => j = to
    BY <1>8, <2>1
  <2> HIDE DEF j
  <2> QED BY <1>9, <2>1, <2>2, <2>3
<1> QED BY <1>2, <1>11, <1>13, <1>14, <1>15, <1>16 DEF s

-----------------------------------------------------------------------------
(* What the steps keep.                                                    *)

States == {"none", "active", "inactive", "dangling"}

\* A step that leaves out nobody who stays, and one that erases no session.
Stayed ==
  \A u \in Threads : input[u] # "none" =>
    away[u] \subseteq away'[u] /\ \A f \in Fds \ away'[u] : sessions'[f] = "active"
NoneErased == \A f \in Fds : sessions[f] # "none" => sessions'[f] # "none"

LEMMA LoopIsNoClient == /\ Loop \in Threads /\ Ipc \in Threads /\ Loop # Ipc
                        /\ Loop \notin Fds /\ Ipc \notin Fds /\ Fds \subseteq Threads
  BY FdsAssumption DEF Loop, Ipc, Threads

LEMMA StillStays ==
  ASSUME CastInv, UNCHANGED <<sessions, away>>
  PROVE  Stayed /\ NoneErased
  BY DEF CastInv, StayersActive, Stayed, NoneErased

LEMMA BecomesStays ==
  ASSUME TypeInv, CastInv, NEW fd \in Fds, NEW st \in States, Becomes(fd, st)
  PROVE  /\ sessions' \in [Fds -> States] /\ away' \in [Threads -> SUBSET Fds]
         /\ Stayed
         /\ (st # "none" \/ st = sessions[fd]) => NoneErased
<1>1. /\ sessions \in [Fds -> States] /\ away \in [Threads -> SUBSET Fds]
      /\ input \in [Threads -> Inputs]
      /\ sessions' = [sessions EXCEPT ![fd] = st]
      /\ away' = IF st = "active" THEN away ELSE Without(fd)
  BY DEF TypeInv, Becomes, States
<1>2. sessions' \in [Fds -> States]
  BY <1>1
<1>3. away' \in [Threads -> SUBSET Fds]
  BY <1>1 DEF Without
<1>4. (st # "none" \/ st = sessions[fd]) => NoneErased
  BY <1>1 DEF NoneErased
<1>5. ASSUME NEW u \in Threads, input[u] # "none"
      PROVE  away[u] \subseteq away'[u] /\ \A f \in Fds \ away'[u] : sessions'[f] = "active"
  <2>1. \A f \in Fds \ away[u] : sessions[f] = "active"
    BY <1>5 DEF CastInv, StayersActive
  <2>2. CASE st = "active"
    BY <1>1, <2>1, <2>2
  <2>3. CASE st # "active"
    <3>1. away'[u] = away[u] \cup {fd}
      BY <1>1, <1>5, <2>3 DEF Without
    <3> QED BY <1>1, <2>1, <3>1
  <2> QED BY <2>2, <2>3
<1> QED BY <1>2, <1>3, <1>4, <1>5 DEF Stayed

\* Casts that were there before, or that have told whom they passed.
LEMMA CastsKeep ==
  ASSUME TypeInv, CastInv, NEW t \in Threads, stack[t] # <<>>, UNCHANGED input, Stayed,
         \A u \in Threads \ {t} : stack'[u] = stack[u],
         \A i \in DOMAIN stack'[t] : stack'[t][i][1] = "cast" =>
           \/ \E j \in DOMAIN stack[t] : stack'[t][i] = stack[t][j]
           \/ \A f \in Fds \ away'[t] : f <= stack'[t][i][2] => f \in stack'[t][i][4]
  PROVE  CastInv'
<1>1. \A u \in Threads : stack[u] # <<>> => input[u] # "none"
  BY DEF CastInv, StayersActive
<1>2. \A u \in Threads : StayersActive(u)'
  <2> SUFFICES ASSUME NEW u \in Threads
               PROVE  /\ stack'[u] # <<>> => input[u] # "none"
                      /\ input[u] # "none" => \A f \in Fds \ away'[u] : sessions'[f] = "active"
    BY DEF StayersActive
  <2>1. stack'[u] # <<>> => input[u] # "none"
    BY <1>1
  <2>2. input[u] # "none" => \A f \in Fds \ away'[u] : sessions'[f] = "active"
    BY DEF Stayed
  <2> QED BY <2>1, <2>2
<1>3. ASSUME NEW u \in Threads, NEW i \in DOMAIN stack'[u], stack'[u][i][1] = "cast",
             NEW j \in DOMAIN stack[u], stack'[u][i] = stack[u][j], input[u] # "none",
             NEW f \in Fds \ away'[u], f <= stack'[u][i][2]
      PROVE  f \in stack'[u][i][4]
  <2>1. f \in Fds \ away[u]
    BY <1>3 DEF Stayed
  <2>2. PassedAreTold(stack[u], away[u])
    BY DEF CastInv
  <2> QED BY <1>3, <2>1, <2>2 DEF PassedAreTold
<1>4. \A u \in Threads : PassedAreTold(stack'[u], away'[u])
  <2> SUFFICES ASSUME NEW u \in Threads, NEW i \in DOMAIN stack'[u], stack'[u][i][1] = "cast",
                      NEW f \in Fds \ away'[u], f <= stack'[u][i][2]
               PROVE  f \in stack'[u][i][4]
    BY DEF PassedAreTold
  <2>1. CASE u = t
    <3>1. input[u] # "none"
      BY <1>1, <2>1
    <3> QED BY <1>3, <2>1, <3>1
  <2>2. CASE u # t
    <3>1. stack'[u] = stack[u]
      BY <2>2
    <3>2. stack[u] \in Seq(AnyCall)
      BY DEF TypeInv
    <3>3. stack[u] # <<>>
      BY <3>1, <3>2
    <3>4. input[u] # "none"
      BY <1>1, <3>3
    <3> QED BY <1>3, <3>1, <3>4
  <2> QED BY <2>1, <2>2
<1> QED BY <1>2, <1>4 DEF CastInv, PassedAreTold

LEMMA LoopKeeps ==
  ASSUME TypeInv, LoopInv, NoneErased, stack'[Loop] = stack[Loop], fate' # "session"
  PROVE  LoopInv'
<1>1. ASSUME NEW i \in DOMAIN stack[Loop], stack[Loop][i][1] = "castto"
      PROVE  sessions'[stack[Loop][i][2]] # "none"
  <2>1. /\ stack[Loop][i] \in OnLoop /\ sessions[stack[Loop][i][2]] # "none"
    BY <1>1 DEF LoopInv, SendsAtOnce
  <2>2. stack[Loop][i][2] \in Fds
    BY <1>1, <2>1, LoopKinds, CastKinds, ReturnKind DEF OnLoop
  <2> QED BY <2>1, <2>2 DEF NoneErased
<1> QED BY <1>1 DEF LoopInv, SendsAtOnce

\* A thread goes on, with new calls that fit the invariant.
LEMMA GoesKeeps ==
  ASSUME IInv, NEW t \in Threads, stack[t] # <<>>, Head(stack[t])[1] # "return",
         NEW calls \in Seq(PlainCall \cup CastCall), Goes(t, calls),
         \A i \in DOMAIN calls : calls[i][1] = "cast" =>
           \A f \in Fds \ away'[t] : f <= calls[i][2] => f \in calls[i][4],
         t = Loop => \A i \in DOMAIN calls :
           /\ calls[i] \in OnLoop
           /\ calls[i][1] = "castto" => i = 1 /\ sessions'[calls[i][2]] # "none",
         UNCHANGED input, Stayed, t # Loop => NoneErased, fate' # "session"
  PROVE  /\ stack' \in [Threads -> Seq(AnyCall)]
         /\ StackInv' /\ CastInv' /\ LoopInv'
<1>1. TypeInv /\ StackInv /\ CastInv /\ LoopInv /\ stack \in [Threads -> Seq(AnyCall)]
  BY DEF IInv, TypeInv
<1>2. DOMAIN calls = 1 .. Len(calls) /\ Len(calls) \in Nat
  OBVIOUS
<1> DEFINE s == stack[t]
           n == stack'[t]
<1>3. /\ stack' \in [Threads -> Seq(AnyCall)]
      /\ StackInv'
      /\ \A u \in Threads \ {t} : stack'[u] = stack[u]
      /\ DOMAIN n = 1 .. Len(calls) + Len(s) - 1
      /\ \A i \in 1 .. Len(calls) : n[i] = calls[i]
      /\ \A i \in 1 .. Len(calls) + Len(s) - 1 : i > Len(calls) =>
           i - Len(calls) + 1 \in 2 .. Len(s) /\ n[i] = s[i - Len(calls) + 1]
  BY <1>1, <1>2, GoesStack
<1>4. s \in Seq(AnyCall) /\ DOMAIN s = 1 .. Len(s) /\ Len(s) \in Nat
  BY <1>1
<1> HIDE DEF s, n
<1>5. ASSUME NEW i \in DOMAIN n
      PROVE  \/ i \in 1 .. Len(calls) /\ n[i] = calls[i]
             \/ \E j \in DOMAIN s : j # 1 /\ n[i] = s[j]
  <2>1. CASE i > Len(calls)
    <3> DEFINE j == i - Len(calls) + 1
    <3>1. j \in 2 .. Len(s) /\ n[i] = s[j]
      BY <1>3, <2>1
    <3>2. j \in DOMAIN s /\ j # 1
      BY <1>4, <3>1
    <3> HIDE DEF j
    <3> QED BY <3>1, <3>2
  <2>2. CASE ~(i > Len(calls))
    <3>1. i \in 1 .. Len(calls)
      BY <1>2, <1>3, <1>4, <2>2
    <3> QED BY <1>3, <3>1
  <2> QED BY <2>1, <2>2
<1>6. CastInv'
  <2>1. ASSUME NEW i \in DOMAIN n, n[i][1] = "cast"
        PROVE  \/ \E j \in DOMAIN s : n[i] = s[j]
               \/ \A f \in Fds \ away'[t] : f <= n[i][2] => f \in n[i][4]
    <3>1. CASE i \in 1 .. Len(calls) /\ n[i] = calls[i]
      BY <1>2, <2>1, <3>1
    <3> QED BY <1>5, <3>1
  <2>2. \A u \in Threads \ {t} : stack'[u] = stack[u]
    BY <1>3
  <2> QED BY <1>1, <2>1, <2>2, CastsKeep DEF s, n
<1>7. LoopInv'
  <2>1. CASE t # Loop
    <3>1. stack'[Loop] = stack[Loop]
      BY <1>3, <2>1, LoopIsNoClient
    <3> QED BY <1>1, <2>1, <3>1, LoopKeeps
  <2>2. CASE t = Loop
    <3>1. ASSUME NEW i \in DOMAIN n
          PROVE  n[i] \in OnLoop /\ (n[i][1] = "castto" => i = 1 /\ sessions'[n[i][2]] # "none")
      <4>1. CASE i \in 1 .. Len(calls) /\ n[i] = calls[i]
        BY <1>2, <2>2, <4>1
      <4>2. ASSUME NEW j \in DOMAIN s, j # 1, n[i] = s[j]
            PROVE  n[i] \in OnLoop /\ n[i][1] # "castto"
        BY <1>1, <2>2, <4>2 DEF LoopInv, SendsAtOnce, s
      <4> QED BY <1>5, <4>1, <4>2
    <3> QED BY <2>2, <3>1 DEF LoopInv, SendsAtOnce, n
  <2> QED BY <2>1, <2>2
<1> QED BY <1>3, <1>6, <1>7

\* A thread goes on with the calls of a handler.
LEMMA PlainGoesKeeps ==
  ASSUME IInv, NEW t \in Threads, stack[t] # <<>>, Head(stack[t])[1] # "return",
         NEW calls \in Seq(PlainCall), t = Loop => calls \in Seq(LoopCall), Goes(t, calls),
         UNCHANGED input, Stayed, t # Loop => NoneErased, fate' # "session"
  PROVE  /\ stack' \in [Threads -> Seq(AnyCall)]
         /\ StackInv' /\ CastInv' /\ LoopInv'
<1>1. calls \in Seq(PlainCall \cup CastCall)
  OBVIOUS
<1>2. \A i \in DOMAIN calls : calls[i] \in PlainCall /\ (t = Loop => calls[i] \in LoopCall)
  OBVIOUS
<1>3. \A i \in DOMAIN calls : calls[i][1] # "cast"
  BY <1>2, PlainKinds
<1>4. t = Loop => \A i \in DOMAIN calls : calls[i] \in OnLoop /\ calls[i][1] # "castto"
  BY <1>2, LoopKinds DEF OnLoop
<1> QED BY <1>1, <1>3, <1>4, GoesKeeps

\* An exception in a thread; on the loop's it is not a missing session.
LEMMA UnwindKeeps ==
  ASSUME IInv, NEW t \in Threads, stack[t] # <<>>, NEW why, Unwind(t, why),
         t = Loop => why # "session", UNCHANGED input, Stayed, NoneErased
  PROVE  /\ stack' \in [Threads -> Seq(AnyCall)]
         /\ StackInv' /\ CastInv' /\ LoopInv'
         /\ fate' = IF t = Loop THEN why ELSE fate
<1>1. TypeInv /\ StackInv /\ CastInv /\ LoopInv /\ stack \in [Threads -> Seq(AnyCall)]
  BY DEF IInv, TypeInv
<1> DEFINE s == stack[t]
           n == stack'[t]
<1>2. /\ stack' \in [Threads -> Seq(AnyCall)]
      /\ StackInv'
      /\ \A u \in Threads \ {t} : stack'[u] = stack[u]
      /\ \A i \in DOMAIN n : \E j \in DOMAIN s :
           n[i] = s[j] /\ (j = 1 => s[j][1] # "castto")
      /\ fate' = IF t = Loop THEN why ELSE fate
  BY <1>1, UnwindStack
<1> HIDE DEF s, n
<1>3. fate' # "session"
  BY <1>1, <1>2 DEF LoopInv
<1>4. CastInv'
  <2>1. \A i \in DOMAIN n : \E j \in DOMAIN s : n[i] = s[j]
    BY <1>2
  <2>2. \A u \in Threads \ {t} : stack'[u] = stack[u]
    BY <1>2
  <2> QED BY <1>1, <2>1, <2>2, CastsKeep DEF s, n
<1>5. LoopInv'
  <2>1. CASE t # Loop
    <3>1. stack'[Loop] = stack[Loop]
      BY <1>2, <2>1, LoopIsNoClient
    <3> QED BY <1>1, <1>3, <3>1, LoopKeeps
  <2>2. CASE t = Loop
    <3>1. ASSUME NEW i \in DOMAIN n
          PROVE  n[i] \in OnLoop /\ n[i][1] # "castto"
      <4>1. PICK j \in DOMAIN s : n[i] = s[j] /\ (j = 1 => s[j][1] # "castto")
        BY <1>2
      <4> QED BY <1>1, <2>2, <4>1 DEF LoopInv, SendsAtOnce, s
    <3> QED BY <1>3, <2>2, <3>1 DEF LoopInv, SendsAtOnce, n
  <2> QED BY <2>1, <2>2
<1> QED BY <1>2, <1>4, <1>5

\* The next call of a thread.
LEMMA HeadFacts ==
  ASSUME IInv, NEW t \in Threads, NEW kind, NextIs(t, kind)
  PROVE  /\ stack[t] # <<>> /\ stack[t] \in Seq(AnyCall) /\ fate = "running"
         /\ Head(stack[t]) = stack[t][1] /\ Head(stack[t])[1] = kind
         /\ Head(stack[t]) \in AnyCall
         /\ t = Loop => Head(stack[t]) \in OnLoop
         /\ t = Loop /\ kind = "castto" => sessions[Head(stack[t])[2]] # "none"
<1>1. stack[t] \in Seq(AnyCall) /\ stack[t] # <<>> /\ fate = "running" /\ Head(stack[t])[1] = kind
  BY DEF IInv, TypeInv, NextIs
<1>2. Head(stack[t]) = stack[t][1] /\ 1 \in DOMAIN stack[t] /\ stack[t][1] \in AnyCall
  BY <1>1
<1> QED BY <1>1, <1>2 DEF IInv, LoopInv, SendsAtOnce

\* A call that is no broadcast's place and no return.
LEMMA HeadPlain ==
  ASSUME IInv, NEW t \in Threads, NEW kind, NextIs(t, kind), kind # "cast", kind # "return"
  PROVE  /\ Head(stack[t]) \in PlainCall
         /\ t = Loop /\ kind # "castto" => Head(stack[t]) \in LoopCall
<1>1. /\ Head(stack[t])[1] = kind /\ Head(stack[t]) \in AnyCall
      /\ t = Loop => Head(stack[t]) \in OnLoop
  BY HeadFacts
<1> QED BY <1>1, CastKinds, ReturnKind DEF AnyCall, OnLoop

-----------------------------------------------------------------------------
(* The steps of a thread.                                                  *)

LEMMA CallKeeps ==
  ASSUME IInv, NEW t \in Threads, Call(t)
  PROVE  IInv'
<1>1. UNCHANGED <<sessions, input, log, away, m_requests, inputs, fate>>
  BY DEF Call
<1>2. Stayed /\ NoneErased
  BY <1>1, StillStays DEF IInv
<1>3. ASSUME NEW kind, NextIs(t, kind), kind # "return",
             NEW calls \in Seq(PlainCall), t = Loop => calls \in Seq(LoopCall), Goes(t, calls)
      PROVE  IInv'
  <2>1. stack[t] # <<>> /\ Head(stack[t])[1] # "return"
    BY <1>3, HeadFacts
  <2>2. fate' # "session"
    BY <1>1 DEF IInv, LoopInv
  <2>3. stack' \in [Threads -> Seq(AnyCall)] /\ StackInv' /\ CastInv' /\ LoopInv'
    BY <1>1, <1>2, <1>3, <2>1, <2>2, PlainGoesKeeps
  <2>4. TypeInv'
    BY <1>1, <2>3 DEF IInv, TypeInv
  <2> QED BY <2>3, <2>4 DEF IInv
<1> DEFINE e == Head(stack[t])
<1>4. CASE NextIs(t, "event") /\ \E calls \in Handle(e[2], e[3], e[4]) : Goes(t, calls)
  <2>1. PICK calls \in Handle(e[2], e[3], e[4]) : Goes(t, calls)
    BY <1>4
  <2>2. e[1] = "event" /\ e \in PlainCall /\ (t = Loop => e \in LoopCall)
    BY <1>4, HeadFacts, HeadPlain
  <2> HIDE DEF e
  <2>3. e[2] \in Int /\ e[3] \in 1 .. 39 /\ e[4] \in Tags
    BY <2>2, PlainKinds
  <2>4. t = Loop => e[2] = ALL_CLIENTS /\ e[3] \in LoopCode
    BY <2>2, LoopKinds
  <2>5. calls \in Seq(PlainCall)
    BY <2>3, HandlePlain
  <2>6. t = Loop => calls \in Seq(LoopCall)
    BY <2>3, <2>4, HandleLoop
  <2> QED BY <1>3, <1>4, <2>1, <2>5, <2>6
<1>5. CASE NextIs(t, "system") /\ \E calls \in ProcessSystemEvent(e[2], e[3]) : Goes(t, calls)
  <2>1. PICK calls \in ProcessSystemEvent(e[2], e[3]) : Goes(t, calls)
    BY <1>5
  <2>2. calls \in Seq(LoopCall)
    BY SystemLoop
  <2> QED BY <1>3, <1>5, <2>1, <2>2, LoopSeqIsPlain
<1>6. CASE NextIs(t, "tasks") /\ \E calls \in HandlePendingTasks : Goes(t, calls)
  BY <1>3, <1>6, PassLoop, LoopSeqIsPlain
<1>7. CASE NextIs(t, "ipc") /\ \E calls \in SendIPCRequest : Goes(t, calls)
  BY <1>3, <1>7, PassLoop, LoopSeqIsPlain
<1>8. CASE NextIs(t, "platforms") /\ \E calls \in ProcessPlatform : Goes(t, calls)
  BY <1>3, <1>8, PassLoop, LoopSeqIsPlain
<1> QED BY <1>4, <1>5, <1>6, <1>7, <1>8, Zenon DEF Call

LEMMA RecordsType ==
  ASSUME TypeInv, NEW t \in Threads, NEW what \in AnyCall, Records(t, what)
  PROVE  log' \in [Threads -> Seq(AnyCall)]
  BY DEF TypeInv, Records

LEMMA SendMessageKeeps ==
  ASSUME IInv, NEW t \in Threads, SendMessage(t)
  PROVE  IInv'
<1> DEFINE call == Head(stack[t])
           fd   == call[2]
<1>1. UNCHANGED <<sessions, input, away, m_requests, inputs>>
  BY DEF SendMessage
<1>2. /\ stack[t] # <<>> /\ fate = "running" /\ call[1] \in {"send", "castto"} /\ call \in AnyCall
      /\ t = Loop => call[1] = "castto" /\ sessions[fd] # "none"
  <2>1. CASE NextIs(t, "send")
    <3>1. t = Loop => call \in LoopCall
      BY <2>1, HeadPlain
    <3>2. call[1] = "send" /\ stack[t] # <<>> /\ fate = "running" /\ call \in AnyCall
      BY <2>1, HeadFacts
    <3> HIDE DEF call
    <3> QED BY <3>1, <3>2, LoopKinds
  <2>2. CASE NextIs(t, "castto")
    BY <2>2, HeadFacts
  <2> QED BY <2>1, <2>2 DEF SendMessage
<1>3. /\ IF call[1] = "send" THEN Records(t, call) ELSE UNCHANGED log
      /\ \/ sessions[fd] = "none" /\ Unwind(t, "session")
         \/ /\ sessions[fd] # "none" /\ Goes(t, <<>>)
            /\ fate' \in IF sessions[fd] = "dangling" THEN {fate, "crashed"} ELSE {fate}
  BY Zenon DEF SendMessage
<1> HIDE DEF call, fd
<1>4. Stayed /\ NoneErased
  BY <1>1, StillStays DEF IInv
<1>5. log' \in [Threads -> Seq(AnyCall)]
  BY <1>2, <1>3, RecordsType DEF IInv, TypeInv
<1>6. CASE sessions[fd] = "none" /\ Unwind(t, "session")
  <2>1. t # Loop
    BY <1>2, <1>6
  <2>2. /\ stack' \in [Threads -> Seq(AnyCall)] /\ StackInv' /\ CastInv' /\ LoopInv'
        /\ fate' = fate
    BY <1>1, <1>2, <1>4, <1>6, <2>1, UnwindKeeps
  <2> QED BY <1>1, <1>5, <2>2 DEF IInv, TypeInv
<1>7. CASE /\ Goes(t, <<>>)
           /\ fate' \in IF sessions[fd] = "dangling" THEN {fate, "crashed"} ELSE {fate}
  <2>1. fate' \in {"running", "crashed"}
    BY <1>2, <1>7
  <2>2. Head(stack[t])[1] # "return" /\ fate' # "session"
    BY <1>2, <2>1 DEF call
  <2>3. stack' \in [Threads -> Seq(AnyCall)] /\ StackInv' /\ CastInv' /\ LoopInv'
    BY <1>1, <1>2, <1>4, <1>7, <2>2, EmptySeq, PlainGoesKeeps
  <2> QED BY <1>1, <1>5, <2>1, <2>3 DEF IInv, TypeInv
<1> QED BY <1>3, <1>6, <1>7

LEMMA ThrowKeeps ==
  ASSUME IInv, NEW t \in Threads, ThrowStep(t)
  PROVE  IInv'
<1> DEFINE call == Head(stack[t])
<1>1. /\ UNCHANGED <<sessions, input, away, m_requests, inputs>>
      /\ NextIs(t, "throw") /\ Unwind(t, call[2]) /\ Records(t, call)
  BY DEF ThrowStep
<1>2. call[1] = "throw" /\ call \in PlainCall /\ call \in AnyCall /\ stack[t] # <<>>
  BY <1>1, HeadFacts, HeadPlain
<1> HIDE DEF call
<1>3. call[2] \in Reasons
  BY <1>2, PlainKinds
<1>4. call[2] # "session"
  BY <1>3 DEF Reasons
<1>5. Stayed /\ NoneErased
  BY <1>1, StillStays DEF IInv
<1>6. /\ stack' \in [Threads -> Seq(AnyCall)] /\ StackInv' /\ CastInv' /\ LoopInv'
      /\ fate' = IF t = Loop THEN call[2] ELSE fate
  BY <1>1, <1>2, <1>4, <1>5, UnwindKeeps
<1>7. log' \in [Threads -> Seq(AnyCall)]
  BY <1>1, <1>2, RecordsType DEF IInv
<1>8. fate' \in Reasons \cup {"running", "crashed", "session"}
  BY <1>3, <1>6 DEF IInv, TypeInv
<1> QED BY <1>1, <1>6, <1>7, <1>8 DEF IInv, TypeInv

LEMMA RequestKeeps ==
  ASSUME IInv, NEW t \in Threads, RequestStep(t)
  PROVE  IInv'
<1>1. /\ UNCHANGED <<sessions, input, log, away, inputs, fate>> /\ Goes(t, <<>>)
      /\ \/ NextIs(t, "endtry") /\ UNCHANGED m_requests
         \/ /\ NextIs(t, "request")
            /\ m_requests' = Append(m_requests, Head(stack[t])[2])
  BY DEF RequestStep
<1>2. m_requests' \in Seq(MainTasks)
  <2>1. CASE UNCHANGED m_requests
    BY <2>1 DEF IInv, TypeInv
  <2>2. CASE NextIs(t, "request") /\ m_requests' = Append(m_requests, Head(stack[t])[2])
    <3>1. Head(stack[t]) \in PlainCall /\ Head(stack[t])[1] = "request"
      BY <2>2, HeadPlain, HeadFacts
    <3>2. Head(stack[t])[2] \in MainTasks
      BY <3>1, PlainKinds
    <3> QED BY <2>2, <3>2 DEF IInv, TypeInv
  <2> QED BY <1>1, <2>1, <2>2
<1>3. Stayed /\ NoneErased
  BY <1>1, StillStays DEF IInv
<1>4. stack[t] # <<>> /\ Head(stack[t])[1] # "return" /\ fate' # "session"
  BY <1>1, HeadFacts DEF IInv, LoopInv
<1>5. stack' \in [Threads -> Seq(AnyCall)] /\ StackInv' /\ CastInv' /\ LoopInv'
  BY <1>1, <1>3, <1>4, EmptySeq, PlainGoesKeeps
<1> QED BY <1>1, <1>2, <1>5 DEF IInv, TypeInv

\* The session a broadcast comes to next: nobody who stayed is passed over.
LEMMA NextAhead ==
  ASSUME NEW at \in Nat, Ahead(at) # {}
  PROVE  LET next == CHOOSE f \in Ahead(at) : \A g \in Ahead(at) : f <= g
         IN  /\ next \in Fds /\ next \in Nat /\ sessions[next] = "active"
             /\ \A f \in Fds : sessions[f] = "active" /\ f > at => next <= f
<1> DEFINE after == Ahead(at)
           next  == CHOOSE f \in after : \A g \in after : f <= g
<1>1. after \in SUBSET Nat
  BY FdsAssumption DEF Ahead, Active
<1>2. \A f \in Fds : sessions[f] = "active" /\ f > at => f \in after
  BY DEF Ahead, Active
<1>3. \A f \in after : f \in Fds /\ sessions[f] = "active"
  BY DEF Ahead, Active
<1> HIDE DEF after
<1>4. \E f \in after : \A g \in after : f <= g
  <2>1. after # {}
    BY DEF after
  <2> QED BY <1>1, <2>1, Least
<1>5. next \in after /\ \A g \in after : next <= g
  BY <1>4, Zenon
<1> HIDE DEF next
<1>6. /\ next \in Fds /\ next \in Nat /\ sessions[next] = "active"
      /\ \A f \in Fds : sessions[f] = "active" /\ f > at => next <= f
  BY <1>1, <1>2, <1>3, <1>5
<1> QED BY <1>6 DEF next, after

\* Places in the loop of a broadcast that have told whom they passed, and a
\* send at once to one that has a session.
Casting(t, calls) ==
  /\ calls \in Seq(PlainCall \cup CastCall)
  /\ \A i \in DOMAIN calls : calls[i][1] = "cast" =>
       \A f \in Fds \ away[t] : f <= calls[i][2] => f \in calls[i][4]
  /\ \A i \in DOMAIN calls :
       /\ calls[i] \in OnLoop
       /\ calls[i][1] = "castto" => i = 1 /\ sessions[calls[i][2]] # "none"

LEMMA BroadcastGoes ==
  ASSUME IInv, NEW t \in Threads, BroadcastStep(t)
  PROVE  /\ NextIs(t, "broadcast") \/ NextIs(t, "cast")
         /\ \E calls : Goes(t, calls) /\ Casting(t, calls)
         /\ fate' \in {"running", "crashed"}
<1> DEFINE call == Head(stack[t])
<1>3. ASSUME NextIs(t, "broadcast") \/ NextIs(t, "cast"),
             NEW calls, Goes(t, calls), calls \in Seq(PlainCall \cup CastCall),
             \A i \in DOMAIN calls : calls[i][1] = "cast" =>
               \A f \in Fds \ away[t] : f <= calls[i][2] => f \in calls[i][4],
             \A i \in DOMAIN calls :
               /\ calls[i] \in OnLoop
               /\ calls[i][1] = "castto" => i = 1 /\ sessions[calls[i][2]] # "none",
             fate' \in {"running", "crashed"}
      PROVE  /\ NextIs(t, "broadcast") \/ NextIs(t, "cast")
             /\ \E c : Goes(t, c) /\ Casting(t, c)
             /\ fate' \in {"running", "crashed"}
  <2>1. Casting(t, calls)
    BY <1>3 DEF Casting
  <2> QED BY <1>3, <2>1, Zenon
<1>4. CASE NextIs(t, "broadcast") /\ Goes(t, <<Cast(0, call[2], {})>>) /\ UNCHANGED fate
  <2> DEFINE c     == Cast(0, call[2], {})
             calls == <<c>>
  <2>1. call[1] = "broadcast" /\ call \in PlainCall /\ fate = "running"
    BY <1>4, HeadFacts, HeadPlain
  <2>2. call[2] \in MessageNames
    BY <2>1, PlainKinds
  <2>3. c \in CastCall /\ c[1] = "cast" /\ c[2] = 0 /\ Goes(t, calls)
    BY <1>4, <2>2 DEF CastCall, Cast
  <2> HIDE DEF c
  <2>4. \A f \in Fds : ~(f <= c[2])
    BY <2>3, FdsAssumption
  <2>5. calls \in Seq(PlainCall \cup CastCall) /\ \A i \in DOMAIN calls : calls[i] = c
    BY <2>3
  <2> HIDE DEF calls
  <2>6. c \in OnLoop /\ c[1] # "castto"
    BY <2>3 DEF OnLoop
  <2>7. fate' = "running"
    BY <1>4, <2>1
  <2> QED BY <1>3, <1>4, <2>3, <2>4, <2>5, <2>6, <2>7
<1>5. ASSUME NextIs(t, "cast")
      PROVE  /\ call[1] = "cast" /\ call[2] \in Nat /\ call[3] \in MessageNames
             /\ call[4] \in SUBSET Fds /\ fate = "running"
             /\ \A f \in Fds \ away[t] : f <= call[2] => f \in call[4]
             /\ \A f \in Fds \ away[t] : sessions[f] = "active"
  <2>1. /\ call[1] = "cast" /\ call \in AnyCall /\ fate = "running"
        /\ stack[t] # <<>> /\ call = stack[t][1] /\ stack[t] \in Seq(AnyCall)
    BY <1>5, HeadFacts
  <2>2. call \in CastCall
    BY <2>1, PlainKinds, ReturnKind DEF AnyCall
  <2>3. 1 \in DOMAIN stack[t]
    BY <2>1
  <2>4. PassedAreTold(stack[t], away[t]) /\ StayersActive(t)
    BY DEF IInv, CastInv
  <2> QED BY <2>1, <2>2, <2>3, <2>4, CastKinds DEF PassedAreTold, StayersActive
<1>6. CASE /\ NextIs(t, "cast") /\ Goes(t, <<>>) /\ fate' \in {fate, "crashed"}
  <2> DEFINE calls == <<>>
  <2>1. calls \in Seq(PlainCall \cup CastCall) /\ DOMAIN calls = {} /\ Goes(t, calls)
    BY <1>6
  <2>2. fate' \in {"running", "crashed"}
    BY <1>5, <1>6
  <2> HIDE DEF calls
  <2> QED BY <1>3, <1>6, <2>1, <2>2
<1>7. CASE /\ NextIs(t, "cast") /\ fate' \in {fate, "crashed"} /\ Ahead(call[2]) # {}
           /\ LET next == CHOOSE f \in Ahead(call[2]) : \A g \in Ahead(call[2]) : f <= g
              IN  Goes(t, <<CastTo(next, call[3]), Cast(next, call[3], call[4] \cup {next})>>)
  <2> DEFINE next  == CHOOSE f \in Ahead(call[2]) : \A g \in Ahead(call[2]) : f <= g
             to    == CastTo(next, call[3])
             at    == Cast(next, call[3], call[4] \cup {next})
             calls == <<to, at>>
  <2>1. Goes(t, calls)
    BY <1>7
  <2> HIDE DEF call
  <2>2. /\ next \in Fds /\ next \in Nat /\ sessions[next] = "active"
        /\ \A f \in Fds : sessions[f] = "active" /\ f > call[2] => next <= f
    BY <1>5, <1>7, NextAhead
  <2> HIDE DEF next
  <2>3. /\ at \in CastCall /\ at[1] = "cast" /\ at[2] = next /\ at[4] = call[4] \cup {next}
        /\ to[1] = "castto" /\ to[2] = next /\ to \in {"castto"} \X Fds \X MessageNames
    BY <1>5, <1>7, <2>2 DEF CastCall, Cast, CastTo
  <2>4. to \in PlainCall
    BY <1>5, <1>7, <2>2, CastToPlain
  <2> HIDE DEF to, at
  <2>5. ASSUME NEW f \in Fds \ away[t], f <= at[2] PROVE f \in at[4]
    <3>1. f \in Nat /\ sessions[f] = "active" /\ f <= next
      BY <1>5, <1>7, <2>3, <2>5, FdsAssumption
    <3>2. CASE f <= call[2]
      BY <1>5, <1>7, <2>3, <3>2
    <3>3. CASE ~(f <= call[2])
      <4>1. f > call[2]
        BY <1>5, <1>7, <3>1, <3>3
      <4>2. next <= f
        BY <2>2, <3>1, <4>1
      <4>3. f = next
        BY <2>2, <3>1, <4>2
      <4> QED BY <2>3, <4>3
    <3> QED BY <3>2, <3>3
  <2>6. to \in OnLoop /\ at \in OnLoop /\ sessions[to[2]] # "none"
    BY <2>2, <2>3 DEF OnLoop
  <2>7. /\ calls \in Seq(PlainCall \cup CastCall) /\ DOMAIN calls = 1 .. 2
        /\ calls[1] = to /\ calls[2] = at
    BY <2>3, <2>4
  <2> HIDE DEF calls
  <2>8. \A i \in DOMAIN calls : calls[i][1] = "cast" =>
          \A f \in Fds \ away[t] : f <= calls[i][2] => f \in calls[i][4]
    BY <2>3, <2>5, <2>7
  <2>9. \A i \in DOMAIN calls :
          /\ calls[i] \in OnLoop
          /\ calls[i][1] = "castto" => i = 1 /\ sessions[calls[i][2]] # "none"
    BY <2>3, <2>6, <2>7
  <2>10. fate' \in {"running", "crashed"}
    BY <1>5, <1>7
  <2> QED BY <1>3, <1>7, <2>1, <2>7, <2>8, <2>9, <2>10
<1> QED
  <2>1. \/ NextIs(t, "broadcast") /\ Goes(t, <<Cast(0, call[2], {})>>) /\ UNCHANGED fate
        \/ NextIs(t, "cast")
    BY DEF BroadcastStep
  <2>2. CASE NextIs(t, "cast")
    <3>1. ~NextIs(t, "broadcast")
      BY <2>2 DEF NextIs
    <3> DEFINE next == CHOOSE f \in Ahead(call[2]) : \A g \in Ahead(call[2]) : f <= g
    <3>2. /\ Goes(t, IF Ahead(call[2]) = {} THEN <<>>
                     ELSE <<CastTo(next, call[3]), Cast(next, call[3], call[4] \cup {next})>>)
          /\ fate' \in IF call[2] # 0 /\ sessions[call[2]] \in {"none", "dangling"}
                       THEN {fate, "crashed"} ELSE {fate}
      BY <3>1 DEF BroadcastStep
    <3>3. fate' \in {fate, "crashed"}
      BY <3>2
    <3>4. CASE Ahead(call[2]) = {}
      <4>1. Goes(t, <<>>)
        BY <3>2, <3>4
      <4> QED BY <1>6, <2>2, <3>3, <4>1
    <3>5. CASE Ahead(call[2]) # {}
      <4>1. Goes(t, <<CastTo(next, call[3]), Cast(next, call[3], call[4] \cup {next})>>)
        BY <3>2, <3>5
      <4> QED BY <1>7, <2>2, <3>3, <3>5, <4>1
    <3> QED BY <3>4, <3>5
  <2> QED BY <1>4, <2>1, <2>2

LEMMA BroadcastKeeps ==
  ASSUME IInv, NEW t \in Threads, BroadcastStep(t)
  PROVE  IInv'
<1>1. UNCHANGED <<sessions, input, log, away, m_requests, inputs>>
  BY DEF BroadcastStep
<1>2. Stayed /\ NoneErased
  BY <1>1, StillStays DEF IInv
<1>3. /\ NextIs(t, "broadcast") \/ NextIs(t, "cast")
      /\ \E calls : Goes(t, calls) /\ Casting(t, calls)
      /\ fate' \in {"running", "crashed"}
  BY BroadcastGoes
<1>4. PICK calls : Goes(t, calls) /\ Casting(t, calls)
  BY <1>3, Zenon
<1>5. stack[t] # <<>> /\ Head(stack[t])[1] # "return" /\ fate' # "session"
  BY <1>3, HeadFacts
<1>6. stack' \in [Threads -> Seq(AnyCall)] /\ StackInv' /\ CastInv' /\ LoopInv'
  BY <1>1, <1>2, <1>4, <1>5, GoesKeeps DEF Casting
<1> QED BY <1>1, <1>3, <1>6 DEF IInv, TypeInv

LEMMA TailOfOne ==
  ASSUME NEW S, NEW s \in Seq(S), Len(s) = 1
  PROVE  <<>> \o Tail(s) = <<>>
<1>1. Tail(s) \in Seq(S) /\ Len(Tail(s)) = 0
  OBVIOUS
<1> DEFINE r == Tail(s)
<1>2. r \in Seq(S) /\ Len(r) = 0
  BY <1>1
<1> HIDE DEF r
<1>3. r = <<>>
  BY <1>2
<1>4. <<>> \o r = <<>>
  BY <1>3
<1> QED BY <1>4 DEF r

LEMMA ReturnKeeps ==
  ASSUME IInv, NEW t \in Threads, ReturnStep(t)
  PROVE  IInv'
<1>1. /\ NextIs(t, "return") /\ Goes(t, <<>>)
      /\ input' = [input EXCEPT ![t] = "none"] /\ log' = [log EXCEPT ![t] = <<>>]
      /\ away' = [away EXCEPT ![t] = {}]
      /\ UNCHANGED <<sessions, m_requests, inputs, fate>>
  BY DEF ReturnStep
<1>2. TypeInv /\ StackInv /\ CastInv /\ LoopInv
  BY DEF IInv
<1>3. stack[t] \in Seq(AnyCall) /\ stack[t] # <<>> /\ stack[t][1][1] = "return"
  BY <1>1, HeadFacts
<1>4. Len(stack[t]) = 1
  <2>1. 1 \in DOMAIN stack[t]
    BY <1>3
  <2>2. ReturnIsLast(stack[t])
    BY <1>2 DEF StackInv
  <2> QED BY <1>3, <2>1, <2>2, Zenon DEF ReturnIsLast
<1>5. stack' = [stack EXCEPT ![t] = <<>>]
  <2>1. <<>> \o Tail(stack[t]) = <<>>
    BY <1>3, <1>4, TailOfOne
  <2> QED BY <1>1, <2>1 DEF Goes
<1>6. stack'[t] = <<>> /\ \A u \in Threads \ {t} : stack'[u] = stack[u]
  BY <1>2, <1>5 DEF TypeInv
<1>7. TypeInv'
  BY <1>1, <1>2, <1>5 DEF TypeInv, Inputs
<1>8. StackInv'
  BY <1>2, <1>6 DEF StackInv, ReturnIsLast
<1>9. CastInv'
  <2> SUFFICES ASSUME NEW u \in Threads
               PROVE  PassedAreTold(stack'[u], away'[u]) /\ StayersActive(u)'
    BY DEF CastInv, PassedAreTold
  <2>1. CASE u = t
    <3>1. stack'[u] = <<>> /\ input'[u] = "none"
      BY <1>1, <1>2, <1>6, <2>1 DEF TypeInv
    <3> QED BY <3>1 DEF PassedAreTold, StayersActive
  <2>2. CASE u # t
    <3>1. stack'[u] = stack[u] /\ input'[u] = input[u] /\ away'[u] = away[u] /\ sessions' = sessions
      BY <1>1, <1>2, <1>6, <2>2 DEF TypeInv
    <3>2. PassedAreTold(stack[u], away[u]) /\ StayersActive(u)
      BY <1>2 DEF CastInv
    <3> QED BY <3>1, <3>2 DEF StayersActive
  <2> QED BY <2>1, <2>2
<1>10. LoopInv'
  <2>1. CASE t = Loop
    BY <1>1, <1>2, <1>6, <2>1 DEF LoopInv, SendsAtOnce
  <2>2. CASE t # Loop
    BY <1>1, <1>2, <1>6, <2>2, LoopIsNoClient DEF LoopInv, SendsAtOnce
  <2> QED BY <2>1, <2>2
<1> QED BY <1>7, <1>8, <1>9, <1>10 DEF IInv

\* A step of a thread that goes on with the calls of a handler while a session
\* of another state takes the place of the one there was.
LEMMA BecomesKeeps ==
  ASSUME IInv, NEW t \in Threads, NEW kind, NextIs(t, kind), kind # "return", t # Loop,
         NEW calls \in Seq(PlainCall), Goes(t, calls),
         NEW fd \in Fds, NEW st \in States, Becomes(fd, st), st # "none" \/ st = sessions[fd],
         UNCHANGED <<input, log, m_requests, inputs, fate>>
  PROVE  IInv'
<1>1. /\ sessions' \in [Fds -> States] /\ away' \in [Threads -> SUBSET Fds]
      /\ Stayed /\ NoneErased
  BY BecomesStays DEF IInv
<1>2. stack[t] # <<>> /\ Head(stack[t])[1] # "return" /\ fate' # "session"
  BY HeadFacts DEF IInv, LoopInv
<1>3. stack' \in [Threads -> Seq(AnyCall)] /\ StackInv' /\ CastInv' /\ LoopInv'
  BY <1>1, <1>2, PlainGoesKeeps
<1> QED BY <1>1, <1>3 DEF IInv, TypeInv, States

\* The calls that change a session name the descriptor of a client, and the
\* loop makes none of them.
LEMMA HeadOfClient ==
  ASSUME IInv, NEW t \in Threads, NEW kind \in {"init", "end", "notify"}, NextIs(t, kind)
  PROVE  t # Loop /\ Head(stack[t])[2] \in Fds
<1> DEFINE call == Head(stack[t])
<1>1. call[1] = kind /\ call \in PlainCall /\ (t = Loop => call \in LoopCall)
  BY HeadFacts, HeadPlain
<1> HIDE DEF call
<1>2. call[2] \in Fds /\ t # Loop
  BY <1>1, PlainKinds, LoopKinds
<1> QED BY <1>2 DEF call

\* What becomes of sessions, and what is called next, when one begins.
LEMMA InitGoes ==
  ASSUME IInv, NEW t \in Threads, InitStep(t)
  PROVE  /\ NextIs(t, "init") /\ t # Loop
         /\ \E calls \in Seq(PlainCall), fd \in Fds, st \in {"active", "dangling"} :
              Goes(t, calls) /\ Becomes(fd, st)
<1> DEFINE fd       == Head(stack[t])[2]
           started  == CreateSession(fd) \o <<Send(fd, "Session started")>>
           rejected == <<Send(fd, "Session rejected"), EndSession(fd)>>
<1>1. NextIs(t, "init") /\ UNCHANGED <<input, log, m_requests, inputs, fate>>
  BY DEF InitStep
<1>2. t # Loop /\ fd \in Fds
  BY <1>1, HeadOfClient
<1>3. \/ \E calls \in {started, rejected} : Goes(t, calls) /\ Becomes(fd, "active")
      \/ \E other \in Active : Goes(t, rejected) /\ Becomes(other, "dangling")
  BY Zenon DEF InitStep
<1> HIDE DEF fd
<1>4. fd \in Int
  BY <1>2, FdsAssumption
<1>5. started \in Seq(PlainCall)
  <2>1. CreateSession(fd) \in Seq(PlainCall)
    BY <1>4, PlainShapes, Names, SeqOne DEF CreateSession
  <2>2. <<Send(fd, "Session started")>> \in Seq(PlainCall)
    BY <1>4, PlainShapes, Names, SeqOne
  <2> QED BY <2>1, <2>2, ConcatSeq
<1>6. rejected \in Seq(PlainCall)
  <2>1. Send(fd, "Session rejected") \in PlainCall
    BY <1>4, PlainShapes, Names
  <2>2. EndSession(fd) \in PlainCall
    BY <1>2, PlainShapes
  <2> QED BY <2>1, <2>2, SeqTwo
<1> HIDE DEF started, rejected
<1>7. Active \subseteq Fds
  BY DEF Active
<1> QED BY <1>1, <1>2, <1>3, <1>5, <1>6, <1>7, Zenon

LEMMA InitKeeps ==
  ASSUME IInv, NEW t \in Threads, InitStep(t)
  PROVE  IInv'
<1>1. UNCHANGED <<input, log, m_requests, inputs, fate>>
  BY DEF InitStep
<1>2. /\ NextIs(t, "init") /\ t # Loop
      /\ \E calls \in Seq(PlainCall), fd \in Fds, st \in {"active", "dangling"} :
           Goes(t, calls) /\ Becomes(fd, st)
  BY InitGoes
<1>3. PICK calls \in Seq(PlainCall), fd \in Fds, st \in {"active", "dangling"} :
         Goes(t, calls) /\ Becomes(fd, st)
  BY <1>2
<1>4. st \in States /\ st # "none"
  BY DEF States
<1> QED BY <1>1, <1>2, <1>3, <1>4, BecomesKeeps

LEMMA EndSessionKeeps ==
  ASSUME IInv, NEW t \in Threads, EndSessionStep(t)
  PROVE  IInv'
<1> DEFINE fd == Head(stack[t])[2]
           st == IF sessions[fd] = "active" THEN "inactive" ELSE sessions[fd]
<1>1. /\ NextIs(t, "end") /\ Becomes(fd, st) /\ Goes(t, <<>>)
      /\ UNCHANGED <<input, log, m_requests, inputs, fate>>
  BY DEF EndSessionStep
<1>2. t # Loop /\ fd \in Fds
  BY <1>1, HeadOfClient
<1> HIDE DEF fd
<1>3. st \in States /\ (st # "none" \/ st = sessions[fd])
  BY <1>2 DEF IInv, TypeInv, States
<1> HIDE DEF st
<1> QED BY <1>1, <1>2, <1>3, EmptySeq, BecomesKeeps

LEMMA NotifyKeeps ==
  ASSUME IInv, NEW t \in Threads, NotifyStep(t)
  PROVE  IInv'
<1> DEFINE fd == Head(stack[t])[2]
           st == IF sessions[fd] = "dangling" THEN "dangling" ELSE "active"
<1>1. NextIs(t, "notify") /\ UNCHANGED <<input, log, m_requests, inputs>>
  BY DEF NotifyStep
<1>2. \/ Unwind(t, "session") /\ UNCHANGED <<sessions, away>>
      \/ Goes(t, <<>>) /\ Becomes(fd, st) /\ UNCHANGED fate
  BY DEF NotifyStep
<1>3. t # Loop /\ fd \in Fds
  BY <1>1, HeadOfClient
<1> HIDE DEF fd
<1>4. st \in States /\ st # "none"
  BY DEF States
<1> HIDE DEF st
<1>5. CASE Unwind(t, "session") /\ UNCHANGED <<sessions, away>>
  <2>1. Stayed /\ NoneErased
    BY <1>5, StillStays DEF IInv
  <2>2. stack[t] # <<>>
    BY <1>1, HeadFacts
  <2>3. /\ stack' \in [Threads -> Seq(AnyCall)] /\ StackInv' /\ CastInv' /\ LoopInv'
        /\ fate' = fate
    BY <1>1, <1>3, <1>5, <2>1, <2>2, UnwindKeeps
  <2> QED BY <1>1, <1>5, <2>3 DEF IInv, TypeInv
<1>6. CASE Goes(t, <<>>) /\ Becomes(fd, st) /\ UNCHANGED fate
  BY <1>1, <1>3, <1>4, <1>6, EmptySeq, BecomesKeeps
<1> QED BY <1>2, <1>5, <1>6

LEMMA SweepKeeps ==
  ASSUME IInv, ValidateClientsStep
  PROVE  IInv'
<1>1. /\ NextIs(Loop, "sweep") /\ Goes(Loop, <<>>)
      /\ UNCHANGED <<input, log, away, m_requests, inputs, fate>>
  BY DEF ValidateClientsStep
<1>2. PICK expired \in SUBSET {f \in Fds : sessions[f] = "inactive"} :
         sessions' = [f \in Fds |-> IF f \in expired THEN "none" ELSE sessions[f]]
  BY DEF ValidateClientsStep
<1>3. sessions' \in [Fds -> States]
  BY <1>2 DEF IInv, TypeInv, States
<1>4. Stayed
  <2>1. \A f \in Fds : sessions[f] = "active" => sessions'[f] = "active"
    BY <1>2
  <2> QED BY <1>1, <2>1 DEF IInv, CastInv, StayersActive, Stayed
<1>5. stack[Loop] # <<>> /\ Head(stack[Loop])[1] # "return" /\ fate' # "session"
  BY <1>1, HeadFacts, LoopIsNoClient DEF IInv, LoopInv
<1>6. stack' \in [Threads -> Seq(AnyCall)] /\ StackInv' /\ CastInv' /\ LoopInv'
  BY <1>1, <1>4, <1>5, EmptySeq, PlainGoesKeeps, LoopIsNoClient
<1> QED BY <1>1, <1>3, <1>6 DEF IInv, TypeInv, States

-----------------------------------------------------------------------------
(* The inputs, and the rest of the system.                                 *)

LEMMA AppendReturn ==
  ASSUME NEW calls \in Seq(PlainCall)
  PROVE  /\ Append(calls, Return) \in Seq(AnyCall)
         /\ ReturnIsLast(Append(calls, Return))
         /\ \A i \in DOMAIN Append(calls, Return) :
              \/ Append(calls, Return)[i] = Return
              \/ i \in DOMAIN calls /\ Append(calls, Return)[i] = calls[i]
<1> DEFINE n == Append(calls, Return)
<1>1. calls \in Seq(AnyCall) /\ Return \in AnyCall
  BY DEF AnyCall
<1>2. /\ n \in Seq(AnyCall) /\ Len(n) = Len(calls) + 1 /\ Len(calls) \in Nat
      /\ DOMAIN n = 1 .. Len(calls) + 1 /\ DOMAIN calls = 1 .. Len(calls)
      /\ \A i \in 1 .. Len(calls) : n[i] = calls[i]
      /\ n[Len(calls) + 1] = Return
  BY <1>1
<1>3. \A i \in DOMAIN calls : calls[i][1] # "return"
  BY PlainKinds
<1> HIDE DEF n
<1>4. ASSUME NEW i \in DOMAIN n
      PROVE  /\ n[i][1] = "return" <=> i = Len(n)
             /\ n[i] = Return \/ (i \in DOMAIN calls /\ n[i] = calls[i])
  <2>1. CASE i = Len(calls) + 1
    BY <1>2, <2>1, ReturnKind
  <2>2. CASE i # Len(calls) + 1
    <3>1. i \in 1 .. Len(calls)
      BY <1>2, <2>2
    <3> QED BY <1>2, <1>3, <3>1
  <2> QED BY <2>1, <2>2
<1>5. ReturnIsLast(n)
  BY <1>4 DEF ReturnIsLast
<1>6. /\ n \in Seq(AnyCall) /\ ReturnIsLast(n)
      /\ \A i \in DOMAIN n : n[i] = Return \/ (i \in DOMAIN calls /\ n[i] = calls[i])
  BY <1>2, <1>4, <1>5
<1> QED BY <1>6, Zenon DEF n

LEMMA BeginKeeps ==
  ASSUME IInv, NEW t \in Threads, Idle(t), NEW what \in Inputs, what # "none",
         NEW calls \in Seq(PlainCall), t = Loop => calls \in Seq(LoopCall),
         Begin(t, what, calls)
  PROVE  IInv'
<1> DEFINE n == Append(calls, Return)
<1>1. /\ stack' = [stack EXCEPT ![t] = n] /\ input' = [input EXCEPT ![t] = what]
      /\ away' = [away EXCEPT ![t] = Fds \ Active] /\ inputs' = inputs + 1
      /\ UNCHANGED <<sessions, log, m_requests, fate>>
  BY DEF Begin
<1>2. /\ n \in Seq(AnyCall) /\ ReturnIsLast(n)
      /\ \A i \in DOMAIN n : n[i] = Return \/ (i \in DOMAIN calls /\ n[i] = calls[i])
  BY AppendReturn
<1>3. \A i \in DOMAIN calls : calls[i] \in PlainCall /\ (t = Loop => calls[i] \in LoopCall)
  OBVIOUS
<1> HIDE DEF n
<1>4. TypeInv /\ StackInv /\ CastInv /\ LoopInv
  BY DEF IInv
<1>5. stack'[t] = n /\ \A u \in Threads \ {t} : stack'[u] = stack[u]
  BY <1>1, <1>4 DEF TypeInv
<1>6. TypeInv'
  <2>1. inputs' \in 0 .. MaxInputs
    BY <1>1, <1>4, InputsAssumption DEF TypeInv, Idle
  <2>2. /\ stack' \in [Threads -> Seq(AnyCall)] /\ input' \in [Threads -> Inputs]
        /\ away' \in [Threads -> SUBSET Fds]
    BY <1>1, <1>2, <1>4 DEF TypeInv
  <2> QED BY <1>1, <1>4, <2>1, <2>2 DEF TypeInv
<1>7. StackInv'
  <2> SUFFICES ASSUME NEW u \in Threads PROVE ReturnIsLast(stack'[u])
    BY DEF StackInv, ReturnIsLast
  <2> QED BY <1>2, <1>4, <1>5 DEF StackInv
<1>8. CastInv'
  <2> SUFFICES ASSUME NEW u \in Threads
               PROVE  PassedAreTold(stack'[u], away'[u]) /\ StayersActive(u)'
    BY DEF CastInv, PassedAreTold
  <2>1. CASE u = t
    <3>1. stack'[u] = n /\ input'[u] = what /\ away'[u] = Fds \ Active /\ sessions' = sessions
      BY <1>1, <1>4, <1>5, <2>1 DEF TypeInv
    <3>2. \A i \in DOMAIN n : n[i][1] # "cast"
      BY <1>2, <1>3, PlainKinds, ReturnKind
    <3>3. \A f \in Fds \ (Fds \ Active) : sessions[f] = "active"
      BY DEF Active
    <3> QED BY <3>1, <3>2, <3>3 DEF PassedAreTold, StayersActive
  <2>2. CASE u # t
    <3>1. stack'[u] = stack[u] /\ input'[u] = input[u] /\ away'[u] = away[u] /\ sessions' = sessions
      BY <1>1, <1>4, <1>5, <2>2 DEF TypeInv
    <3>2. PassedAreTold(stack[u], away[u]) /\ StayersActive(u)
      BY <1>4 DEF CastInv
    <3> QED BY <3>1, <3>2 DEF StayersActive
  <2> QED BY <2>1, <2>2
<1>9. LoopInv'
  <2>1. CASE t = Loop
    <3>1. \A i \in DOMAIN n : n[i] \in OnLoop /\ n[i][1] # "castto"
      BY <1>2, <1>3, <2>1, LoopKinds, ReturnKind DEF OnLoop
    <3> QED BY <1>1, <1>4, <1>5, <2>1, <3>1 DEF LoopInv, SendsAtOnce
  <2>2. CASE t # Loop
    <3>1. stack'[Loop] = stack[Loop]
      BY <1>5, <2>2, LoopIsNoClient
    <3> QED BY <1>1, <1>4, <3>1 DEF LoopInv, SendsAtOnce
  <2> QED BY <2>1, <2>2
<1> QED BY <1>6, <1>7, <1>8, <1>9 DEF IInv

LEMMA ClientSendsKeeps ==
  ASSUME IInv, NEW fd \in Fds, ClientSends(fd)
  PROVE  IInv'
<1>1. fd \in Threads /\ fd # Loop /\ Idle(fd)
  BY LoopIsNoClient DEF ClientSends
<1>2. ASSUME NEW type \in DOMAIN ClientMessages[fd], NEW calls \in ClientMessages[fd][type],
             Begin(fd, type, calls)
      PROVE  IInv'
  <2>1. calls \in Seq(PlainCall) /\ type # "none"
    BY MessagesPlain
  <2>2. type \in Inputs
    BY DEF Inputs
  <2> QED BY <1>1, <1>2, <2>1, <2>2, BeginKeeps
<1>3. ASSUME NEW type \in DOMAIN ProcessClientRequest[fd],
             NEW calls \in ProcessClientRequest[fd][type],
             Begin(fd, type, calls \o Effect("m_client_rq_count"))
      PROVE  IInv'
  <2>1. calls \in Seq(PlainCall) /\ type # "none"
    BY RequestsPlain
  <2>2. type \in Inputs
    BY DEF Inputs
  <2>3. calls \o Effect("m_client_rq_count") \in Seq(PlainCall)
    BY <2>1, Effects, EmptySeq, ConcatSeq
  <2> QED BY <1>1, <1>3, <2>1, <2>2, <2>3, BeginKeeps
<1> QED BY <1>2, <1>3, Zenon DEF ClientSends

LEMMA PeerSendsKeeps ==
  ASSUME IInv, PeerSends
  PROVE  IInv'
<1>1. Idle(Ipc) /\ \E e \in PeerEvents : Begin(Ipc, "peer", <<Event(ALL_CLIENTS, e[1], e[2])>>)
  BY DEF PeerSends
<1>2. PICK e \in PeerEvents : Begin(Ipc, "peer", <<Event(ALL_CLIENTS, e[1], e[2])>>)
  BY <1>1
<1>3. <<Event(ALL_CLIENTS, e[1], e[2])>> \in Seq(PlainCall)
  BY PeersPlain
<1>4. "peer" \in Inputs
  BY DEF Inputs
<1> QED BY <1>1, <1>2, <1>3, <1>4, BeginKeeps, LoopIsNoClient

LEMMA LoopPassesKeeps ==
  ASSUME IInv, LoopPasses
  PROVE  IInv'
<1>1. Idle(Loop) /\ Begin(Loop, "pass", InfiniteLoop)
  BY DEF LoopPasses
<1>2. "pass" \in Inputs
  BY DEF Inputs
<1> QED BY <1>1, <1>2, BeginKeeps, LoopIsNoClient, PassLoop, LoopSeqIsPlain

LEMMA ExpireKeeps ==
  ASSUME IInv, NEW fd \in Fds, Expire(fd)
  PROVE  IInv'
<1>1. /\ Becomes(fd, "inactive") /\ "inactive" \in States
      /\ UNCHANGED <<stack, input, log, m_requests, inputs, fate>>
  BY DEF Expire, Becomes, States
<1>2. /\ sessions' \in [Fds -> States] /\ away' \in [Threads -> SUBSET Fds]
      /\ Stayed /\ NoneErased
  BY <1>1, BecomesStays DEF IInv
<1>3. TypeInv /\ StackInv /\ CastInv /\ LoopInv
  BY DEF IInv
<1>4. TypeInv'
  BY <1>1, <1>2, <1>3 DEF TypeInv, States
<1>5. StackInv'
  BY <1>1, <1>3 DEF StackInv, ReturnIsLast
<1>6. CastInv'
  <2> SUFFICES ASSUME NEW u \in Threads
               PROVE  PassedAreTold(stack'[u], away'[u]) /\ StayersActive(u)'
    BY DEF CastInv, PassedAreTold
  <2>1. PassedAreTold(stack[u], away[u]) /\ StayersActive(u) /\ stack[u] \in Seq(AnyCall)
    BY <1>3 DEF CastInv, TypeInv
  <2>2. StayersActive(u)'
    BY <1>1, <1>2, <2>1 DEF StayersActive, Stayed
  <2>3. CASE stack[u] = <<>>
    BY <1>1, <2>2, <2>3 DEF PassedAreTold
  <2>4. CASE stack[u] # <<>>
    <3>1. away[u] \subseteq away'[u]
      BY <1>2, <2>1, <2>4 DEF StayersActive, Stayed
    <3> QED BY <1>1, <2>1, <2>2, <3>1 DEF PassedAreTold
  <2> QED BY <2>3, <2>4
<1>7. LoopInv'
  BY <1>1, <1>2, <1>3, LoopKeeps DEF LoopInv
<1> QED BY <1>4, <1>5, <1>6, <1>7 DEF IInv

LEMMA GetRequestKeeps ==
  ASSUME IInv, GetRequest
  PROVE  IInv'
<1>1. /\ m_requests # <<>> /\ m_requests' = Tail(m_requests)
      /\ UNCHANGED <<sessions, stack, input, log, away, inputs, fate>>
  BY DEF GetRequest
<1>2. TypeInv'
  BY <1>1 DEF IInv, TypeInv
<1>3. StackInv' /\ CastInv' /\ LoopInv'
  BY <1>1 DEF IInv, StackInv, CastInv, LoopInv, ReturnIsLast, PassedAreTold, StayersActive,
              SendsAtOnce
<1> QED BY <1>2, <1>3 DEF IInv

LEMMA InitIInv == Init => IInv
<1> SUFFICES ASSUME Init PROVE IInv
  OBVIOUS
<1>1. \A t \in Threads : stack[t] = <<>> /\ input[t] = "none"
  BY DEF Init
<1>2. TypeInv
  BY InputsAssumption DEF Init, TypeInv, Inputs
<1>3. StackInv /\ CastInv /\ LoopInv
  BY <1>1, LoopIsNoClient
     DEF Init, StackInv, CastInv, LoopInv, ReturnIsLast, PassedAreTold, StayersActive, SendsAtOnce
<1> QED BY <1>2, <1>3 DEF IInv

LEMMA NextIInv == IInv /\ [Next]_vars => IInv'
<1> SUFFICES ASSUME IInv, [Next]_vars PROVE IInv'
  OBVIOUS
<1>1. ASSUME NEW t \in Threads, Step(t) PROVE IInv'
  <2>1. CASE Call(t)
    BY <2>1, CallKeeps
  <2>2. CASE SendMessage(t)
    BY <2>2, SendMessageKeeps
  <2>3. CASE BroadcastStep(t)
    BY <2>3, BroadcastKeeps
  <2>4. CASE ThrowStep(t)
    BY <2>4, ThrowKeeps
  <2>5. CASE RequestStep(t)
    BY <2>5, RequestKeeps
  <2>6. CASE ReturnStep(t)
    BY <2>6, ReturnKeeps
  <2>7. CASE InitStep(t)
    BY <2>7, InitKeeps
  <2>8. CASE EndSessionStep(t)
    BY <2>8, EndSessionKeeps
  <2>9. CASE NotifyStep(t)
    BY <2>9, NotifyKeeps
  <2>10. CASE ValidateClientsStep
    BY <2>10, SweepKeeps
  <2> QED
    BY <1>1, <2>1, <2>2, <2>3, <2>4, <2>5, <2>6, <2>7, <2>8, <2>9, <2>10 DEF Step
<1>2. ASSUME NEW fd \in Fds, ClientSends(fd) PROVE IInv'
  BY <1>2, ClientSendsKeeps
<1>3. ASSUME NEW fd \in Fds, Expire(fd) PROVE IInv'
  BY <1>3, ExpireKeeps
<1>4. CASE PeerSends
  BY <1>4, PeerSendsKeeps
<1>5. CASE LoopPasses
  BY <1>5, LoopPassesKeeps
<1>6. CASE GetRequest
  BY <1>6, GetRequestKeeps
<1>7. CASE UNCHANGED vars
  BY <1>7 DEF vars, IInv, TypeInv, StackInv, CastInv, LoopInv, ReturnIsLast, PassedAreTold,
              StayersActive, SendsAtOnce
<1> QED BY <1>1, <1>2, <1>3, <1>4, <1>5, <1>6, <1>7 DEF Next

-----------------------------------------------------------------------------
(* The answers a client is owed.                                           *)

\* A call that sends to no one client, nor does any that it leads to.
Silent == OnLoop \cup {EndTry}

\* A call that sends the client this name and nothing else.
Owes(f, call, name) ==
  \/ call = Send(f, name)
  \/ call[1] = "event" /\ Handle(call[2], call[3], call[4]) = {<<Send(f, name)>>}

\* The names were sent so far in their order, the next calls owe the others,
\* and the calls after these are silent.
AnswersWith(f, names, sent, calls) ==
  /\ Len(sent) <= Len(names)
  /\ \A i \in DOMAIN sent : sent[i] = Send(f, names[i])
  /\ \A i \in DOMAIN calls :
       /\ Len(sent) + i <= Len(names) => Owes(f, calls[i], names[Len(sent) + i])
       /\ Len(sent) + i > Len(names)  => calls[i] \in Silent

Answering(f) == \E names \in Answers[input[f]] : AnswersWith(f, names, log[f], stack[f])

\* A ping keeps the session alive before it is answered.
Pinging(f) ==
  /\ input[f] = "PING" /\ log[f] = <<>>
  /\ Len(stack[f]) = 3 /\ stack[f][1] = Notify(f) /\ stack[f][2] = Send(f, "pong")
  /\ stack[f][3] = Return

Throwing(f) == Head(stack[f])[1] = "throw"

\* A request that AnsweredInFull is about.
Counts(f) ==
  /\ input[f] \in DOMAIN Answers /\ stack[f] # <<>> /\ f \notin away[f]
  /\ \A i \in DOMAIN log[f] : log[f][i][1] = "send"

AnswersOf(f) ==
  /\ stack[f] = <<>> => log[f] = <<>>
  /\ Counts(f) => Answering(f) \/ Pinging(f) \/ Throwing(f)

AnswerInv == \A f \in Fds : AnswersOf(f)

-----------------------------------------------------------------------------
(* What the requests are answered with.                                    *)

LEMMA AnswerTypes ==
  DOMAIN Answers = {"APPLICATION", "FETCH_SCHEDULE", "UPDATE_SCHEDULE", "FETCH_SCHEDULE_TOKENS",
                    "FETCH_TASK_DATA", "TASK_FLAGS", "FETCH_FILE", "FETCH_TERM_HITS", "EXECUTE",
                    "KIQ_STATUS", "PING", "UPLOAD", "MESSAGE"}
  BY Zenon DEF Answers

LEMMA AnswerValues ==
  /\ Answers["APPLICATION"] = {<<"Application was registered">>,
                               <<"Failed to register application">>}
  /\ Answers["FETCH_SCHEDULE"] = {<<"Scheduled Tasks", "Scheduled Tasks">>}
  /\ Answers["UPDATE_SCHEDULE"] = {<<"Schedule PUT">>}
  /\ Answers["FETCH_SCHEDULE_TOKENS"] = {<<>>, <<"Schedule Tokens">>}
  /\ Answers["FETCH_TASK_DATA"] = {<<"Task Data", "Task Data Final">>}
  /\ Answers["TASK_FLAGS"] = {<<"Application Flags">>}
  /\ Answers["FETCH_FILE"] = {<<>>, <<"File Upload">>}
  /\ Answers["FETCH_TERM_HITS"] = {<<"Term Hits">>}
  /\ Answers["EXECUTE"] = {<<>>, <<"Process Execution Requested">>}
  /\ Answers["KIQ_STATUS"] = {<<"Platform post created">>}
  /\ Answers["PING"] = {<<"pong">>}
  /\ Answers["UPLOAD"] = {<<"File Ready">>}
  /\ Answers["MESSAGE"] = {<<"Message Received">>}
  BY Zenon DEF Answers

AnswerNames ==
  {"Application was registered", "Failed to register application", "Scheduled Tasks",
   "Schedule PUT", "Schedule Tokens", "Task Data", "Task Data Final", "Application Flags",
   "File Upload", "Term Hits", "Process Execution Requested", "Platform post created", "pong",
   "File Ready", "Message Received"}

LEMMA AnswersSeq ==
  ASSUME NEW type \in DOMAIN Answers
  PROVE  Answers[type] \subseteq Seq(AnswerNames)
<1> DEFINE Fits(names) == names \subseteq Seq(AnswerNames)
<1>1. /\ Fits({<<"Application was registered">>, <<"Failed to register application">>})
      /\ Fits({<<"Scheduled Tasks", "Scheduled Tasks">>}) /\ Fits({<<"Schedule PUT">>})
      /\ Fits({<<>>, <<"Schedule Tokens">>}) /\ Fits({<<"Task Data", "Task Data Final">>})
      /\ Fits({<<"Application Flags">>}) /\ Fits({<<>>, <<"File Upload">>})
      /\ Fits({<<"Term Hits">>}) /\ Fits({<<>>, <<"Process Execution Requested">>})
      /\ Fits({<<"Platform post created">>}) /\ Fits({<<"pong">>}) /\ Fits({<<"File Ready">>})
      /\ Fits({<<"Message Received">>})
  <2>1. ASSUME NEW a \in AnswerNames, NEW b \in AnswerNames
        PROVE  Fits({<<a>>}) /\ Fits({<<a>>, <<b>>}) /\ Fits({<<a, b>>}) /\ Fits({<<>>, <<a>>})
    BY SeqOne, SeqTwo, EmptySeq
  <2> HIDE DEF Fits
  <2> QED BY <2>1, Zenon DEF AnswerNames
<1> HIDE DEF Fits
<1>2. Fits(Answers[type])
  BY <1>1, AnswerTypes, AnswerValues, Zenon
<1> QED BY <1>2 DEF Fits

LEMMA AnswerTableNames ==
  /\ DispatchTable[2][2]  = "on_execution_requested"
  /\ DispatchTable[5][2]  = "on_scheduler_fetch"
  /\ DispatchTable[6][2]  = "on_scheduler_tokens"
  /\ DispatchTable[7][2]  = "on_scheduler_update"
  /\ DispatchTable[10][2] = "on_registrar_success"
  /\ DispatchTable[11][2] = "on_registrar_fail"
  /\ DispatchTable[12][2] = "on_task_flags"
  /\ DispatchTable[29][2] = "on_files_send"
  /\ DispatchTable[32][2] = "on_task_data"
  /\ DispatchTable[33][2] = "on_task_data_final"
  /\ DispatchTable[37][2] = "on_term_hits"
  BY DEF DispatchTable

\* The handlers of the codes that requests raise for their client.
LEMMA AnswerHandlers ==
  /\ HandlerOf[2]  = "on_execution_requested" /\ HandlerOf[5]  = "on_scheduler_fetch"
  /\ HandlerOf[6]  = "on_scheduler_tokens"    /\ HandlerOf[7]  = "on_scheduler_update"
  /\ HandlerOf[10] = "on_registrar_success"   /\ HandlerOf[11] = "on_registrar_fail"
  /\ HandlerOf[12] = "on_task_flags"          /\ HandlerOf[28] = "on_files_send"
  /\ HandlerOf[31] = "on_task_data"           /\ HandlerOf[32] = "on_task_data_final"
  /\ HandlerOf[36] = "on_term_hits"
<1> DEFINE At(code, n) == /\ n \in 1 .. 39 /\ code \in 1 .. 39 /\ DispatchTable[n][1] = code
                          /\ \A j \in 1 .. 39 : DispatchTable[j][1] = code => n <= j
<1>1. At(2, 2) /\ At(5, 5) /\ At(6, 6) /\ At(7, 7) /\ At(10, 10) /\ At(11, 11) /\ At(12, 12)
  BY TableCodes
<1>2. At(28, 29) /\ At(31, 32) /\ At(32, 33) /\ At(36, 37)
  BY TableCodes
<1>3. \A code, n : At(code, n) => HandlerOf[code] = DispatchTable[n][2]
  BY HandlerAtPlace
<1> HIDE DEF At
<1>4. /\ HandlerOf[2] = DispatchTable[2][2]   /\ HandlerOf[5] = DispatchTable[5][2]
      /\ HandlerOf[6] = DispatchTable[6][2]   /\ HandlerOf[7] = DispatchTable[7][2]
      /\ HandlerOf[10] = DispatchTable[10][2] /\ HandlerOf[11] = DispatchTable[11][2]
      /\ HandlerOf[12] = DispatchTable[12][2] /\ HandlerOf[28] = DispatchTable[29][2]
      /\ HandlerOf[31] = DispatchTable[32][2] /\ HandlerOf[32] = DispatchTable[33][2]
      /\ HandlerOf[36] = DispatchTable[37][2]
  BY <1>1, <1>2, <1>3
<1> QED BY <1>4, AnswerTableNames

\* The handlers that send what they are given on.
LEMMA ForwardingHandlers ==
  ASSUME NEW fd \in Fds, NEW code \in 1 .. 39, NEW arg
  PROVE  /\ HandlerOf[code] \in DOMAIN ForwardedAnswers =>
              Handle(fd, code, arg) = {<<Send(fd, ForwardedAnswers[HandlerOf[code]])>>}
         /\ HandlerOf[code] \in {"on_task_data", "on_task_data_final", "on_term_hits"} =>
              Handle(fd, code, arg) = {<<Send(fd, ForwardedData[HandlerOf[code]])>>}
         /\ HandlerOf[code] = "on_files_send" =>
              Handle(fd, code, arg) = {<<Send(fd, "File Upload")>>}
<1> DEFINE h == HandlerOf[code]
<1>1. \A name : SendEvent(fd, name) = <<Send(fd, name)>>
  BY FdsAssumption DEF SendEvent, ALL_CLIENTS
<1>2. /\ DOMAIN ForwardedAnswers =
           {"on_execution_requested", "on_tasks_ready", "on_tasks_none", "on_scheduler_fetch",
            "on_scheduler_tokens", "on_scheduler_update", "on_scheduler_success",
            "on_registrar_success", "on_registrar_fail", "on_task_flags",
            "on_application_fetch_success", "on_application_fetch_fail", "on_platform_created"}
      /\ DOMAIN ForwardedData =
           {"on_task_data", "on_task_data_final", "on_term_hits", "on_status_report"}
  BY Zenon DEF ForwardedAnswers, ForwardedData
<1>3. h \in DOMAIN ForwardedAnswers => Handle(fd, code, arg) = {SendEvent(fd, ForwardedAnswers[h])}
  BY <1>2 DEF Handle, NoActions
<1>4. h \in DOMAIN ForwardedData => Handle(fd, code, arg) = {SendEvent(fd, ForwardedData[h])}
  BY <1>2 DEF Handle, NoActions
<1>5. h = "on_files_send" => Handle(fd, code, arg) = OnFilesSend(fd)
  BY <1>2 DEF Handle, NoActions
<1>6. OnFilesSend(fd) = {<<Send(fd, "File Upload")>>}
  <2>1. Effect("files enqueued") \o <<Send(fd, "File Upload")>> = <<Send(fd, "File Upload")>>
    BY DEF Effect, Send
  <2> QED BY <2>1 DEF OnFilesSend
<1> QED BY <1>1, <1>2, <1>3, <1>4, <1>5, <1>6

\* The names under which the answers go out.
LEMMA ForwardedNames ==
  /\ ForwardedAnswers["on_execution_requested"] = "Process Execution Requested"
  /\ ForwardedAnswers["on_scheduler_fetch"] = "Scheduled Tasks"
  /\ ForwardedAnswers["on_scheduler_tokens"] = "Schedule Tokens"
  /\ ForwardedAnswers["on_scheduler_update"] = "Schedule PUT"
  /\ ForwardedAnswers["on_registrar_success"] = "Application was registered"
  /\ ForwardedAnswers["on_registrar_fail"] = "Failed to register application"
  /\ ForwardedAnswers["on_task_flags"] = "Application Flags"
  /\ ForwardedAnswers["on_platform_created"] = "Platform post created"
  /\ {"on_execution_requested", "on_scheduler_fetch", "on_scheduler_tokens",
      "on_scheduler_update", "on_registrar_success", "on_registrar_fail", "on_task_flags",
      "on_platform_created"} \subseteq DOMAIN ForwardedAnswers
  /\ ForwardedData["on_task_data"] = "Task Data"
  /\ ForwardedData["on_task_data_final"] = "Task Data Final"
  /\ ForwardedData["on_term_hits"] = "Term Hits"
  BY Zenon DEF ForwardedAnswers, ForwardedData

LEMMA EventsOwe ==
  ASSUME NEW fd \in Fds, NEW arg
  PROVE  /\ Owes(fd, Event(fd, PROCESS_EXECUTION_REQUESTED, arg), "Process Execution Requested")
         /\ Owes(fd, Event(fd, SCHEDULER_FETCH, arg), "Scheduled Tasks")
         /\ Owes(fd, Event(fd, SCHEDULER_FETCH_TOKENS, arg), "Schedule Tokens")
         /\ Owes(fd, Event(fd, SCHEDULER_UPDATE, arg), "Schedule PUT")
         /\ Owes(fd, Event(fd, REGISTRAR_SUCCESS, arg), "Application was registered")
         /\ Owes(fd, Event(fd, REGISTRAR_FAIL, arg), "Failed to register application")
         /\ Owes(fd, Event(fd, TASK_FETCH_FLAGS, arg), "Application Flags")
         /\ Owes(fd, Event(fd, STATUS_REPORT, arg), "Platform post created")
         /\ Owes(fd, Event(fd, TASK_DATA, arg), "Task Data")
         /\ Owes(fd, Event(fd, TASK_DATA_FINAL, arg), "Task Data Final")
         /\ Owes(fd, Event(fd, TERM_HITS, arg), "Term Hits")
         /\ Owes(fd, Event(fd, FILES_SEND, arg), "File Upload")
<1>1. ASSUME NEW code, NEW name, Handle(fd, code, arg) = {<<Send(fd, name)>>}
      PROVE  Owes(fd, Event(fd, code, arg), name)
  BY <1>1 DEF Owes, Event
<1> DEFINE Sends(code, name) == Handle(fd, code, arg) = {<<Send(fd, name)>>}
<1>2. \A code \in 1 .. 39 :
        /\ HandlerOf[code] \in DOMAIN ForwardedAnswers =>
             Sends(code, ForwardedAnswers[HandlerOf[code]])
        /\ HandlerOf[code] \in {"on_task_data", "on_task_data_final", "on_term_hits"} =>
             Sends(code, ForwardedData[HandlerOf[code]])
        /\ HandlerOf[code] = "on_files_send" => Sends(code, "File Upload")
  BY ForwardingHandlers
<1> HIDE DEF Sends
<1>3. \A code, name : Sends(code, name) => Owes(fd, Event(fd, code, arg), name)
  BY <1>1 DEF Sends
<1>4. {2, 5, 6, 7, 10, 11, 12, 28, 31, 32, 36, 38} \subseteq 1 .. 39
  OBVIOUS
<1>9. Sends(2, "Process Execution Requested") /\ Sends(5, "Scheduled Tasks")
  BY <1>2, <1>4, ForwardedNames, AnswerHandlers, Zenon
<1>5. Sends(6, "Schedule Tokens") /\ Sends(7, "Schedule PUT")
  BY <1>2, <1>4, ForwardedNames, AnswerHandlers, Zenon
<1>6. /\ Sends(10, "Application was registered") /\ Sends(11, "Failed to register application")
      /\ Sends(12, "Application Flags")
  BY <1>2, <1>4, ForwardedNames, AnswerHandlers, Zenon
<1>7. Sends(38, "Platform post created")
  BY <1>2, <1>4, ForwardedNames, LoopHandlers, Zenon
<1>8. /\ Sends(31, "Task Data") /\ Sends(32, "Task Data Final") /\ Sends(36, "Term Hits")
      /\ Sends(28, "File Upload")
  BY <1>2, <1>4, ForwardedNames, AnswerHandlers, Zenon
<1> QED
  BY <1>3, <1>5, <1>6, <1>7, <1>8, <1>9
     DEF PROCESS_EXECUTION_REQUESTED, SCHEDULER_FETCH, SCHEDULER_FETCH_TOKENS, SCHEDULER_UPDATE,
         REGISTRAR_SUCCESS, REGISTRAR_FAIL, TASK_FETCH_FLAGS, STATUS_REPORT, TASK_DATA,
         TASK_DATA_FINAL, TERM_HITS, FILES_SEND

\* The calls with which a thread begins on a request.
Promised(fd, type, calls) ==
  \/ \E names \in Answers[type] :
       /\ Len(names) <= Len(calls)
       /\ \A i \in 1 .. Len(calls) : /\ i <= Len(names) => Owes(fd, calls[i], names[i])
                                     /\ i > Len(names)  => calls[i] \in Silent
  \/ calls # <<>> /\ calls[1][1] = "throw"
  \/ type = "PING" /\ calls = <<Notify(fd), Send(fd, "pong")>>

LEMMA Promises ==
  ASSUME NEW fd, NEW type
  PROVE  /\ <<>> \in Answers[type] => Promised(fd, type, <<>>)
         /\ \A c, name : Owes(fd, c, name) /\ <<name>> \in Answers[type]
              => Promised(fd, type, <<c>>)
         /\ \A c, d, m, n : Owes(fd, c, m) /\ Owes(fd, d, n) /\ <<m, n>> \in Answers[type]
              => Promised(fd, type, <<c, d>>) /\ Promised(fd, type, <<c, d, EndTry>>)
         /\ \A c, name, x : Owes(fd, c, name) /\ <<name>> \in Answers[type] /\ x \in Seq(LoopCall)
              => Promised(fd, type, <<c>> \o x)
         /\ \A why : /\ Promised(fd, type, <<Throw(why)>>)
                     /\ Promised(fd, type, <<Throw(why), EndTry>>)
<1>1. EndTry \in Silent /\ LoopCall \subseteq Silent
  BY DEF Silent, OnLoop
<1>2. <<>> \in Answers[type] => Promised(fd, type, <<>>)
  BY DEF Promised
<1>0. ASSUME NEW names \in Answers[type], NEW calls, Len(names) <= Len(calls),
             \A i \in 1 .. Len(calls) : /\ i <= Len(names) => Owes(fd, calls[i], names[i])
                                        /\ i > Len(names)  => calls[i] \in Silent
      PROVE  Promised(fd, type, calls)
  BY <1>0 DEF Promised
<1>3. ASSUME NEW c, NEW name, Owes(fd, c, name), <<name>> \in Answers[type]
      PROVE  Promised(fd, type, <<c>>)
  <2> DEFINE s == <<c>>
             n == <<name>>
  <2>1. Len(s) = 1 /\ s[1] = c /\ Len(n) = 1 /\ n[1] = name /\ n \in Answers[type]
    BY <1>3
  <2> HIDE DEF s, n
  <2>2. \A i \in 1 .. Len(s) : i = 1
    BY <2>1
  <2>3. Promised(fd, type, s)
    BY <1>0, <1>3, <2>1, <2>2
  <2> QED BY <2>3 DEF s
<1>4. ASSUME NEW c, NEW d, NEW m, NEW n, Owes(fd, c, m), Owes(fd, d, n), <<m, n>> \in Answers[type]
      PROVE  Promised(fd, type, <<c, d>>) /\ Promised(fd, type, <<c, d, EndTry>>)
  <2> DEFINE s     == <<c, d>>
             e     == <<c, d, EndTry>>
             names == <<m, n>>
  <2>1. /\ Len(s) = 2 /\ s[1] = c /\ s[2] = d
        /\ Len(e) = 3 /\ e[1] = c /\ e[2] = d /\ e[3] = EndTry
        /\ Len(names) = 2 /\ names[1] = m /\ names[2] = n /\ names \in Answers[type]
    BY <1>4
  <2> HIDE DEF s, e, names
  <2>2. \A i : (i \in 1 .. 2 => i = 1 \/ i = 2) /\ (i \in 1 .. 3 => i = 1 \/ i = 2 \/ i = 3)
    OBVIOUS
  <2>3. Promised(fd, type, s)
    BY <1>0, <1>4, <2>1, <2>2
  <2>4. Promised(fd, type, e)
    <3>1. ASSUME NEW i \in 1 .. Len(e)
          PROVE  /\ i <= Len(names) => Owes(fd, e[i], names[i])
                 /\ i > Len(names) => e[i] \in Silent
      <4>1. i = 1 \/ i = 2 \/ i = 3
        BY <2>1, <2>2
      <4> QED BY <1>1, <1>4, <2>1, <4>1
    <3>2. Len(names) <= Len(e) /\ names \in Answers[type]
      BY <2>1
    <3> QED BY <1>0, <3>1, <3>2
  <2> QED BY <2>3, <2>4 DEF s, e
<1>5. ASSUME NEW c, NEW name, NEW x, Owes(fd, c, name), <<name>> \in Answers[type],
             x \in Seq(LoopCall)
      PROVE  Promised(fd, type, <<c>> \o x)
  <2> DEFINE s == <<c>> \o x
             n == <<name>>
  <2>1. Len(s) >= 1 /\ s[1] = c /\ \A i \in 1 .. Len(s) : i > 1 => s[i] \in LoopCall
    BY <1>5
  <2>2. Len(n) = 1 /\ n[1] = name /\ n \in Answers[type]
    BY <1>5
  <2> HIDE DEF s, n
  <2>3. \A i \in 1 .. Len(s) : (i <= 1 => i = 1) /\ (i > 1 => s[i] \in Silent)
    BY <1>1, <2>1
  <2>4. Promised(fd, type, s)
    BY <1>0, <1>5, <2>1, <2>2, <2>3
  <2> QED BY <2>4 DEF s
<1>6. ASSUME NEW why
      PROVE  Promised(fd, type, <<Throw(why)>>) /\ Promised(fd, type, <<Throw(why), EndTry>>)
  BY DEF Promised, Throw
<1> QED BY <1>2, <1>3, <1>4, <1>5, <1>6, Zenon

\* Each request that is answered at all begins with calls that promise it.
LEMMA RequestsPromise ==
  ASSUME NEW fd \in Fds, NEW type \in DOMAIN Answers
  PROVE  /\ type \in DOMAIN ProcessClientRequest[fd] =>
              \A calls \in ProcessClientRequest[fd][type] : Promised(fd, type, calls)
         /\ type \in DOMAIN ClientMessages[fd] =>
              \A calls \in ClientMessages[fd][type] : Promised(fd, type, calls)
<1> DEFINE All(what, x) == \A calls \in x : Promised(fd, what, calls)
<1> DEFINE None(what)      == <<>> \in Answers[what]
           One(what, name) == <<name>> \in Answers[what]
           Two(what, x, y) == <<x, y>> \in Answers[what]
           P0(what)        == Promised(fd, what, <<>>)
           P1(what, c)     == Promised(fd, what, <<c>>)
           P2(what, c, d)  == Promised(fd, what, <<c, d>>) /\ Promised(fd, what, <<c, d, EndTry>>)
<1>1. /\ \A what : None(what) => P0(what)
      /\ \A what, c, name : Owes(fd, c, name) /\ One(what, name) => P1(what, c)
      /\ \A what, c, d, x, y : Owes(fd, c, x) /\ Owes(fd, d, y) /\ Two(what, x, y) => P2(what, c, d)
  BY Promises, Zenon
<1>2. \A what, why : /\ Promised(fd, what, <<Throw(why)>>)
                      /\ Promised(fd, what, <<Throw(why), EndTry>>)
  BY Promises, Zenon
<1>3. /\ None("FETCH_SCHEDULE_TOKENS") /\ None("FETCH_FILE") /\ None("EXECUTE")
      /\ One("APPLICATION", "Application was registered")
      /\ One("APPLICATION", "Failed to register application")
      /\ One("UPDATE_SCHEDULE", "Schedule PUT") /\ One("FETCH_SCHEDULE_TOKENS", "Schedule Tokens")
      /\ One("TASK_FLAGS", "Application Flags") /\ One("FETCH_FILE", "File Upload")
      /\ One("FETCH_TERM_HITS", "Term Hits") /\ One("EXECUTE", "Process Execution Requested")
      /\ One("KIQ_STATUS", "Platform post created") /\ One("UPLOAD", "File Ready")
      /\ One("MESSAGE", "Message Received")
      /\ Two("FETCH_SCHEDULE", "Scheduled Tasks", "Scheduled Tasks")
      /\ Two("FETCH_TASK_DATA", "Task Data", "Task Data Final")
  BY AnswerValues, Zenon
<1> HIDE DEF None, One, Two, P0, P1, P2
<1>4. \A c, name, what : c = Send(fd, name) /\ One(what, name) => P1(what, c)
  BY <1>1, Zenon DEF Owes
<1>5. /\ P1("APPLICATION", Event(fd, REGISTRAR_SUCCESS, "none"))
      /\ P1("APPLICATION", Event(fd, REGISTRAR_FAIL, "none"))
      /\ P1("UPDATE_SCHEDULE", Event(fd, SCHEDULER_UPDATE, "none"))
      /\ P1("FETCH_SCHEDULE_TOKENS", Event(fd, SCHEDULER_FETCH_TOKENS, "none"))
  BY <1>1, <1>3, EventsOwe
<1>6. /\ P1("TASK_FLAGS", Event(fd, TASK_FETCH_FLAGS, "none"))
      /\ P1("FETCH_FILE", Event(fd, FILES_SEND, "none"))
      /\ P1("FETCH_TERM_HITS", Event(fd, TERM_HITS, "none"))
      /\ P1("KIQ_STATUS", Event(fd, STATUS_REPORT, "none"))
  BY <1>1, <1>3, EventsOwe
<1>7. /\ P2("FETCH_SCHEDULE", Event(fd, SCHEDULER_FETCH, "tasks"), Event(fd, SCHEDULER_FETCH, "end"))
      /\ P2("FETCH_TASK_DATA", Event(fd, TASK_DATA, "none"), Event(fd, TASK_DATA_FINAL, "none"))
  BY <1>1, <1>3, EventsOwe
<1>8. /\ All("APPLICATION", Application(fd)) /\ All("FETCH_SCHEDULE", FetchSchedule(fd))
      /\ All("UPDATE_SCHEDULE", UpdateSchedule(fd))
      /\ All("FETCH_SCHEDULE_TOKENS", FetchScheduleTokens(fd))
      /\ All("FETCH_TASK_DATA", FetchTaskData(fd))
      /\ All("TASK_FLAGS", {<<Event(fd, TASK_FETCH_FLAGS, "none")>>})
      /\ All("FETCH_FILE", {<<>>, <<Event(fd, FILES_SEND, "none")>>})
      /\ All("FETCH_TERM_HITS", FetchTermEvents(fd))
      /\ All("KIQ_STATUS", {<<Event(fd, STATUS_REPORT, "none")>>})
  <2>1. P0("FETCH_SCHEDULE_TOKENS") /\ P0("FETCH_FILE")
    BY <1>1, <1>3
  <2> QED BY <1>2, <1>5, <1>6, <1>7, <2>1, Zenon
          DEF P0, P1, P2, Application, FetchSchedule, UpdateSchedule, FetchScheduleTokens,
              FetchTaskData, FetchTermEvents
<1>9. All("EXECUTE", Execute(fd))
  <2> DEFINE first  == {<<Event(fd, PROCESS_EXECUTION_REQUESTED, "none")>>}
             second == {<<>>} \cup UNION {OnProcessEvent(id) : id \in {"task", "number", "text"}}
  <2>1. \A id \in {"task", "number", "text"} : OnProcessEvent(id) \subseteq Seq(LoopCall)
    BY ProcessEventLoop DEF Tags
  <2>2. second \subseteq Seq(LoopCall)
    BY <2>1, EmptySeq
  <2>3. Execute(fd) = {<<>>} \cup Then(first, second)
    BY DEF Execute
  <2> HIDE DEF second
  <2>4. ASSUME NEW calls \in Then(first, second)
        PROVE  \E x \in second : calls = <<Event(fd, PROCESS_EXECUTION_REQUESTED, "none")>> \o x
    <3> DEFINE c(a, b) == a \o b
    <3>1. calls \in {c(a, b) : a \in first, b \in second}
      BY DEF Then
    <3> HIDE DEF c, first
    <3>2. PICK a \in first, x \in second : calls = c(a, x)
      BY <3>1
    <3> QED BY <3>2 DEF c, first
  <2>5. Owes(fd, Event(fd, PROCESS_EXECUTION_REQUESTED, "none"), "Process Execution Requested")
    BY EventsOwe, Zenon
  <2>6. \A x \in second :
           Promised(fd, "EXECUTE", <<Event(fd, PROCESS_EXECUTION_REQUESTED, "none")>> \o x)
    BY <1>3, <2>2, <2>5, Promises, Zenon DEF One
  <2>7. Promised(fd, "EXECUTE", <<>>)
    BY <1>1, <1>3, Zenon DEF P0
  <2> QED BY <2>3, <2>4, <2>6, <2>7, Zenon
<1>11. All("PING", {<<Notify(fd), Send(fd, "pong")>>})
  BY Zenon DEF Promised
<1>12. /\ All("UPLOAD", {<<Send(fd, "File Ready")>>})
       /\ All("MESSAGE", {<<Send(fd, "Message Received")>>})
  BY <1>3, <1>4, Zenon DEF P1
<1> DEFINE r == ProcessClientRequest[fd]
           m == ClientMessages[fd]
<1>14. /\ r["APPLICATION"] = Application(fd) /\ r["FETCH_SCHEDULE"] = FetchSchedule(fd)
       /\ r["UPDATE_SCHEDULE"] = UpdateSchedule(fd)
       /\ r["FETCH_SCHEDULE_TOKENS"] = FetchScheduleTokens(fd)
       /\ r["FETCH_TASK_DATA"] = FetchTaskData(fd)
       /\ r["TASK_FLAGS"] = {<<Event(fd, TASK_FETCH_FLAGS, "none")>>}
       /\ r["FETCH_FILE"] = {<<>>, <<Event(fd, FILES_SEND, "none")>>}
       /\ r["FETCH_TERM_HITS"] = FetchTermEvents(fd) /\ r["EXECUTE"] = Execute(fd)
       /\ r["KIQ_STATUS"] = {<<Event(fd, STATUS_REPORT, "none")>>}
  BY Zenon DEF ProcessClientRequest
<1>15. /\ m["PING"] = {<<Notify(fd), Send(fd, "pong")>>} /\ m["UPLOAD"] = {<<Send(fd, "File Ready")>>}
       /\ m["MESSAGE"] = {<<Send(fd, "Message Received")>>}
  BY Zenon DEF ClientMessages
<1>16. /\ "PING" \notin DOMAIN r /\ "UPLOAD" \notin DOMAIN r /\ "MESSAGE" \notin DOMAIN r
       /\ DOMAIN m = {"START", "STOP", "PING", "UPLOAD", "MESSAGE", "SCHEDULE"}
  BY Zenon DEF ProcessClientRequest, ClientMessages
<1> HIDE DEF All, r, m
<1>17. type \in DOMAIN r => All(type, r[type])
  BY <1>8, <1>9, <1>14, <1>16, AnswerTypes, Zenon
<1>18. type \in DOMAIN m => All(type, m[type])
  BY <1>11, <1>12, <1>15, <1>16, AnswerTypes, Zenon
<1> QED BY <1>17, <1>18 DEF All, r, m

-----------------------------------------------------------------------------
(* How the owed answers follow the calls.                                  *)

LEMMA SilentKinds ==
  ASSUME NEW c \in Silent
  PROVE  /\ c[1] \notin {"send", "notify", "init", "end", "request"}
         /\ c[1] = "event" => c[2] = ALL_CLIENTS /\ c[3] \in LoopCode /\ c[4] \in Tags
<1>1. CASE c \in LoopCall
  BY <1>1, LoopKinds
<1>2. CASE c \in CastCall
  BY <1>2, CastKinds
<1>3. CASE c \in ({"castto"} \X Fds \X MessageNames) \cup {Return, EndTry}
  BY <1>3 DEF Return, EndTry
<1> QED BY <1>1, <1>2, <1>3 DEF Silent, OnLoop

LEMMA OwesKinds ==
  ASSUME NEW f, NEW c, NEW name, Owes(f, c, name)
  PROVE  /\ c[1] = "send" \/ c[1] = "event"
         /\ c[1] = "send" => c = Send(f, name)
         /\ c[1] = "event" => Handle(c[2], c[3], c[4]) = {<<Send(f, name)>>}
  BY DEF Owes, Send

\* The next call owes the next answer, or none is owed.
LEMMA NextOwed ==
  ASSUME NEW f, NEW names \in Seq(AnswerNames), NEW sent \in Seq(AnyCall),
         NEW s \in Seq(AnyCall), s # <<>>, AnswersWith(f, names, sent, s)
  PROVE  \/ /\ Len(sent) < Len(names) /\ Len(sent) + 1 \in 1 .. Len(names)
            /\ Owes(f, s[1], names[Len(sent) + 1])
         \/ Len(sent) = Len(names) /\ s[1] \in Silent
<1>1. Len(sent) \in Nat /\ Len(names) \in Nat /\ 1 \in DOMAIN s /\ Len(sent) <= Len(names)
  BY DEF AnswersWith
<1>2. /\ Len(sent) + 1 <= Len(names) => Owes(f, s[1], names[Len(sent) + 1])
      /\ Len(sent) + 1 > Len(names) => s[1] \in Silent
  BY <1>1 DEF AnswersWith
<1> QED BY <1>1, <1>2

\* A call that owes the next answer is replaced by another that does, or a
\* silent one by silent ones.
LEMMA GoesAnswering ==
  ASSUME NEW f, NEW names \in Seq(AnswerNames), NEW sent \in Seq(AnyCall),
         NEW s \in Seq(AnyCall), s # <<>>, AnswersWith(f, names, sent, s),
         NEW c \in Seq(AnyCall), NEW n, DOMAIN n = 1 .. Len(c) + Len(s) - 1,
         \A i \in 1 .. Len(c) : n[i] = c[i],
         \A i \in 1 .. Len(c) + Len(s) - 1 : i > Len(c) =>
           i - Len(c) + 1 \in 2 .. Len(s) /\ n[i] = s[i - Len(c) + 1],
         \/ Len(sent) = Len(names) /\ \A i \in 1 .. Len(c) : c[i] \in Silent
         \/ Len(sent) < Len(names) /\ Len(c) = 1 /\ Owes(f, c[1], names[Len(sent) + 1])
  PROVE  AnswersWith(f, names, sent, n)
<1>1. /\ Len(sent) \in Nat /\ Len(names) \in Nat /\ Len(c) \in Nat
      /\ Len(s) \in Nat \ {0} /\ DOMAIN s = 1 .. Len(s)
  OBVIOUS
<1>2. ASSUME NEW i \in DOMAIN n
      PROVE  /\ Len(sent) + i <= Len(names) => Owes(f, n[i], names[Len(sent) + i])
             /\ Len(sent) + i > Len(names) => n[i] \in Silent
  <2>1. CASE i > Len(c)
    <3> DEFINE j == i - Len(c) + 1
    <3>0. i \in 1 .. Len(c) + Len(s) - 1 /\ j \in 2 .. Len(s) /\ n[i] = s[j]
      BY <2>1
    <3>1. j \in DOMAIN s /\ n[i] = s[j] /\ j \in Nat
      BY <1>1, <3>0
    <3>2. /\ Len(sent) + j <= Len(names) => Owes(f, s[j], names[Len(sent) + j])
          /\ Len(sent) + j > Len(names) => s[j] \in Silent
      BY <3>1 DEF AnswersWith
    <3>3. CASE Len(sent) = Len(names)
      <4>1. Len(sent) + j > Len(names) /\ Len(sent) + i > Len(names)
        BY <1>1, <2>1, <3>3
      <4>2. ~(Len(sent) + i <= Len(names))
        BY <1>1, <4>1
      <4> QED BY <3>1, <3>2, <4>1, <4>2
    <3>4. CASE Len(c) = 1
      <4>1. j = i
        BY <1>1, <3>4
      <4> QED BY <3>1, <3>2, <4>1
    <3> QED BY <3>3, <3>4
  <2>2. CASE ~(i > Len(c))
    <3>1. i \in 1 .. Len(c) /\ n[i] = c[i]
      BY <1>1, <2>2
    <3>2. CASE Len(sent) = Len(names) /\ \A k \in 1 .. Len(c) : c[k] \in Silent
      <4>1. ~(Len(sent) + i <= Len(names))
        BY <1>1, <3>1, <3>2
      <4> QED BY <3>1, <3>2, <4>1
    <3>3. CASE Len(sent) < Len(names) /\ Len(c) = 1 /\ Owes(f, c[1], names[Len(sent) + 1])
      <4>1. i = 1
        BY <3>1, <3>3
      <4>2. ~(Len(sent) + 1 > Len(names))
        BY <1>1, <3>3
      <4> QED BY <3>1, <3>3, <4>1, <4>2
    <3> QED BY <3>2, <3>3
  <2> QED BY <2>1, <2>2
<1> QED BY <1>2 DEF AnswersWith

\* The next answer is sent.
LEMMA SendAnswering ==
  ASSUME NEW f, NEW names \in Seq(AnswerNames), NEW sent \in Seq(AnyCall),
         NEW s \in Seq(AnyCall), s # <<>>, AnswersWith(f, names, sent, s),
         Len(sent) < Len(names), NEW call \in AnyCall, call = Send(f, names[Len(sent) + 1]),
         NEW n, DOMAIN n = 1 .. Len(s) - 1, \A i \in 1 .. Len(s) - 1 : n[i] = s[i + 1]
  PROVE  AnswersWith(f, names, Append(sent, call), n)
<1> DEFINE r == Append(sent, call)
<1>1. /\ Len(sent) \in Nat /\ Len(names) \in Nat /\ DOMAIN sent = 1 .. Len(sent)
      /\ Len(s) \in Nat \ {0} /\ DOMAIN s = 1 .. Len(s)
  OBVIOUS
<1>2. /\ Len(r) = Len(sent) + 1 /\ DOMAIN r = 1 .. Len(sent) + 1
      /\ \A i \in 1 .. Len(sent) : r[i] = sent[i]
      /\ r[Len(sent) + 1] = call
  OBVIOUS
<1> HIDE DEF r
<1>3. ASSUME NEW i \in DOMAIN r PROVE r[i] = Send(f, names[i])
  <2>1. CASE i = Len(sent) + 1
    BY <1>2, <2>1
  <2>2. CASE i # Len(sent) + 1
    <3>1. i \in DOMAIN sent
      BY <1>1, <1>2, <2>2
    <3> QED BY <1>1, <1>2, <3>1 DEF AnswersWith
  <2> QED BY <2>1, <2>2
<1>4. ASSUME NEW i \in DOMAIN n
      PROVE  /\ Len(r) + i <= Len(names) => Owes(f, n[i], names[Len(r) + i])
             /\ Len(r) + i > Len(names) => n[i] \in Silent
  <2> DEFINE j == i + 1
  <2>0. i \in 1 .. Len(s) - 1
    OBVIOUS
  <2>1. j \in DOMAIN s /\ n[i] = s[j] /\ Len(sent) + j = Len(r) + i
    <3>1. n[i] = s[j]
      BY <2>0
    <3>2. j \in DOMAIN s
      BY <1>1, <2>0
    <3>3. Len(sent) + j = Len(r) + i
      BY <1>1, <1>2, <2>0
    <3> QED BY <3>1, <3>2, <3>3
  <2> HIDE DEF j
  <2>2. /\ Len(sent) + j <= Len(names) => Owes(f, s[j], names[Len(sent) + j])
        /\ Len(sent) + j > Len(names) => s[j] \in Silent
    BY <2>1 DEF AnswersWith
  <2> QED BY <2>1, <2>2
<1>5. Len(r) <= Len(names)
  BY <1>1, <1>2
<1> QED BY <1>3, <1>4, <1>5 DEF AnswersWith, r

\* Once all answers are out an exception leaves silent calls.
LEMMA UnwindAnswering ==
  ASSUME NEW f, NEW names \in Seq(AnswerNames), NEW sent \in Seq(AnyCall),
         NEW s \in Seq(AnyCall), AnswersWith(f, names, sent, s), Len(sent) = Len(names),
         NEW n \in Seq(AnyCall), \A i \in DOMAIN n : \E j \in DOMAIN s : n[i] = s[j]
  PROVE  AnswersWith(f, names, sent, n)
<1>1. /\ Len(sent) \in Nat /\ Len(names) \in Nat
      /\ DOMAIN s = 1 .. Len(s) /\ DOMAIN n = 1 .. Len(n) /\ Len(s) \in Nat /\ Len(n) \in Nat
  OBVIOUS
<1>2. \A j \in DOMAIN s : s[j] \in Silent
  <2> TAKE j \in DOMAIN s
  <2>1. Len(sent) + j > Len(names)
    BY <1>1
  <2> QED BY <2>1 DEF AnswersWith
<1>3. ASSUME NEW i \in DOMAIN n PROVE n[i] \in Silent /\ ~(Len(sent) + i <= Len(names))
  BY <1>1, <1>2
<1> QED BY <1>3 DEF AnswersWith

-----------------------------------------------------------------------------
(* What the steps leave owed.                                              *)

\* Another thread's step changes nothing about a client's answers.
LEMMA OthersAnswer ==
  ASSUME NEW f \in Fds, AnswersOf(f),
         stack'[f] = stack[f], log'[f] = log[f], input'[f] = input[f],
         input[f] # "none" => away[f] \subseteq away'[f]
  PROVE  AnswersOf(f)'
<1>1. "none" \notin DOMAIN Answers
  BY AnswerTypes, Zenon
<1>2. Counts(f)' => Counts(f)
  BY <1>1 DEF Counts
<1>3. /\ Answering(f) => Answering(f)'
      /\ Pinging(f) => Pinging(f)'
      /\ Throwing(f) => Throwing(f)'
  BY DEF Answering, Pinging, Throwing, AnswersWith
<1> QED BY <1>2, <1>3 DEF AnswersOf

\* A step of the client's own thread, which the property still counts.
LEMMA StillCounts ==
  ASSUME IInv, NEW f \in Fds, AnswersOf(f), stack[f] # <<>>, input'[f] = input[f],
         away[f] \subseteq away'[f], Counts(f)',
         log'[f] = log[f] \/ \E c \in AnyCall : log'[f] = Append(log[f], c)
  PROVE  /\ Answering(f) \/ Pinging(f) \/ Throwing(f)
         /\ sessions[f] = "active"
         /\ input[f] \in DOMAIN Answers
<1>1. f \in Threads /\ log[f] \in Seq(AnyCall) /\ stack[f] \in Seq(AnyCall)
  BY LoopIsNoClient DEF IInv, TypeInv
<1>2. input[f] \in DOMAIN Answers /\ f \notin away[f]
  BY DEF Counts
<1>3. \A i \in DOMAIN log'[f] : log'[f][i][1] = "send"
  BY DEF Counts
<1>4. \A i \in DOMAIN log[f] : i \in DOMAIN log'[f] /\ log'[f][i] = log[f][i]
  BY <1>1
<1>5. Counts(f)
  BY <1>2, <1>3, <1>4 DEF Counts
<1>6. "none" \notin DOMAIN Answers
  BY AnswerTypes, Zenon
<1>7. sessions[f] = "active"
  BY <1>1, <1>2, <1>6 DEF IInv, CastInv, StayersActive
<1> QED BY <1>2, <1>5, <1>7 DEF AnswersOf

\* The client's thread and the answers it is about to give.
LEMMA AnsweringFacts ==
  ASSUME IInv, NEW f \in Fds, stack[f] # <<>>, input[f] \in DOMAIN Answers,
         NEW names \in Answers[input[f]], AnswersWith(f, names, log[f], stack[f])
  PROVE  /\ names \in Seq(AnswerNames) /\ log[f] \in Seq(AnyCall) /\ stack[f] \in Seq(AnyCall)
         /\ Head(stack[f]) = stack[f][1]
         /\ \/ /\ Len(log[f]) < Len(names) /\ Len(log[f]) + 1 \in 1 .. Len(names)
               /\ Owes(f, Head(stack[f]), names[Len(log[f]) + 1])
            \/ Len(log[f]) = Len(names) /\ Head(stack[f]) \in Silent
<1>1. log[f] \in Seq(AnyCall) /\ stack[f] \in Seq(AnyCall)
  BY LoopIsNoClient DEF IInv, TypeInv
<1>2. names \in Seq(AnswerNames)
  BY AnswersSeq
<1>3. Head(stack[f]) = stack[f][1]
  BY <1>1
<1> QED BY <1>1, <1>2, <1>3, NextOwed

\* The client's thread goes on with calls that follow on from what it owes.
LEMMA GoesAnswers ==
  ASSUME IInv, NEW f \in Fds, stack[f] # <<>>, Head(stack[f])[1] # "return",
         input[f] \in DOMAIN Answers, UNCHANGED input, log'[f] = log[f],
         NEW names \in Answers[input[f]], AnswersWith(f, names, log[f], stack[f]),
         NEW calls \in Seq(PlainCall \cup CastCall), Goes(f, calls),
         \/ Len(log[f]) = Len(names) /\ \A i \in 1 .. Len(calls) : calls[i] \in Silent
         \/ /\ Len(log[f]) < Len(names) /\ Len(calls) = 1
            /\ Owes(f, calls[1], names[Len(log[f]) + 1])
  PROVE  Answering(f)'
<1>1. /\ names \in Seq(AnswerNames) /\ log[f] \in Seq(AnyCall) /\ stack[f] \in Seq(AnyCall)
      /\ f \in Threads /\ calls \in Seq(AnyCall)
  BY AnsweringFacts, LoopIsNoClient DEF AnyCall
<1>2. /\ DOMAIN stack'[f] = 1 .. Len(calls) + Len(stack[f]) - 1
      /\ \A i \in 1 .. Len(calls) : stack'[f][i] = calls[i]
      /\ \A i \in 1 .. Len(calls) + Len(stack[f]) - 1 : i > Len(calls) =>
           /\ i - Len(calls) + 1 \in 2 .. Len(stack[f])
           /\ stack'[f][i] = stack[f][i - Len(calls) + 1]
  <2>1. stack \in [Threads -> Seq(AnyCall)] /\ StackInv
    BY DEF IInv, TypeInv
  <2> QED BY <1>1, <2>1, GoesStack
<1>3. AnswersWith(f, names, log[f], stack'[f])
  <2> DEFINE s    == stack[f]
             n    == stack'[f]
             sent == log[f]
  <2>1. /\ s \in Seq(AnyCall) /\ s # <<>> /\ sent \in Seq(AnyCall)
        /\ AnswersWith(f, names, sent, s)
        /\ DOMAIN n = 1 .. Len(calls) + Len(s) - 1
        /\ \A i \in 1 .. Len(calls) : n[i] = calls[i]
        /\ \A i \in 1 .. Len(calls) + Len(s) - 1 : i > Len(calls) =>
             i - Len(calls) + 1 \in 2 .. Len(s) /\ n[i] = s[i - Len(calls) + 1]
        /\ \/ Len(sent) = Len(names) /\ \A i \in 1 .. Len(calls) : calls[i] \in Silent
           \/ Len(sent) < Len(names) /\ Len(calls) = 1 /\ Owes(f, calls[1], names[Len(sent) + 1])
    BY <1>1, <1>2
  <2> HIDE DEF s, n, sent
  <2>2. AnswersWith(f, names, sent, n)
    BY <1>1, <2>1, GoesAnswering
  <2> QED BY <2>2 DEF n, sent
<1>4. AnswersWith(f, names, log'[f], stack'[f]) /\ input'[f] = input[f]
  BY <1>3
<1> QED BY <1>4 DEF Answering, AnswersWith

\* The kind of the next call tells what the thread is about.
LEMMA NextOfAnswer ==
  ASSUME IInv, NEW f \in Fds, NEW kind, NextIs(f, kind), kind # "notify", kind # "throw",
         input[f] \in DOMAIN Answers, Answering(f) \/ Pinging(f) \/ Throwing(f)
  PROVE  \E names \in Answers[input[f]] :
           /\ AnswersWith(f, names, log[f], stack[f])
           /\ \/ /\ Len(log[f]) < Len(names)
                 /\ Owes(f, Head(stack[f]), names[Len(log[f]) + 1])
                 /\ kind = "send" \/ kind = "event"
              \/ /\ Len(log[f]) = Len(names) /\ Head(stack[f]) \in Silent
                 /\ kind \notin {"send", "init", "end", "request"}
<1>1. f \in Threads
  BY LoopIsNoClient
<1>2. stack[f] # <<>> /\ Head(stack[f])[1] = kind /\ Head(stack[f]) = stack[f][1]
  BY <1>1, HeadFacts
<1>3. ~Pinging(f)
  <2> SUFFICES ASSUME Pinging(f) PROVE FALSE
    OBVIOUS
  <2>1. stack[f][1] = Notify(f)
    BY DEF Pinging
  <2>2. Head(stack[f])[1] = "notify"
    BY <1>2, <2>1 DEF Notify
  <2> QED BY <1>2, <2>2
<1>4. ~Throwing(f)
  BY <1>2 DEF Throwing
<1>5. PICK names \in Answers[input[f]] : AnswersWith(f, names, log[f], stack[f])
  BY <1>3, <1>4 DEF Answering
<1>6. \/ /\ Len(log[f]) < Len(names)
         /\ Owes(f, Head(stack[f]), names[Len(log[f]) + 1])
      \/ Len(log[f]) = Len(names) /\ Head(stack[f]) \in Silent
  BY <1>2, <1>5, AnsweringFacts
<1> DEFINE call == Head(stack[f])
<1>7. call[1] = kind
  BY <1>2
<1> HIDE DEF call
<1>8. \A name : Owes(f, call, name) => kind = "send" \/ kind = "event"
  BY <1>7, OwesKinds
<1>9. call \in Silent => kind \notin {"send", "init", "end", "request"}
  BY <1>7, SilentKinds
<1> QED BY <1>5, <1>6, <1>8, <1>9 DEF call

LEMMA CallAnswers ==
  ASSUME IInv, NEW f \in Fds, AnswersOf(f), Call(f)
  PROVE  AnswersOf(f)'
<1>1. UNCHANGED <<input, log, away>> /\ f \in Threads
  BY LoopIsNoClient DEF Call
<1> DEFINE e == Head(stack[f])
<1>2. ASSUME NEW kind \in {"event", "system", "tasks", "ipc", "platforms"}, NextIs(f, kind),
             NEW calls \in Seq(PlainCall), Goes(f, calls),
             kind = "event" => calls \in Handle(e[2], e[3], e[4]),
             kind # "event" => calls \in Seq(LoopCall)
      PROVE  AnswersOf(f)'
  <2>1. stack[f] # <<>> /\ Head(stack[f])[1] = kind /\ kind # "return"
    BY <1>1, <1>2, HeadFacts
  <2>2. calls \in Seq(PlainCall \cup CastCall) /\ stack \in [Threads -> Seq(AnyCall)] /\ StackInv
    BY <1>2 DEF IInv, TypeInv
  <2>3. stack'[f] # <<>>
    BY <1>1, <1>2, <2>1, <2>2, GoesStack
  <2> SUFFICES ASSUME Counts(f)' PROVE Answering(f)'
    BY <2>3 DEF AnswersOf
  <2>4. (Answering(f) \/ Pinging(f) \/ Throwing(f)) /\ input[f] \in DOMAIN Answers
    BY <1>1, <2>1, StillCounts
  <2>5. PICK names \in Answers[input[f]] :
           /\ AnswersWith(f, names, log[f], stack[f])
           /\ \/ /\ Len(log[f]) < Len(names)
                 /\ Owes(f, e, names[Len(log[f]) + 1])
                 /\ kind = "send" \/ kind = "event"
              \/ /\ Len(log[f]) = Len(names) /\ e \in Silent
                 /\ kind \notin {"send", "init", "end", "request"}
    BY <1>2, <2>4, NextOfAnswer
  <2>6. \/ Len(log[f]) = Len(names) /\ \A i \in 1 .. Len(calls) : calls[i] \in Silent
        \/ /\ Len(log[f]) < Len(names) /\ Len(calls) = 1
           /\ Owes(f, calls[1], names[Len(log[f]) + 1])
    <3>1. CASE Len(log[f]) < Len(names) /\ Owes(f, e, names[Len(log[f]) + 1]) /\ kind = "event"
      <4> DEFINE name == names[Len(log[f]) + 1]
      <4> HIDE DEF name
      <4>1. Owes(f, e, name) /\ e[1] = "event"
        BY <2>1, <3>1 DEF name
      <4> HIDE DEF e
      <4>2. calls \in {<<Send(f, name)>>}
        BY <1>2, <3>1, <4>1, OwesKinds
      <4>3. Len(calls) = 1 /\ calls[1] = Send(f, name)
        BY <4>2
      <4>4. Owes(f, calls[1], name)
        BY <4>3 DEF Owes
      <4> QED BY <3>1, <4>3, <4>4 DEF name
    <3>2. CASE Len(log[f]) = Len(names) /\ e \in Silent
      <4>1. calls \in Seq(LoopCall)
        <5>1. CASE kind # "event"
          BY <1>2, <5>1
        <5>2. CASE kind = "event"
          <6>1. e[1] = "event"
            BY <2>1, <5>2
          <6> HIDE DEF e
          <6>2. e[2] = ALL_CLIENTS /\ e[3] \in LoopCode /\ e[4] \in Tags
            BY <3>2, <6>1, SilentKinds
          <6> QED BY <1>2, <5>2, <6>2, HandleLoop
        <5> QED BY <5>1, <5>2
      <4>2. \A i \in 1 .. Len(calls) : calls[i] \in Silent
        BY <4>1 DEF Silent, OnLoop
      <4> QED BY <3>2, <4>2
    <3> QED BY <1>2, <2>5, <3>1, <3>2
  <2> QED BY <1>1, <1>2, <2>1, <2>2, <2>4, <2>5, <2>6, GoesAnswers
<1>3. CASE NextIs(f, "event") /\ \E calls \in Handle(e[2], e[3], e[4]) : Goes(f, calls)
  <2>1. PICK calls \in Handle(e[2], e[3], e[4]) : Goes(f, calls)
    BY <1>3
  <2>2. e[1] = "event" /\ e \in PlainCall
    BY <1>1, <1>3, HeadFacts, HeadPlain
  <2>3. calls \in Seq(PlainCall)
    <3> HIDE DEF e
    <3>1. e[2] \in Int /\ e[3] \in 1 .. 39 /\ e[4] \in Tags
      BY <2>2, PlainKinds
    <3> QED BY <3>1, HandlePlain
  <2> QED BY <1>2, <1>3, <2>1, <2>3
<1>4. CASE NextIs(f, "system") /\ \E calls \in ProcessSystemEvent(e[2], e[3]) : Goes(f, calls)
  <2>1. PICK calls \in ProcessSystemEvent(e[2], e[3]) : Goes(f, calls)
    BY <1>4
  <2>2. calls \in Seq(LoopCall)
    BY SystemLoop
  <2> QED BY <1>2, <1>4, <2>1, <2>2, LoopSeqIsPlain
<1>5. CASE NextIs(f, "tasks") /\ \E calls \in HandlePendingTasks : Goes(f, calls)
  BY <1>2, <1>5, PassLoop, LoopSeqIsPlain
<1>6. CASE NextIs(f, "ipc") /\ \E calls \in SendIPCRequest : Goes(f, calls)
  BY <1>2, <1>6, PassLoop, LoopSeqIsPlain
<1>7. CASE NextIs(f, "platforms") /\ \E calls \in ProcessPlatform : Goes(f, calls)
  BY <1>2, <1>7, PassLoop, LoopSeqIsPlain
<1> QED BY <1>3, <1>4, <1>5, <1>6, <1>7, Zenon DEF Call

\* A silent call ends, and what it leaves to be called is silent.
LEMMA SilentGoes ==
  ASSUME IInv, NEW f \in Fds, AnswersOf(f), UNCHANGED <<input, log, away>>,
         NEW kind \in {"broadcast", "cast", "castto", "endtry", "request"}, NextIs(f, kind),
         NEW calls \in Seq(PlainCall \cup CastCall), Goes(f, calls),
         \A i \in 1 .. Len(calls) : calls[i] \in Silent
  PROVE  AnswersOf(f)'
<1>1. f \in Threads /\ stack \in [Threads -> Seq(AnyCall)] /\ StackInv
  BY LoopIsNoClient DEF IInv, TypeInv
<1>2. stack[f] # <<>> /\ Head(stack[f])[1] = kind /\ kind # "return"
  BY <1>1, HeadFacts
<1>3. stack'[f] # <<>>
  BY <1>1, <1>2, GoesStack
<1> SUFFICES ASSUME Counts(f)' PROVE Answering(f)'
  BY <1>3 DEF AnswersOf
<1>4. (Answering(f) \/ Pinging(f) \/ Throwing(f)) /\ input[f] \in DOMAIN Answers
  BY <1>2, StillCounts
<1>5. PICK names \in Answers[input[f]] :
         AnswersWith(f, names, log[f], stack[f]) /\ Len(log[f]) = Len(names)
  BY <1>4, NextOfAnswer
<1> QED BY <1>2, <1>4, <1>5, GoesAnswers

LEMMA SendMessageAnswers ==
  ASSUME IInv, NEW f \in Fds, AnswersOf(f), SendMessage(f)
  PROVE  AnswersOf(f)'
<1> DEFINE call == Head(stack[f])
           fd   == call[2]
<1>1. UNCHANGED <<input, away, sessions>> /\ (NextIs(f, "send") \/ NextIs(f, "castto"))
  BY DEF SendMessage
<1>2. /\ IF call[1] = "send" THEN Records(f, call) ELSE UNCHANGED log
      /\ \/ sessions[fd] = "none" /\ Unwind(f, "session")
         \/ sessions[fd] # "none" /\ Goes(f, <<>>)
  BY Zenon DEF SendMessage
<1>3. /\ f \in Threads /\ stack \in [Threads -> Seq(AnyCall)] /\ log \in [Threads -> Seq(AnyCall)]
      /\ TypeInv /\ StackInv
  BY LoopIsNoClient DEF IInv, TypeInv
<1>4. CASE NextIs(f, "send")
  <2>1. call[1] = "send" /\ call \in AnyCall /\ stack[f] # <<>> /\ Records(f, call)
    BY <1>2, <1>3, <1>4, HeadFacts
  <2>2. log'[f] = Append(log[f], call)
    BY <1>3, <2>1 DEF Records
  <2>3. stack'[f] # <<>>
    BY <1>2, <1>3, <2>1, GoesStack, UnwindStack, EmptySeq
  <2> SUFFICES ASSUME Counts(f)' PROVE Answering(f)'
    BY <2>3 DEF AnswersOf
  <2>4. /\ Answering(f) \/ Pinging(f) \/ Throwing(f)
        /\ input[f] \in DOMAIN Answers /\ sessions[f] = "active"
    BY <1>1, <2>1, <2>2, StillCounts
  <2>5. PICK names \in Answers[input[f]] :
           /\ AnswersWith(f, names, log[f], stack[f]) /\ Len(log[f]) < Len(names)
           /\ Owes(f, call, names[Len(log[f]) + 1])
    BY <1>4, <2>4, NextOfAnswer
  <2>6. call = Send(f, names[Len(log[f]) + 1])
    BY <2>1, <2>5, OwesKinds
  <2>7. Goes(f, <<>>)
    <3>1. fd = f
      BY <2>6 DEF Send
    <3> QED BY <1>2, <2>4, <3>1
  <2>8. /\ DOMAIN stack'[f] = 1 .. Len(stack[f]) - 1
        /\ \A i \in 1 .. Len(stack[f]) - 1 : stack'[f][i] = stack[f][i + 1]
    <3> DEFINE none == <<>>
    <3>1. none \in Seq(PlainCall \cup CastCall) /\ Len(none) = 0 /\ Goes(f, none)
      BY <2>7
    <3>2. Len(stack[f]) \in Nat
      BY <1>3
    <3> HIDE DEF none
    <3>3. /\ DOMAIN stack'[f] = 1 .. Len(none) + Len(stack[f]) - 1
          /\ \A i \in 1 .. Len(none) + Len(stack[f]) - 1 : i > Len(none) =>
               /\ i - Len(none) + 1 \in 2 .. Len(stack[f])
               /\ stack'[f][i] = stack[f][i - Len(none) + 1]
      BY <1>3, <2>1, <3>1, GoesStack
    <3> QED BY <3>1, <3>2, <3>3
  <2>9. names \in Seq(AnswerNames) /\ log[f] \in Seq(AnyCall) /\ stack[f] \in Seq(AnyCall)
    BY <2>1, <2>4, <2>5, AnsweringFacts
  <2>10. AnswersWith(f, names, Append(log[f], call), stack'[f])
    <3> DEFINE s    == stack[f]
               n    == stack'[f]
               sent == log[f]
    <3>1. /\ s \in Seq(AnyCall) /\ s # <<>> /\ sent \in Seq(AnyCall)
          /\ AnswersWith(f, names, sent, s) /\ Len(sent) < Len(names)
          /\ call = Send(f, names[Len(sent) + 1])
          /\ DOMAIN n = 1 .. Len(s) - 1 /\ \A i \in 1 .. Len(s) - 1 : n[i] = s[i + 1]
      BY <2>1, <2>5, <2>6, <2>8, <2>9
    <3>2. call \in AnyCall
      BY <2>1
    <3> HIDE DEF s, n, sent, call
    <3>3. AnswersWith(f, names, Append(sent, call), n)
      BY <2>9, <3>1, <3>2, SendAnswering
    <3> QED BY <3>3 DEF sent, n
  <2>11. AnswersWith(f, names, log'[f], stack'[f]) /\ input'[f] = input[f]
    BY <1>1, <2>2, <2>10
  <2> QED BY <2>11 DEF Answering, AnswersWith
<1>5. CASE NextIs(f, "castto")
  <2>1. call[1] = "castto" /\ stack[f] # <<>> /\ UNCHANGED log
    BY <1>2, <1>3, <1>5, HeadFacts
  <2>2. CASE Goes(f, <<>>)
    <3> DEFINE none == <<>>
    <3>1. /\ none \in Seq(PlainCall \cup CastCall) /\ Goes(f, none)
          /\ \A i \in 1 .. Len(none) : none[i] \in Silent
      BY <2>2
    <3> HIDE DEF none
    <3> QED BY <1>1, <1>5, <2>1, <3>1, SilentGoes
  <2>3. CASE Unwind(f, "session")
    <3>1. /\ stack' \in [Threads -> Seq(AnyCall)] /\ stack'[f] # <<>>
          /\ \A i \in DOMAIN stack'[f] : \E j \in DOMAIN stack[f] : stack'[f][i] = stack[f][j]
      BY <1>3, <2>1, <2>3, UnwindStack
    <3> SUFFICES ASSUME Counts(f)' PROVE Answering(f)'
      BY <3>1 DEF AnswersOf
    <3>2. (Answering(f) \/ Pinging(f) \/ Throwing(f)) /\ input[f] \in DOMAIN Answers
      BY <1>1, <2>1, StillCounts
    <3>3. PICK names \in Answers[input[f]] :
             AnswersWith(f, names, log[f], stack[f]) /\ Len(log[f]) = Len(names)
      BY <1>5, <3>2, NextOfAnswer
    <3>4. names \in Seq(AnswerNames) /\ log[f] \in Seq(AnyCall) /\ stack[f] \in Seq(AnyCall)
      BY <2>1, <3>2, <3>3, AnsweringFacts
    <3>5. stack'[f] \in Seq(AnyCall)
      BY <1>3, <3>1
    <3>6. AnswersWith(f, names, log[f], stack'[f])
      BY <3>1, <3>3, <3>4, <3>5, UnwindAnswering
    <3>7. AnswersWith(f, names, log'[f], stack'[f]) /\ input'[f] = input[f]
      BY <1>1, <2>1, <3>6
    <3> QED BY <3>7 DEF Answering, AnswersWith
  <2> QED BY <1>2, <2>2, <2>3
<1> QED BY <1>1, <1>4, <1>5

LEMMA BroadcastAnswers ==
  ASSUME IInv, NEW f \in Fds, AnswersOf(f), BroadcastStep(f)
  PROVE  AnswersOf(f)'
<1>1. UNCHANGED <<input, log, away>> /\ f \in Threads
  BY LoopIsNoClient DEF BroadcastStep
<1>2. /\ NextIs(f, "broadcast") \/ NextIs(f, "cast")
      /\ \E calls : Goes(f, calls) /\ Casting(f, calls)
  BY <1>1, BroadcastGoes
<1>3. PICK calls : Goes(f, calls) /\ Casting(f, calls)
  BY <1>2, Zenon
<1>4. /\ calls \in Seq(PlainCall \cup CastCall)
      /\ \A i \in 1 .. Len(calls) : calls[i] \in Silent
  BY <1>3 DEF Casting, Silent
<1> QED BY <1>1, <1>2, <1>3, <1>4, SilentGoes

\* A request that threw is no longer counted.
LEMMA ThrowAnswers ==
  ASSUME IInv, NEW f \in Fds, AnswersOf(f), ThrowStep(f)
  PROVE  AnswersOf(f)'
<1> DEFINE call == Head(stack[f])
<1>1. NextIs(f, "throw") /\ Unwind(f, call[2]) /\ Records(f, call)
  BY DEF ThrowStep
<1>2. /\ f \in Threads /\ stack \in [Threads -> Seq(AnyCall)] /\ log \in [Threads -> Seq(AnyCall)]
      /\ StackInv
  BY LoopIsNoClient DEF IInv, TypeInv
<1>3. call[1] = "throw" /\ call \in AnyCall /\ stack[f] # <<>>
  BY <1>1, <1>2, HeadFacts
<1>4. stack'[f] # <<>>
  BY <1>1, <1>2, <1>3, UnwindStack
<1>5. log'[f] = Append(log[f], call)
  BY <1>1, <1>2 DEF Records
<1> HIDE DEF call
<1>6. Len(log[f]) + 1 \in DOMAIN log'[f] /\ log'[f][Len(log[f]) + 1] = call
  BY <1>2, <1>3, <1>5
<1>7. ~Counts(f)'
  BY <1>3, <1>6 DEF Counts
<1> QED BY <1>4, <1>7 DEF AnswersOf

LEMMA RequestAnswers ==
  ASSUME IInv, NEW f \in Fds, AnswersOf(f), RequestStep(f)
  PROVE  AnswersOf(f)'
<1> DEFINE none == <<>>
<1>1. /\ UNCHANGED <<input, log, away>> /\ Goes(f, none)
      /\ NextIs(f, "endtry") \/ NextIs(f, "request")
  BY DEF RequestStep
<1>2. /\ none \in Seq(PlainCall \cup CastCall)
      /\ \A i \in 1 .. Len(none) : none[i] \in Silent
  OBVIOUS
<1> HIDE DEF none
<1> QED BY <1>1, <1>2, SilentGoes

LEMMA ReturnAnswers ==
  ASSUME IInv, NEW f \in Fds, AnswersOf(f), ReturnStep(f)
  PROVE  AnswersOf(f)'
<1>1. f \in Threads /\ input \in [Threads -> Inputs] /\ log \in [Threads -> Seq(AnyCall)]
  BY LoopIsNoClient DEF IInv, TypeInv
<1>2. input'[f] = "none" /\ log'[f] = <<>>
  BY <1>1 DEF ReturnStep
<1>3. "none" \notin DOMAIN Answers
  BY AnswerTypes, Zenon
<1> QED BY <1>2, <1>3 DEF AnswersOf, Counts

\* A session is begun or ended by no request that is counted.
LEMMA SessionAnswers ==
  ASSUME IInv, NEW f \in Fds, AnswersOf(f), InitStep(f) \/ EndSessionStep(f)
  PROVE  AnswersOf(f)'
<1>1. f \in Threads /\ TypeInv /\ StackInv /\ stack \in [Threads -> Seq(AnyCall)]
  BY LoopIsNoClient DEF IInv, TypeInv
<1>2. UNCHANGED <<input, log>>
  BY DEF InitStep, EndSessionStep
<1>3. PICK kind \in {"init", "end"} : NextIs(f, kind)
  BY DEF InitStep, EndSessionStep
<1>4. PICK calls \in Seq(PlainCall) : Goes(f, calls) /\ \E fd, st : Becomes(fd, st)
  <2>1. CASE InitStep(f)
    BY <1>1, <2>1, InitGoes
  <2>2. CASE EndSessionStep(f)
    BY <2>2, EmptySeq DEF EndSessionStep
  <2> QED BY <2>1, <2>2
<1>5. stack[f] # <<>> /\ Head(stack[f])[1] # "return"
  BY <1>1, <1>3, HeadFacts
<1>6. stack'[f] # <<>>
  <2>1. calls \in Seq(PlainCall \cup CastCall)
    OBVIOUS
  <2> QED BY <1>1, <1>4, <1>5, <2>1, GoesStack
<1> SUFFICES ASSUME Counts(f)' PROVE FALSE
  BY <1>6 DEF AnswersOf
<1>7. away[f] \subseteq away'[f]
  <2>1. input[f] # "none"
    BY <1>1, <1>5 DEF IInv, CastInv, StayersActive
  <2> QED BY <1>1, <1>4, <2>1 DEF Becomes, Without
<1>8. (Answering(f) \/ Pinging(f) \/ Throwing(f)) /\ input[f] \in DOMAIN Answers
  BY <1>2, <1>5, <1>7, StillCounts
<1> QED BY <1>3, <1>8, NextOfAnswer

\* A ping is answered once it has kept the session alive.
LEMMA NotifyAnswers ==
  ASSUME IInv, NEW f \in Fds, AnswersOf(f), NotifyStep(f)
  PROVE  AnswersOf(f)'
<1> DEFINE fd   == Head(stack[f])[2]
           none == <<>>
<1>1. f \in Threads /\ TypeInv /\ StackInv /\ stack \in [Threads -> Seq(AnyCall)]
  BY LoopIsNoClient DEF IInv, TypeInv
<1>2. NextIs(f, "notify") /\ UNCHANGED <<input, log>>
  BY DEF NotifyStep
<1>3. \/ sessions[fd] = "none" /\ Unwind(f, "session") /\ UNCHANGED away
      \/ Goes(f, none) /\ \E st : Becomes(fd, st)
  BY DEF NotifyStep
<1>4. none \in Seq(PlainCall \cup CastCall) /\ Len(none) = 0
  OBVIOUS
<1> HIDE DEF none
<1>5. stack[f] # <<>> /\ Head(stack[f])[1] = "notify"
  BY <1>1, <1>2, HeadFacts
<1>6. stack'[f] # <<>>
  BY <1>1, <1>3, <1>4, <1>5, GoesStack, UnwindStack
<1> SUFFICES ASSUME Counts(f)' PROVE Answering(f)'
  BY <1>6 DEF AnswersOf
<1>7. away[f] \subseteq away'[f]
  <2>1. input[f] # "none"
    BY <1>1, <1>5 DEF IInv, CastInv, StayersActive
  <2> QED BY <1>1, <1>3, <2>1 DEF Becomes, Without
<1>8. /\ Answering(f) \/ Pinging(f) \/ Throwing(f)
      /\ input[f] \in DOMAIN Answers /\ sessions[f] = "active"
  BY <1>2, <1>5, <1>7, StillCounts
<1>9. ~Throwing(f)
  BY <1>5 DEF Throwing
<1>10. ~Answering(f)
  <2> SUFFICES ASSUME NEW names \in Answers[input[f]], AnswersWith(f, names, log[f], stack[f])
               PROVE  FALSE
    BY DEF Answering
  <2> DEFINE call == Head(stack[f])
  <2>1. (\E name : Owes(f, call, name)) \/ call \in Silent
    BY <1>5, <1>8, AnsweringFacts
  <2>2. call[1] = "notify"
    BY <1>5
  <2> HIDE DEF call
  <2> QED BY <2>1, <2>2, OwesKinds, SilentKinds
<1>11. /\ input[f] = "PING" /\ log[f] = <<>> /\ Len(stack[f]) = 3
       /\ stack[f][1] = Notify(f) /\ stack[f][2] = Send(f, "pong") /\ stack[f][3] = Return
  BY <1>8, <1>9, <1>10 DEF Pinging
<1>12. Goes(f, none)
  <2>1. fd = f
    <3>1. Head(stack[f]) = stack[f][1]
      BY <1>1, <1>2, HeadFacts
    <3> QED BY <1>11, <3>1 DEF Notify
  <2> QED BY <1>3, <1>8, <2>1
<1> DEFINE names == <<"pong">>
           n     == stack'[f]
<1>13. DOMAIN n = 1 .. 2 /\ n[1] = Send(f, "pong") /\ n[2] = Return
  <2>1. /\ DOMAIN n = 1 .. Len(none) + Len(stack[f]) - 1
        /\ \A i \in 1 .. Len(none) + Len(stack[f]) - 1 : i > Len(none) =>
             n[i] = stack[f][i - Len(none) + 1]
    BY <1>1, <1>4, <1>5, <1>12, GoesStack
  <2>2. DOMAIN n = 1 .. 2 /\ \A i \in 1 .. 2 : n[i] = stack[f][i + 1]
    BY <1>4, <1>11, <2>1
  <2> HIDE DEF n
  <2>3. n[1] = stack[f][2] /\ n[2] = stack[f][3]
    BY <2>2
  <2> QED BY <1>11, <2>2, <2>3
<1>14. names \in Answers[input[f]]
  BY <1>11, AnswerValues, Zenon
<1>15. AnswersWith(f, names, <<>>, n)
  <2>1. Len(names) = 1 /\ names[1] = "pong"
    OBVIOUS
  <2>3. Owes(f, n[1], "pong") /\ n[2] \in Silent
    BY <1>13 DEF Owes, Silent, OnLoop
  <2>4. Len(<<>>) = 0 /\ DOMAIN <<>> = {}
    OBVIOUS
  <2>5. \A i \in 1 .. 2 : i = 1 \/ i = 2
    OBVIOUS
  <2> HIDE DEF names, n
  <2> QED BY <1>13, <2>1, <2>3, <2>4, <2>5 DEF AnswersWith
<1>16. AnswersWith(f, names, log'[f], stack'[f]) /\ input'[f] = input[f]
  BY <1>2, <1>11, <1>15
<1> HIDE DEF names, n
<1> QED BY <1>14, <1>16 DEF Answering, AnswersWith

\* A request begins with the calls that promise its answers.
LEMMA BeginAnswers ==
  ASSUME IInv, NEW f \in Fds, AnswersOf(f), Idle(f), NEW type, NEW calls \in Seq(PlainCall),
         Begin(f, type, calls), type \in DOMAIN Answers => Promised(f, type, calls)
  PROVE  AnswersOf(f)'
<1> DEFINE n == Append(calls, Return)
<1>1. /\ f \in Threads /\ stack \in [Threads -> Seq(AnyCall)] /\ input \in [Threads -> Inputs]
      /\ stack[f] = <<>>
  BY LoopIsNoClient DEF IInv, TypeInv, Idle
<1>2. log[f] = <<>> /\ log' = log
  BY <1>1 DEF AnswersOf, Begin
<1>3. stack'[f] = n /\ input'[f] = type
  BY <1>1 DEF Begin
<1>4. /\ Len(calls) \in Nat /\ n # <<>> /\ DOMAIN n = 1 .. Len(calls) + 1
      /\ \A i \in 1 .. Len(calls) : n[i] = calls[i]
      /\ n[Len(calls) + 1] = Return
  OBVIOUS
<1>5. Return \in Silent
  BY DEF Silent, OnLoop
<1> SUFFICES ASSUME Counts(f)', type \in DOMAIN Answers
             PROVE  Answering(f)' \/ Pinging(f)' \/ Throwing(f)'
  BY <1>3, <1>4 DEF AnswersOf, Counts
<1>6. CASE calls # <<>> /\ calls[1][1] = "throw"
  <2>1. n[1] = calls[1] /\ Head(n) = n[1]
    BY <1>4, <1>6
  <2> QED BY <1>3, <1>6, <2>1 DEF Throwing
<1>7. CASE type = "PING" /\ calls = <<Notify(f), Send(f, "pong")>>
  <2>1. Len(calls) = 2 /\ calls[1] = Notify(f) /\ calls[2] = Send(f, "pong") /\ Len(n) = 3
    BY <1>7
  <2> HIDE DEF n
  <2>2. n[1] = Notify(f) /\ n[2] = Send(f, "pong") /\ n[3] = Return
    BY <1>4, <2>1
  <2> QED BY <1>2, <1>3, <1>7, <2>1, <2>2 DEF Pinging
<1>8. CASE \E names \in Answers[type] :
             /\ Len(names) <= Len(calls)
             /\ \A i \in 1 .. Len(calls) : /\ i <= Len(names) => Owes(f, calls[i], names[i])
                                           /\ i > Len(names)  => calls[i] \in Silent
  <2>1. PICK names \in Answers[type] :
             /\ Len(names) <= Len(calls)
             /\ \A i \in 1 .. Len(calls) : /\ i <= Len(names) => Owes(f, calls[i], names[i])
                                           /\ i > Len(names)  => calls[i] \in Silent
    BY <1>8
  <2>2. Len(names) \in Nat
    BY AnswersSeq
  <2> HIDE DEF n
  <2>3. ASSUME NEW i \in DOMAIN n
        PROVE  /\ 0 + i <= Len(names) => Owes(f, n[i], names[0 + i])
               /\ 0 + i > Len(names) => n[i] \in Silent
    <3>1. i \in Nat /\ 0 + i = i
      BY <1>4
    <3>2. CASE i = Len(calls) + 1
      <4>1. ~(i <= Len(names))
        BY <1>4, <2>1, <2>2, <3>2
      <4> QED BY <1>4, <1>5, <3>1, <3>2, <4>1
    <3>3. CASE i # Len(calls) + 1
      <4>1. i \in 1 .. Len(calls)
        BY <1>4, <3>3
      <4> QED BY <1>4, <2>1, <3>1, <4>1
    <3> QED BY <3>2, <3>3
  <2>4. AnswersWith(f, names, <<>>, n)
    <3>1. Len(<<>>) = 0 /\ DOMAIN <<>> = {} /\ 0 <= Len(names)
      BY <2>2
    <3> QED BY <2>3, <3>1 DEF AnswersWith
  <2>5. AnswersWith(f, names, log'[f], stack'[f])
    BY <1>2, <1>3, <2>4
  <2> QED BY <1>3, <2>1, <2>5 DEF Answering, AnswersWith
<1> QED BY <1>6, <1>7, <1>8 DEF Promised

LEMMA ClientAnswers ==
  ASSUME IInv, NEW f \in Fds, AnswersOf(f), ClientSends(f)
  PROVE  AnswersOf(f)'
<1>1. Idle(f)
  BY DEF ClientSends
<1>2. ASSUME NEW type \in DOMAIN ClientMessages[f], NEW calls \in ClientMessages[f][type],
             Begin(f, type, calls)
      PROVE  AnswersOf(f)'
  <2>1. calls \in Seq(PlainCall)
    BY MessagesPlain
  <2>2. type \in DOMAIN Answers => Promised(f, type, calls)
    BY RequestsPromise
  <2> QED BY <1>1, <1>2, <2>1, <2>2, BeginAnswers
<1>3. ASSUME NEW type \in DOMAIN ProcessClientRequest[f],
             NEW calls \in ProcessClientRequest[f][type],
             Begin(f, type, calls \o Effect("m_client_rq_count"))
      PROVE  AnswersOf(f)'
  <2>1. calls \in Seq(PlainCall)
    BY RequestsPlain
  <2>2. calls \o Effect("m_client_rq_count") = calls
    BY <2>1, Effects, ConcatEmpty
  <2>3. type \in DOMAIN Answers => Promised(f, type, calls)
    BY RequestsPromise
  <2>4. Begin(f, type, calls)
    BY <1>3, <2>2
  <2> QED BY <1>1, <2>1, <2>3, <2>4, BeginAnswers
<1> QED BY <1>2, <1>3, Zenon DEF ClientSends

\* A step changes the calls, the input and the log of its own thread only, and
\* forgets nobody who was away of another's.
LEMMA StepOfOther ==
  ASSUME IInv, NEW t \in Threads, Step(t), NEW f \in Fds, f # t
  PROVE  /\ stack'[f] = stack[f] /\ log'[f] = log[f] /\ input'[f] = input[f]
         /\ input[f] # "none" => away[f] \subseteq away'[f]
<1>1. /\ f \in Threads /\ f # Loop
      /\ stack \in [Threads -> Seq(AnyCall)] /\ log \in [Threads -> Seq(AnyCall)]
      /\ input \in [Threads -> Inputs] /\ away \in [Threads -> SUBSET Fds]
  BY LoopIsNoClient DEF IInv, TypeInv
<1>2. \A calls : Goes(t, calls) => stack'[f] = stack[f]
  BY <1>1 DEF Goes
<1>3. \A why : Unwind(t, why) => stack'[f] = stack[f]
  BY <1>1 DEF Unwind
<1>4. \A what : Records(t, what) => log'[f] = log[f]
  BY <1>1 DEF Records
<1>5. \A fd, st : Becomes(fd, st) => (input[f] # "none" => away[f] \subseteq away'[f])
  BY <1>1 DEF Becomes, Without
<1>6. CASE Call(t)
  BY <1>2, <1>6 DEF Call
<1>7. CASE SendMessage(t)
  BY <1>2, <1>3, <1>4, <1>7 DEF SendMessage
<1>8. CASE BroadcastStep(t)
  BY <1>2, <1>8 DEF BroadcastStep
<1>9. CASE ThrowStep(t)
  BY <1>3, <1>4, <1>9 DEF ThrowStep
<1>10. CASE RequestStep(t)
  BY <1>2, <1>10 DEF RequestStep
<1>11. CASE ReturnStep(t)
  BY <1>1, <1>2, <1>11 DEF ReturnStep
<1>12. CASE InitStep(t)
  BY <1>2, <1>5, <1>12 DEF InitStep
<1>13. CASE EndSessionStep(t)
  BY <1>2, <1>5, <1>13 DEF EndSessionStep
<1>14. CASE NotifyStep(t)
  BY <1>2, <1>3, <1>5, <1>14 DEF NotifyStep
<1>15. CASE t = Loop /\ ValidateClientsStep
  BY <1>2, <1>15 DEF ValidateClientsStep
<1> QED
  BY <1>6, <1>7, <1>8, <1>9, <1>10, <1>11, <1>12, <1>13, <1>14, <1>15 DEF Step

LEMMA InitAnswers == Init => AnswerInv
<1>1. ASSUME Init, NEW f \in Fds PROVE stack[f] = <<>> /\ log[f] = <<>>
  BY <1>1, LoopIsNoClient DEF Init
<1> QED BY <1>1 DEF AnswerInv, AnswersOf, Counts

LEMMA NextAnswers == IInv /\ AnswerInv /\ [Next]_vars => AnswerInv'
<1> SUFFICES ASSUME IInv, AnswerInv, [Next]_vars, NEW f \in Fds PROVE AnswersOf(f)'
  BY DEF AnswerInv
<1>0. /\ AnswersOf(f) /\ f \in Threads /\ f # Loop /\ f # Ipc
      /\ stack \in [Threads -> Seq(AnyCall)] /\ log \in [Threads -> Seq(AnyCall)]
      /\ input \in [Threads -> Inputs] /\ away \in [Threads -> SUBSET Fds]
  BY LoopIsNoClient DEF AnswerInv, IInv, TypeInv
<1>1. ASSUME NEW t \in Threads, Step(t) PROVE AnswersOf(f)'
  <2>1. CASE f # t
    BY <1>0, <1>1, <2>1, StepOfOther, OthersAnswer
  <2>2. CASE f = t
    BY <1>0, <1>1, <2>2, CallAnswers, SendMessageAnswers, BroadcastAnswers, ThrowAnswers,
       RequestAnswers, ReturnAnswers, SessionAnswers, NotifyAnswers DEF Step
  <2> QED BY <2>1, <2>2
<1>2. ASSUME NEW t \in Threads, t # f, NEW what, NEW calls, Begin(t, what, calls)
      PROVE  AnswersOf(f)'
  <2>1. /\ stack'[f] = stack[f] /\ log'[f] = log[f] /\ input'[f] = input[f]
        /\ away'[f] = away[f]
    BY <1>0, <1>2 DEF Begin
  <2> QED BY <1>0, <2>1, OthersAnswer
<1>3. ASSUME NEW fd \in Fds, ClientSends(fd) PROVE AnswersOf(f)'
  <2>1. CASE fd = f
    BY <1>0, <1>3, <2>1, ClientAnswers
  <2>2. CASE fd # f
    <3>1. \E what, calls : Begin(fd, what, calls)
      BY <1>3, Zenon DEF ClientSends
    <3> QED BY <1>2, <2>2, <3>1, LoopIsNoClient
  <2> QED BY <2>1, <2>2
<1>4. ASSUME NEW fd \in Fds, Expire(fd) PROVE AnswersOf(f)'
  <2>1. /\ stack' = stack /\ log' = log /\ input' = input
        /\ input[f] # "none" => away[f] \subseteq away'[f]
    BY <1>0, <1>4 DEF Expire, Without
  <2> QED BY <1>0, <2>1, OthersAnswer
<1>5. CASE PeerSends
  BY <1>0, <1>2, <1>5, LoopIsNoClient, Zenon DEF PeerSends
<1>6. CASE LoopPasses
  BY <1>0, <1>2, <1>6, LoopIsNoClient, Zenon DEF LoopPasses
<1>7. CASE GetRequest \/ UNCHANGED vars
  <2>1. UNCHANGED <<stack, log, input, away>>
    BY <1>7 DEF GetRequest, vars
  <2> QED BY <1>0, <2>1, OthersAnswer
<1> QED BY <1>1, <1>3, <1>4, <1>5, <1>6, <1>7 DEF Next

-----------------------------------------------------------------------------
(* The theorems.                                                           *)

\* The state of the dispatch keeps its types: whatever the handlers raise, the
\* stacks hold only calls of the known shapes, of events with a code of the
\* table, and the exceptions are those that the handlers name.
THEOREM TypeCorrect == Spec => []TypeInv
<1>1. IInv => TypeInv
  BY DEF IInv
<1> QED BY <1>1, InitIInv, NextIInv, PTL DEF Spec

\* For any clients and any number of inputs: no send of the controller's loop
\* finds its session missing, because what the loop raises is answered by
\* broadcasts alone, a broadcast sends at once to a session it has seen, and
\* only the loop's own sweep takes sessions away (Broadcast, SendMessage,
\* ValidateClients).
THEOREM LoopOutlivesSessionsCorrect == Spec => []LoopOutlivesSessions
<1>1. IInv => LoopOutlivesSessions
  BY DEF IInv, LoopInv, LoopOutlivesSessions
<1> QED BY <1>1, InitIInv, NextIInv, PTL DEF Spec

\* For any clients and any number of inputs: a broadcast that comes to its end
\* has been sent to all that were active since its thread began (Broadcast).
THEOREM StayersHearAllCorrect == Spec => []StayersHearAll
<1>1. ASSUME IInv PROVE StayersHearAll
  <2> SUFFICES ASSUME NEW t \in Threads, NextIs(t, "cast"), Ahead(Head(stack[t])[2]) = {},
                      NEW f \in Fds \ away[t]
               PROVE  f \in Head(stack[t])[4]
    BY DEF StayersHearAll
  <2> DEFINE call == Head(stack[t])
  <2>1. /\ call[1] = "cast" /\ call \in AnyCall /\ stack[t] # <<>> /\ call = stack[t][1]
        /\ stack[t] \in Seq(AnyCall)
    BY <1>1, HeadFacts
  <2>2. call[2] \in Nat
    BY <2>1, PlainKinds, CastKinds, ReturnKind DEF AnyCall
  <2>3. 1 \in DOMAIN stack[t]
    BY <2>1
  <2>4. sessions[f] = "active"
    BY <1>1, <2>1 DEF IInv, CastInv, StayersActive
  <2>5. f <= call[2] => f \in call[4]
    BY <1>1, <2>1, <2>3 DEF IInv, CastInv, PassedAreTold
  <2>6. f \in Nat /\ ~(f > call[2])
    BY <2>4, FdsAssumption DEF Ahead, Active
  <2> HIDE DEF call
  <2>7. f <= call[2]
    BY <2>2, <2>6
  <2> QED BY <2>5, <2>7 DEF call
<1> QED BY <1>1, InitIInv, NextIInv, PTL DEF Spec

\* For any clients and any number of inputs: a client whose request is handled
\* to its end while its session stays has been sent the answers of its type in
\* their order, and its thread has sent nobody else any (ProcessClientRequest,
\* the table of handlers, SendMessage).
THEOREM AnsweredInFullCorrect == Spec => []AnsweredInFull
<1>1. ASSUME IInv, AnswerInv PROVE AnsweredInFull
  <2> SUFFICES ASSUME NEW f \in Fds, stack[f] = <<Return>>, input[f] \in DOMAIN Answers,
                      f \notin away[f], \A i \in DOMAIN log[f] : log[f][i][1] = "send"
               PROVE  /\ \A i \in DOMAIN log[f] : log[f][i][2] = f
                      /\ [i \in DOMAIN log[f] |-> log[f][i][3]] \in Answers[input[f]]
    BY DEF AnsweredInFull
  <2>1. stack[f] # <<>> /\ Head(stack[f]) = Return /\ Return[1] = "return"
    BY DEF Return
  <2>2. AnswersOf(f) /\ Counts(f)
    BY <1>1, <2>1 DEF AnswerInv, Counts
  <2>3. ~Throwing(f)
    BY <2>1 DEF Throwing
  <2>4. ~Pinging(f)
    <3>1. Len(stack[f]) = 1
      OBVIOUS
    <3> QED BY <3>1 DEF Pinging
  <2>5. PICK names \in Answers[input[f]] : AnswersWith(f, names, log[f], stack[f])
    BY <2>2, <2>3, <2>4 DEF AnswersOf, Answering
  <2>6. /\ names \in Seq(AnswerNames) /\ log[f] \in Seq(AnyCall)
        /\ \/ Owes(f, Return, names[Len(log[f]) + 1])
           \/ Len(log[f]) = Len(names)
    BY <1>1, <2>1, <2>5, AnsweringFacts
  <2>7. Len(log[f]) = Len(names)
    BY <2>1, <2>6, OwesKinds
  <2>8. DOMAIN log[f] = 1 .. Len(names) /\ DOMAIN names = 1 .. Len(names)
    BY <2>6, <2>7
  <2>9. \A i \in DOMAIN log[f] : log[f][i] = Send(f, names[i])
    BY <2>5 DEF AnswersWith
  <2>10. \A i \in DOMAIN log[f] : log[f][i][2] = f /\ log[f][i][3] = names[i]
    BY <2>9 DEF Send
  <2>11. [i \in DOMAIN log[f] |-> log[f][i][3]] = names
    BY <2>6, <2>8, <2>10
  <2> QED BY <2>5, <2>10, <2>11
<1>2. IInv /\ AnswerInv => AnsweredInFull
  BY <1>1
<1> QED BY <1>2, InitIInv, NextIInv, InitAnswers, NextAnswers, PTL DEF Spec

=============================================================================
