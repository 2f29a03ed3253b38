------------------------------ MODULE Payloads ------------------------------
(***************************************************************************)
(* The sequences of texts in which posts, tasks, files and requests travel *)
(* between the parts of the server, its bots and its clients, and the      *)
(* records they are turned into (task.hpp, scheduler.cpp IPCMessage,       *)
(* helper.cpp, ipc/manager.hpp, platform.cpp, platform_utils.cpp).  Texts  *)
(* are those of Messages; At(p, i) is the text at the C++ index i.         *)
(***************************************************************************)
EXTENDS Messages

CONSTANTS Now,       \* the time of day, as a text
          NewUUID    \* a fresh identifier
ASSUME FreshTexts == Now # <<>> /\ NewUUID # <<>>

At(payload, i) == payload[i + 1]
Or(text, default) == IF text = <<>> THEN default ELSE text

\* The text at an index a shorter payload does not have.
AtOr(payload, i, default) == IF Len(payload) > i THEN At(payload, i) ELSE default

NoOrigin       == Itoa(2)    \* NO_ORIGIN_PLATFORM_EXISTS
DefaultCommand == Itoa(0)
InfoName       == <<73>>     \* the name of IPC_PLATFORM_INFO
Yes            == <<121>>

-----------------------------------------------------------------------------
(* Platform posts.                                                         *)

IsValid(post) == post.pid # <<>> /\ post.content # <<>>

GetPayload(post) ==
  << post.name, post.id, post.user, post.time, post.content, post.urls, post.repost,
     post.method, post.args, post.cmd, post.status >>

\* Where the texts of a post are in its payload.
PostIndex ==
  [ platform |-> 0, id |-> 1, user |-> 2, time |-> 3, content |-> 4, urls |-> 5, repost |-> 6,
    method |-> 7, args |-> 8, cmd |-> 9, status |-> 10 ]

\* The last ones may be missing.
PostAt(payload, indexes) ==
  LET Of(name, default) == AtOr(payload, indexes[name], default)
  IN [ pid |-> <<>>, o_pid |-> NoOrigin, id |-> Or(Of("id", <<>>), NewUUID),
       user |-> Of("user", <<>>), time |-> Or(Of("time", <<>>), Now),
       content |-> Of("content", <<>>), urls |-> Of("urls", <<>>), repost |-> Of("repost", <<>>),
       name |-> Of("platform", <<>>), args |-> Of("args", <<>>), method |-> Of("method", <<>>),
       cmd |-> Of("cmd", DefaultCommand), status |-> Of("status", <<>>) ]

FromPayload(payload) == PostAt(payload, PostIndex)

EmptyPost ==
  [ pid |-> <<>>, o_pid |-> NoOrigin, id |-> <<>>, user |-> <<>>, time |-> <<>>, content |-> <<>>,
    urls |-> <<>>, repost |-> <<>>, name |-> <<>>, args |-> <<>>, method |-> <<>>,
    cmd |-> DefaultCommand, status |-> <<>> ]

Dummy(id, time, option) ==
  [ EmptyPost EXCEPT !.id = id, !.pid = Itoa(0), !.time = time, !.args = ToJSONArray(<< option >>) ]

\* What a bot sends, as the IPC manager hands it on: the arguments of a post
\* are in the place of its method, and there are none.
PostPayload(m) == << m.platform, m.id, m.user, <<>>, m.content, m.urls, m.repost, m.args >>
RequestPayload(m) == << m.platform, m.id, m.user, m.content, m.args >>
InfoPayload(m) == << InfoName, m.platform, m.id, m.type, m.info >>
ErrorPayload(m) == << m.name, m.id, m.user, m.error, <<>> >>

\* Slip: the message and the arguments are read in each other's place.
RequestIndexSwapped == [ platform |-> 0, id |-> 1, user |-> 2, content |-> 4, args |-> 3 ]

\* What OnPlatformRequest, OnPlatformError and on_platform_info take of it.
RequestIndex == [ platform |-> 0, id |-> 1, user |-> 2, content |-> 3, args |-> 4 ]
ErrorIndex   == [ name |-> 0, id |-> 1, user |-> 2, error |-> 3 ]
InfoIndex    == [ platform |-> 0, type |-> 3, info |-> 4 ]

ReadAt(payload, indexes) == [ name \in DOMAIN indexes |-> At(payload, indexes[name]) ]

\* What a bot is sent: a post at the indexes of a post, and a request or an
\* event, which begin with the name of their type, at indexes of their own.
IPCIndex ==
  [ platform |-> 1, id |-> 2, user |-> 3, time |-> 4, content |-> 5, urls |-> 6, repost |-> 7,
    args |-> 9, cmd |-> 10 ]
EventIndex == [ platform |-> 1, id |-> 2, type |-> 3, info |-> 4 ]

PlatformMessage(args, indexes) ==
  LET read == ReadAt(args, indexes)
  IN [ read EXCEPT !.repost = (@ = Yes), !.cmd = Stoi(@) ]

\* The post saved for a platform that repeats it, and for an affiliate.
Repost(post, platform_id, user) ==
  [ post EXCEPT !.pid = platform_id, !.o_pid = post.pid, !.user = user,
                !.args = ToJSONArray(<< post.args >>), !.cmd = DefaultCommand, !.status = <<>> ]

MakeAffiliatePost(user, affiliate_content, post) ==
  [ post EXCEPT !.id = NewUUID, !.o_pid = post.pid, !.user = user, !.repost = <<102>>,
                !.content = affiliate_content \o << 10 >> \o post.content,
                !.cmd = DefaultCommand, !.status = <<>> ]

MustRepost(s) == s \in { Itoa(1), <<116, 114, 117, 101>>, <<116>> }

-----------------------------------------------------------------------------
(* The environment file of a post keeps three of its texts; a token is     *)
(* read without its quotes and a space at either end, JSON with them.      *)

Stripped(text) ==
  LET t == SelectSeq(text, LAMBDA c : c # Quote)
      left == IF t # <<>> /\ Head(t) = 32 THEN Tail(t) ELSE t
  IN IF left # <<>> /\ Last(left) = 32 THEN Front(left) ELSE left

SavePlatformEnvFile(post) == [content |-> post.content, urls |-> post.urls, args |-> post.args]

GetArgsOperation(env) == CreateOperation(<<66>>, GetJSONArray(env.args))

PopulatePlatformPost(post, env) ==
  [ post EXCEPT !.content = Stripped(env.content), !.urls = Stripped(env.urls),
                !.args = GetArgsOperation(env) ]

\* A task turned into a post: its tokens in a fixed order.
ContentValue(c) ==
  c.header \o <<10>> \o c.description \o <<10, 10, 10>> \o c.requested_by_phrase \o <<32>>
    \o c.requested_by \o <<10, 10, 10>> \o c.promote_share \o <<10, 10>> \o c.link_bio
    \o <<10, 10>> \o c.hashtags

FileUrl(file) == <<70>> \o file \o <<62>>    \* file://name>

TaskKeys == { "description", "header", "hashtags", "link_bio", "requested_by",
              "requested_by_phrase", "promote_share", "user", "file_type", "direct_message" }

\* TaskParser
ParsedPost(task, platform_id, tokens) ==
  [ EmptyPost EXCEPT
      !.id = Itoa(task.task_id), !.time = task.datetime, !.name = task.name, !.pid = platform_id,
      !.repost = <<116, 114, 117, 101>>, !.user = tokens.user, !.content = ContentValue(tokens),
      !.urls = FlattenSeq([i \in DOMAIN task.filenames |-> FileUrl(task.filenames[i])]) ]

\* Platform::to_post: the tokens the flags name, and a flag of no use to a
\* post throws.
ToPost(task, flags, tokens, platform_id) ==
  IF ~(flags \subseteq TaskKeys) THEN "throws"
  ELSE ParsedPost(task, platform_id,
                  [ key \in TaskKeys |-> IF key \in flags THEN tokens[key] ELSE <<>> ])

-----------------------------------------------------------------------------
(* Requests to bots: type, platform, data, command, time, recurring,       *)
(* status, id, uuid, option; the last ones may be missing.                 *)

MaxUint32 == <<77>>   \* what a request without a command is given

\* The type is a number, or a name of more than two symbols; a request to stop
\* a poll is made without one, which throws.
MessageType(args, values) ==
  LET type == Head(args)
  IN CASE Len(type) > 2 -> IF type \in DOMAIN values THEN values[type] ELSE "throws"
       [] type = <<>> -> "throws"
       [] OTHER -> Stoi(type)

IPCMessage(args) ==
  [ platform |-> At(args, 1), data |-> At(args, 2), command |-> Or(At(args, 3), MaxUint32),
    time |-> Or(AtOr(args, 4, <<>>), Now), recurring |-> Or(AtOr(args, 5, <<>>), Itoa(0)),
    status |-> AtOr(args, 6, <<>>), id |-> AtOr(args, 7, <<>>),
    p_uuid |-> Or(AtOr(args, 8, <<>>), NewUUID), option |-> AtOr(args, 9, <<>>) ]

\* The payload of the event that asks the bot, with its type in front and
\* the request itself as an operation.
PlatformPayload(args, type_name, user, default_user, destination, codes) ==
  LET m == IPCMessage(args)
      op == CreateOperation(<<98>>, << m.command, m.data, default_user, Or(m.option, destination) >>)
  IN << type_name, m.platform, m.p_uuid, user, m.time, m.data, <<>>, <<102>>, <<98>>, op,
        codes[m.command] >>

\* The post the server asks Telegram to publish.
MakeIPCEvent(pid, user, command, data, arg) ==
  GetPayload([ EmptyPost EXCEPT !.pid = pid, !.id = NewUUID, !.user = user, !.time = Now,
                                !.content = data, !.name = <<84>>, !.args = arg,
                                !.method = <<98>>, !.cmd = Itoa(command) ])

-----------------------------------------------------------------------------
(* Files: a count, and four texts for each.                                *)

ToStringV(file) == << file.task_id, file.id, file.name, file.type >>

MetaDataToPayload(files) ==
  << Itoa(Len(files)) >> \o FlattenSeq([i \in DOMAIN files |-> ToStringV(files[i])])

PayloadToMetaData(data) ==
  [i \in 1 .. Stoi(At(data, 0)) |->
     [ task_id |-> At(data, 1 + (4 * (i - 1))), id |-> At(data, 2 + (4 * (i - 1))),
       name |-> At(data, 3 + (4 * (i - 1))), type |-> At(data, 4 + (4 * (i - 1))) ]]

-----------------------------------------------------------------------------
(* Tasks.                                                                  *)

\* The names of a task's files between colons.
FilesToString(filenames) ==
  LET all == FlattenSeq([i \in DOMAIN filenames |-> Append(filenames[i], Colon)])
  IN IF all = <<>> THEN <<>> ELSE Front(all)

Flag(b) == Itoa(IF b THEN 1 ELSE 0)

\* A task as the schedule a client asks for shows it.
ReadTask(task) ==
  << Itoa(task.task_id), task.name, task.datetime, task.flags, Itoa(task.completed),
     Itoa(task.recurring), Flag(task.notify), task.runtime, FilesToString(task.filenames) >>

StripSQuotes(text) == SelectSeq(text, LAMBDA c : c # 39)

EmptyTask ==
  [ task_id |-> 0, mask |-> 0, name |-> <<>>, datetime |-> <<>>, flags |-> <<>>, completed |-> 0,
    recurring |-> 0, notify |-> FALSE, runtime |-> <<>>, filenames |-> <<>>, env |-> <<>> ]

\* The task of a client's update: a type, the texts of ReadTask and the path
\* of its environment.  A payload of another size, or an application nobody
\* registered, gives the empty task.
TaskIndex ==
  [ id |-> 1, name |-> 2, time |-> 3, flags |-> 4, completed |-> 5, recurring |-> 6, notify |-> 7,
    runtime |-> 8, files |-> 9, envfile |-> 10 ]
PayloadSize == 11

ArgsToTask(args, masks) ==
  LET read == ReadAt(args, TaskIndex)
  IN IF Len(args) # PayloadSize \/ At(args, TaskIndex.name) \notin DOMAIN masks THEN EmptyTask
     ELSE [ EmptyTask EXCEPT
              !.task_id = Stoi(read.id), !.mask = masks[read.name], !.datetime = read.time,
              !.flags = read.flags, !.completed = Stoi(read.completed),
              !.recurring = Stoi(read.recurring), !.notify = read.notify = Itoa(1),
              !.runtime = StripSQuotes(read.runtime), !.env = read.envfile ]

\* A copy under another mask, which will be a task of its own.
CloneBasic(task, new_mask) ==
  [ EmptyTask EXCEPT !.datetime = task.datetime, !.flags = task.flags, !.runtime = task.runtime,
                     !.filenames = task.filenames,
                     !.mask = IF new_mask >= 0 THEN new_mask ELSE task.mask ]

\* The arguments of a decoded task, by the indexes its handler reads.
GenericIndexes == << "mask", "file_info", "time", "description", "is_video", "header", "user",
                     "recurring", "notify", "runtime" >>
IGIndexes == << "mask", "file_info", "time", "description", "hashtags", "requested_by",
                "requested_by_phrase", "promote_share", "link_bio", "is_video", "header", "user" >>

Argument(argv, indexes, name) == argv[CHOOSE i \in DOMAIN indexes : indexes[i] = name]

=============================================================================
