------------------------------ MODULE MCTexts ------------------------------
(* Messages, payloads and outputs of three texts that grow byte by byte;   *)
(* and, in other behaviours, the requests, configuration files and         *)
(* identifiers of MCTaskArguments.                                         *)
EXTENDS ResultParsers, JsonText

CONSTANTS MaxBytes,   \* bound: bytes in the three texts, together
          MaxSize, MaxLines, MaxIdBytes,                 \* bounds of MCTaskArguments
          TimestampLength, TwoTo8,                       \* as in TaskArguments
          INI_MAX_LINE, MAX_SECTION, MAX_NAME            \* as in Config

TheTime == <<49, 50>>
TheUUID == <<117, 117>>

VARIABLES texts,                        \* none where the others are looked at
          fields, uploads, lines, id    \* as in MCTaskArguments

Args == INSTANCE MCTaskArguments WITH texts <- fields, MaxBytes <- MaxIdBytes

Bytes == {0, 31, Quote, 39, 97, 169, 195}

Init == texts \in { << <<>>, <<>>, <<>> >>, <<>> } /\ Args!Init

Type ==
  /\ texts # <<>>
  /\ Len(texts[1]) + Len(texts[2]) + Len(texts[3]) < MaxBytes
  /\ \E i \in 1 .. 3, c \in Bytes : texts' = [texts EXCEPT ![i] = Append(@, c)]
  /\ UNCHANGED << fields, uploads, lines, id >>

Request == texts = <<>> /\ Args!Next /\ UNCHANGED texts

Spec == Init /\ [][Type \/ Request]_<<texts, fields, uploads, lines, id>>

-----------------------------------------------------------------------------
(* Messages.                                                               *)

a == texts[1]
b == texts[2]
c == texts[3]

\* Up to the first zero byte.
Cut(text) == SelectInSeq(text, LAMBDA byte : byte = 0)
Given(text) == IF Cut(text) = 0 THEN text ELSE SubSeq(text, 1, Cut(text) - 1)

App(name, data) == [mask |-> Itoa(1), name |-> name, path |-> <<47>>, data |-> data]

Number(n) == << "int", n >>
Of(text) == << "bytes", text >>

Generic ==
  << Number(7), Of(a), Of(b), Of(c), Number(1), Number(12), Of(c), Of(b), Number(3), Number(0), Of(a) >>
IG ==
  << Number(7), Of(a), Of(b), Of(c), Of(a), Of(b), Of(c), Of(a), Of(b), Number(0), Number(12),
     Of(c), Of(a) >>

Decodes(code, table, schema, indexes) ==
  LET field(name) == table[CHOOSE i \in DOMAIN schema : schema[i] = name]
      Shown(f) == IF f[1] = "int" THEN Itoa(f[2]) ELSE f[2]
      Right(d) ==
        /\ d[1] = "right" /\ Len(d[2]) = Len(indexes)
        /\ \A i \in DOMAIN indexes : Argument(d[2], indexes, indexes[i]) = Shown(field(indexes[i]))
  IN Right(DecodeMessage([code |-> code, table |-> table]))

Readable == \A i \in DOMAIN texts : Utf8(Given(texts[i]))

\* A message whose texts are UTF-8 is read as what it was written as: its
\* kind, its names and its arguments, up to a zero byte in each.  The fields
\* of a decoded task are where the handler of the task looks for them
\* (util.cpp Create*, Get*, Is*, DecodeMessage; generic.hpp, instagram.hpp).
MessagesReadBack ==
  texts # <<>> =>
  LET A == Given(a)
      B == Given(b)
      C == Given(c)
      operation == CreateOperation(a, << b, c >>)
      event     == CreateEvent(a, << b, c >>)
      message   == CreateMessage(a, b)
      session   == CreateSessionEvent(1, a, << <<b, c>> >>)
      apps      == CreateApplicationsMessage(a, << App(b, c), App(c, a) >>)
      lists     == CreateListsMessage(a, 1 :> << b >> @@ 2 :> << c, b >>)
      start     == Text(Object(Members(<< <<Name.token, a>>, <<Name.user, b>> >>)))
      Told(e, m) == e = m[2] /\ (IsSessionMessageEvent(e) <=> m[3] = "session")
                             /\ (IsCloseEvent(e) <=> m[3] = "close")
      Listed(args) == Texts(args[2][1][2]) = << B >> /\ Texts(args[2][2][2]) = << C, B >>
  IN /\ Readable =>
          /\ \A m \in { << operation, TRUE, FALSE >>, << event, FALSE, FALSE >>, << message, FALSE, TRUE >> } :
               (IsOperation(m[1]) <=> m[2]) /\ (IsMessage(m[1]) <=> m[3])
          /\ GetOperation(operation) = A
          /\ \A m \in { << operation, << B, C >> >>, << event, << B, C >> >>,
                        << apps, << Itoa(1), B, <<47>>, C, Itoa(1), C, <<47>>, A >> >> } :
               GetArgs(m[1]) = m[2]
          /\ CreateMaskedEvent(a, 1, << b, c >>) = event
          /\ \A m \in { << event, A, "other" >>, << CreateMaskEvent(a, 1, b), <<>>, "other" >>,
                        << session, Word.session, "session" >>,
                        << CreateEvent(Word.close, << a >>), Word.close, "close" >> } :
               Told(GetEvent(m[1]), m)
          /\ \A m \in { message, session, CreatePairsMessage(a, << <<b, c>> >>) } : GetMessage(m) = A
          /\ GetArgMap(CreateMapMessage(a, 2 :> c @@ 10 :> b)) = << << 2, C >>, << 10, B >> >>
          /\ GetMember(GetMember(Root(session), Name.info), B) = << "String", C >>
          /\ Listed(GetMember(Root(lists), Name.args))
          /\ GetAuth(start) = [ token |-> A, name |-> B ] /\ GetToken(start) = A
          /\ GetJSONArray(ToJSONArray(<< a, b >>)) = << A, B >>
     /\ Decodes(GenericCode, Generic, GenericSchema, GenericIndexes)
     /\ Decodes(IGCode, IG, IGSchema, IGIndexes)
     /\ DecodeMessage([code |-> MessageCode, table |-> << Number(7), Of(a) >>]) = << "left", a >>
     /\ IsPing(DecodeMessage([code |-> PingCode, table |-> <<>>])[2])

-----------------------------------------------------------------------------
(* Payloads.                                                               *)

Post == [ EmptyPost EXCEPT !.id = a, !.user = b, !.time = c, !.content = a, !.urls = b,
                           !.repost = <<116>>, !.name = c, !.args = b, !.method = a, !.cmd = c ]
Task == [ EmptyTask EXCEPT !.task_id = 12, !.name = a, !.datetime = b, !.flags = c, !.recurring = 3,
                           !.notify = TRUE, !.runtime = b, !.filenames = << a, c >> ]
Files == << [task_id |-> a, id |-> b, name |-> c, type |-> a],
            [task_id |-> c, id |-> a, name |-> b, type |-> b] >>

Message == [ platform |-> a, id |-> b, user |-> c, content |-> a, urls |-> b, repost |-> c,
             args |-> b, name |-> a, error |-> c, type |-> c, info |-> a ]
Same(read, names) == \A name \in names : read[name] = Message[name]
Tokens == [ key \in TaskKeys |-> b ]

\* A post, a file, a task and a request are the same after they have
\* travelled as a payload: identifiers and times that are missing are made
\* up, a client's update of a task loses its files and single quotes, and the
\* arguments of a post reach the bot of the platform that repeats it as the
\* one argument of an operation.  What a bot sends and is sent is read where
\* it was written, except the arguments of a post, which are taken for its
\* method, and the platform of an event, for which its type is taken (task.hpp PlatformPost, FileMetaData;
\* helper.cpp args_to_task; scheduler.cpp IPCMessage; platform_utils.cpp).
PayloadsReadBack ==
  texts # <<>> =>
  LET Fetched(post) ==
        /\ Utf8(Given(b)) => GetArgs(post.args) = << Given(b) >>
        /\ post.pid = Itoa(6) /\ post.o_pid = Itoa(5)
      Saved(post) == Fetched(PopulatePlatformPost(post, SavePlatformEnvFile(post)))
      Asked(asked, bot) ==
        /\ Readable => GetArgs(asked[10]) = << MaxUint32, Given(b), Given(b), Given(c) >>
        /\ asked[2] = a /\ asked[3] = NewUUID /\ asked[5] = IF c = <<>> THEN Now ELSE c
        /\ bot.platform = a /\ bot.user = a /\ bot.content = b /\ bot.args = asked[10] /\ bot.cmd = 3
      AskedOf(asked) == Asked(asked, PlatformMessage(asked, IPCIndex))
  IN /\ FromPayload(GetPayload(Post))
          = [ Post EXCEPT !.id = IF a = <<>> THEN NewUUID ELSE a, !.time = IF c = <<>> THEN Now ELSE c ]
     /\ PayloadToMetaData(MetaDataToPayload(Files)) = Files
     /\ Saved(Repost([Post EXCEPT !.pid = Itoa(5)], Itoa(6), b))
     /\ ArgsToTask(<< Itoa(14) >> \o ReadTask(Task) \o << c >>, a :> 4)
          = [ Task EXCEPT !.mask = 4, !.name = <<>>, !.filenames = <<>>, !.env = c,
                          !.runtime = SelectSeq(b, LAMBDA byte : byte # 39) ]
     /\ AskedOf(PlatformPayload(<< Itoa(0), a, b, <<>>, c >>, <<80>>, a, b, c, MaxUint32 :> Itoa(3)))
     /\ FromPayload(MakeIPCEvent(Itoa(1), a, 7, b, c)).content = b
     /\ Same(ReadAt(RequestPayload(Message), RequestIndex), DOMAIN RequestIndex)
     /\ Same(ReadAt(ErrorPayload(Message), ErrorIndex), DOMAIN ErrorIndex)
     /\ LET event == InfoPayload(Message)
        IN /\ Same(ReadAt(event, EventIndex), DOMAIN EventIndex)
           /\ ReadAt(event, InfoIndex) = [ platform |-> InfoName, type |-> c, info |-> a ]
     /\ LET post == FromPayload(PostPayload(Message))
        IN Same(post, {"user", "content", "urls", "repost", "name"}) /\ post.method = b /\ post.args = <<>>
     /\ LET bot == PlatformMessage(GetPayload([Post EXCEPT !.cmd = Itoa(7)]), PostIndex)
        IN bot.platform = c /\ bot.content = a /\ bot.args = b /\ bot.cmd = 7 /\ ~bot.repost
     /\ MessageType(<< Itoa(14), a >>, <<>>) = 14 /\ MessageType(<< <<>>, a >>, <<>>) = "throws"
     /\ LET post == ToPost(Task, {"description", "user"}, Tokens, Itoa(6))
        IN IsValid(post) /\ post.user = b /\ post.urls = FileUrl(a) \o FileUrl(c)
     /\ Utf8(Given(b)) => GetJSONArray(SavePlatformEnvFile(Dummy(a, c, b)).args) = << Given(b) >>
     /\ CloneBasic(Task, 9) = [ Task EXCEPT !.mask = 9, !.task_id = 0, !.name = <<>>, !.recurring = 0, !.notify = FALSE ]

-----------------------------------------------------------------------------
(* Outputs.                                                                *)

Output(items) == Text(Array(FlattenSeq(items)))
FeedItem(pairs) == Object(Members(pairs))
TheList(texts_) == Array(Strings(texts_))
Whole(n) == << << "Int", n >> >>
Kiq(name) == [name |-> name, is_kiq |-> TRUE]

\* Two items, with something that is no item between them.
IGOutput ==
  Output(<< Object(Members(<< <<Item.id, a>>, <<Item.username, b>>, <<Item.time, c>>,
                              <<Item.content, b>> >>) \o Key(Item.urls) \o TheList(<< a, c >>)),
            String(a),
            FeedItem(<< <<Item.content, c>>, <<Item.id, b>>, <<Item.id, c>> >>) >>)
TWOutput ==
  Output(<< FeedItem(<< <<Item.id, a>>, <<Item.user, b>>, <<Item.time, c>>, <<Item.content, b>>,
                        <<Item.hashtags, c>>, <<Item.urls, a>> >>),
            String(a),
            FeedItem(<< <<Item.id, b>>, <<Item.content, a>> >>) >>)
YTOutput ==
  Output(<< Object(Members(<< <<Item.id, a>>, <<Item.datetime, b>> >>)
                     \o Key(Item.keywords) \o TheList(<< a, b, c, a, b, c, a, b, c >>)) >>)
KTOutput ==
  Text(Object(Members(<< <<Item.id, a>>, <<Item.id, c>>, <<Item.text, b>> >>) \o Key(Item.date) \o Whole(1718)
                \o Key(Item.media) \o TheList(<< b >>)))
EmotionOutput ==
  Text(Object(FlattenSeq([i \in 1 .. 6 |-> Member(Score[7 - i], Itoa(7 - i))])
                \o Key(Item.emotions) \o TheList(<< a, b >>)))
SentimentOutput ==
  Text(Object(Member(Item.type, a) \o Key(Item.score) \o Whole(-2) \o Key(Item.keywords)
                \o Array(Object(Member(Item.word, b) \o Key(Item.score) \o << << "Double", [neg |-> FALSE, m |-> 25, e |-> -2] >> >>)
                           \o Object(Member(Item.word, c) \o Key(Item.score) \o Whole(3)))))
PollOutput ==
  Output(<< Object(Member(Item.type, a) \o Key(Item.value) \o Whole(3)), String(b),
            Object(Key(Item.value) \o Whole(12)) >>)
NEROutput ==
  Output(<< FeedItem(<< <<Item.type, a>>, <<Item.value, b>> >>), FeedItem(<< <<Item.value, c>> >>) >>)

HitRow ==
  [ column \in Range(TermColumns) |->
      CASE column \in {"term.name", "organization.name"} -> a
        [] column \in {"platform_user.name", "term.type"} -> b
        [] column \in {"person.name", "term_hit.time"} -> c
        [] OTHER -> Itoa(3) ]

Outputs ==
  [ ig |-> IGOutput, tw |-> TWOutput, research |-> TWOutput, yt |-> YTOutput, kettr |-> KTOutput,
    emotion |-> EmotionOutput, sentiment |-> SentimentOutput, ner |-> NEROutput ]

\* The events of the outputs, and the posts that events carry.
Results ==
  LET From(outputs) ==
        [name \in DOMAIN outputs |-> ProcessApplication(outputs[name], Kiq(AppName[name]))]
  IN From(Outputs)
Posts(events) == [i \in DOMAIN events |-> FromPayload(events[i].payload)]

\* Every item of a feed becomes one post, in the order of the feed, with the
\* texts of the item, made up where it has none: an item that is no object is
\* an empty post in an Instagram feed and none in another.  The scores,
\* emotions and keywords an analysis wrote are those its payload is turned
\* back into, whatever the texts, and the columns of a hit are the members a
\* client reads (result_parser.cpp; task.hpp FromPayload;
\* research_manager.cpp ParseTermEvents, to_JSON).
ResultsReadBack ==
  texts # <<>> /\ Readable =>
    LET A == Given(a)
        B == Given(b)
        C == Given(c)
        OfServer(posts) ==
          \A p \in Range(posts) : MustRepost(p.repost) /\ p.method = ProcessMethod /\ p.args = <<>>
        Instagram(ig) ==
          /\ Len(ig) = 3 /\ OfServer(ig)
          /\ ig[1].id = Or(A, NewUUID) /\ ig[1].user = B /\ ig[1].time = Or(C, Now)
          /\ ig[1].content = B /\ ig[1].urls = A \o <<62>> \o C
          /\ ig[2].content = <<>> /\ ig[2].id = NewUUID
          /\ ig[3].content = C /\ ig[3].id = Or(C, NewUUID) /\ ig[3].urls = <<>>
        Twitter(tw, research) ==
          /\ Len(tw) = 2 /\ OfServer(tw)
          /\ tw[1].user = B /\ tw[1].time = Or(C, Now) /\ tw[1].urls = A
          /\ tw[1].content = (IF C = <<>> THEN B ELSE B \o <<10>> \o C)
          /\ tw[2].id = Or(B, NewUUID) /\ tw[2].content = A
          /\ \A i \in DOMAIN tw : GetPayload(tw[i])[5] = research[i].payload[5]
        YouTube(yt) ==
          /\ Len(yt) = 1 /\ OfServer(yt) /\ yt[1].time = Or(B, Now)
          /\ Len(yt[1].content) = 3 + (4 * Len(A)) + (3 * Len(B)) + (2 * Len(C)) + (2 * MaxKeywords)
        Kettr(kt) ==
          /\ Len(kt) = 1 /\ OfServer(kt)
          /\ kt[1].id = Or(A, NewUUID) /\ kt[1].content = B /\ kt[1].time = Itoa(1718)
        Names(ner) == [i \in DOMAIN ner |-> Tail(ner[i].payload)] = << << A, B >>, << <<>>, C >> >>
        Hit(hit) ==
          LET read(key) == GetString(GetMember(hit, key))
          IN /\ read(TermKey.term) = A /\ read(TermKey.user) = B /\ read(TermKey.time) = C
             /\ read(TermKey.person) = C /\ read(TermKey.type) = B
             /\ read(TermKey.id) = Itoa(3) /\ read(TermKey.organization) = A
        Right(result) ==
          /\ Instagram(Posts(result.ig))
          /\ Twitter(Posts(result.tw), result.research)
          /\ YouTube(Posts(result.yt))
          /\ Kettr(Posts(result.kettr))
          /\ CreateEmotion(result.emotion[1].payload)
               = [scores |-> [i \in 1 .. 6 |-> i * 1000000], emotions |-> << A, B >>]
          /\ CreateSentiment(result.sentiment[1].payload)
               = [ type |-> A, score |-> -2000000,
                   keywords |-> << [word |-> B, score |-> 250000], [word |-> C, score |-> 3000000] >> ]
          /\ Names(result.ner)
    IN /\ Right(Results)
       /\ ProcessPoll(PollOutput, 1, 1)[1].payload = << Itoa(3), Itoa(0), Itoa(12) >>
       /\ Hit(Root(TermEventToJSON(ParseTermEvent(HitRow))))

-----------------------------------------------------------------------------
(* Requests, configuration files and identifiers.                           *)

\* The program a task runs is given the texts the client sent, each under its
\* own flag and between quotes, the words of the runtime arguments and the
\* names of the files, as long as the text that names them is no longer than
\* an 8-bit counter counts.  What is read back from the environment file of
\* the task, from the one a trigger makes of it and from the one of a platform
\* post is what was put there, but for its quotes and a space at either end
\* (generic.cpp, instagram.cpp, task.cpp parseFileInfo, environment.hpp
\* prepareRuntime, util.cpp ReadEnvToken, ReadRunArgs, ReadFlagTokens,
\* trigger.cpp process).
ArgumentsSurvive == texts = <<>> => Args!ArgumentsSurvive /\ Args!TokensReadBack

\* The settings are those of the configuration file: each value under its
\* section and name whatever their case, without spaces and comments, the
\* lines that continue it below it.  A file with a line that is none of
\* these is not used: the default one is, and without it the server does
\* not start.  A setting that is not there has its default, and the level of
\* the log is the one of the command line (INIReader.h ini_parse_stream, config_parser.cpp init).
ConfigReads == texts = <<>> => Args!ConfigReads

\* An identifier is read back from its text, with and without braces and
\* from no other length; what is read is what is_valid_uuid accepts; the
\* generators mark the variant and their version; and the hash of a name
\* is that of its blocks, the last of them ending with the count of its bits
\* (codec/uuid.h).
IdentifiersReadBack == texts = <<>> => Args!IdentifiersReadBack

=============================================================================
