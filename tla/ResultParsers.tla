--------------------------- MODULE ResultParsers ---------------------------
(***************************************************************************)
(* What the server makes of the output of the applications it runs         *)
(* (system/process/result_parser.cpp): the events, each with a payload of  *)
(* texts, that an output gives rise to, and the records the research       *)
(* manager turns the payloads back into.                                   *)
(***************************************************************************)
EXTENDS Payloads

\* The names of members and of applications, stood for by a letter.
Item == [ type |-> <<116>>, value |-> <<118>>, score |-> <<115>>, keywords |-> <<107>>,
          word |-> <<119>>, emotions |-> <<101>>, id |-> <<105>>, time |-> <<109>>,
          username |-> <<110>>, user |-> <<117>>, content |-> <<99>>, urls |-> <<108>>,
          datetime |-> <<100>>, hashtags |-> <<35>>, text |-> <<120>>, date |-> <<68>>,
          media |-> <<77>> ]
Score == << <<106>>, <<97>>, <<112>>, <<102>>, <<103>>, <<116>> >>   \* joy .. disgust
AppName == [ ig |-> <<73>>, yt |-> <<89>>, tw |-> <<84>>, search |-> <<83>>, research |-> <<82>>,
             ner |-> <<78>>, emotion |-> <<69>>, sentiment |-> <<88>>, kettr |-> <<75>> ]

NewPost == "PLATFORM_NEW_POST"
ProcessResearch == "PROCESS_RESEARCH"
ResearchResult == "PROCESS_RESEARCH_RESULT"

Event(code, payload) == [code |-> code, payload |-> payload]
GetNOOPResult == << Event(ResearchResult, <<>>) >>

-----------------------------------------------------------------------------
(* Reading an item.  A loop over its members keeps the last of a name and  *)
(* adds up the lists; HasMember and [] find the first.                     *)

Named(item, name) ==
  LET members == SelectSeq(item[2], LAMBDA member : GetString(member[1]) = name)
  IN [i \in DOMAIN members |-> members[i][2]]

LastText(item, name) ==
  IF Named(item, name) = <<>> THEN <<>> ELSE GetString(Last(Named(item, name)))

FirstText(item, name) == IF HasMember(item, name) THEN GetString(GetMember(item, name)) ELSE <<>>

Lists(item, name) ==
  LET arrays == SelectSeq(Named(item, name), LAMBDA value : IsArray(value))
  IN FlattenSeq([i \in DOMAIN arrays |-> Texts(arrays[i])])

\* The items of an array; Read is not asked about those that are no objects.
AllItems(root, Read(_), none) ==
  IF IsArray(root)
  THEN [i \in DOMAIN root[2] |-> IF IsObject(root[2][i]) THEN Read(root[2][i]) ELSE none]
  ELSE <<>>

ObjectItems(root, Read(_)) ==
  IF IsArray(root)
  THEN LET objects == SelectSeq(root[2], LAMBDA item : IsObject(item))
       IN [i \in DOMAIN objects |-> Read(objects[i])]
  ELSE <<>>

EachItem(items, MakeEvent(_)) == [i \in DOMAIN items |-> MakeEvent(items[i])]

-----------------------------------------------------------------------------
(* Scores: a float is kept in millionths, which is what its text shows.    *)

Micro(value) ==
  LET number == value[2][1]
      shift == number.e + 6
      size == IF shift >= 0 THEN number.m * (10 ^ shift)
              ELSE (number.m + ((10 ^ (-shift)) \div 2)) \div (10 ^ (-shift))
  IN CASE value[1] # "Number" -> -1
       [] value[1] = "Number" /\ "Double" \notin value[2][2] -> number * 1000000
       [] OTHER -> IF number.neg THEN -size ELSE size

\* std::to_string of a float, and std::stof.
ToStringF(micro) ==
  LET size == IF micro < 0 THEN -micro ELSE micro
      decimals == [i \in 1 .. 6 |-> 48 + ((size \div (10 ^ (6 - i))) % 10)]
  IN (IF micro < 0 THEN << Minus >> ELSE <<>>) \o Itoa(size \div 1000000) \o << Dot >> \o decimals

Stof(text) ==
  LET negative == text # <<>> /\ Head(text) = Minus
      digits == IF negative THEN Tail(text) ELSE text
      dot == SelectInSeq(digits, LAMBDA ch : ch = Dot)
      decimals == IF dot = 0 THEN <<>> ELSE SubSeq(digits, dot + 1, Min({Len(digits), dot + 6}))
      size == Stoi(IF dot = 0 THEN digits ELSE SubSeq(digits, 1, dot - 1)) * 1000000
                + Stoi(decimals) * (10 ^ (6 - Len(decimals)))
  IN IF negative THEN -size ELSE size

-----------------------------------------------------------------------------
(* Language processing.                                                    *)

ReadNER(item) == << LastText(item, Item.type), LastText(item, Item.value) >>

NERResult(root, app) ==
  LET Made(items) ==
        IF items = <<>> THEN GetNOOPResult
        ELSE EachItem(items, LAMBDA item : Event(ResearchResult, << app >> \o item))
  IN Made(AllItems(root, ReadNER, << <<>>, <<>> >>))

ReadEmotion(root) ==
  [ scores   |-> [i \in 1 .. 6 |-> FirstText(root, Score[i])],
    emotions |-> IF HasMember(root, Item.emotions) THEN Texts(GetMember(root, Item.emotions)) ELSE <<>> ]

EmotionResult(root, app) ==
  LET Made(e) == << Event(ResearchResult, << app >> \o e.scores \o e.emotions) >>
  IN IF IsObject(root) THEN Made(ReadEmotion(root)) ELSE GetNOOPResult

\* Slip: the emotions are cut one text too early.
CreateEmotionEarly(payload) ==
  [ scores |-> [i \in 1 .. 6 |-> Stof(At(payload, i))], emotions |-> SubSeq(payload, 7, Len(payload)) ]

CreateEmotion(payload) ==
  [ scores |-> [i \in 1 .. 6 |-> Stof(At(payload, i))], emotions |-> SubSeq(payload, 8, Len(payload)) ]

ReadSentiment(root) ==
  [ type     |-> FirstText(root, Item.type),
    score    |-> IF HasMember(root, Item.score) THEN Micro(GetMember(root, Item.score)) ELSE 0,
    keywords |-> IF ~HasMember(root, Item.keywords) THEN <<>>
                 ELSE LET values == GetMember(root, Item.keywords)[2]
                      IN [i \in DOMAIN values |->
                            [ word  |-> GetString(GetMember(values[i], Item.word)),
                              score |-> Micro(GetMember(values[i], Item.score)) ]] ]

SentimentPayload(s) ==
  << s.type, ToStringF(s.score) >>
    \o FlattenSeq([i \in DOMAIN s.keywords |-> << s.keywords[i].word, ToStringF(s.keywords[i].score) >>])

\* The payload has no name in front, unlike those of the other two.
SentimentResult(root) ==
  IF ~IsObject(root) THEN GetNOOPResult
  ELSE << Event(ResearchResult, SentimentPayload(ReadSentiment(root))) >>

CreateSentiment(payload) ==
  [ type |-> At(payload, 0), score |-> Stof(At(payload, 1)),
    keywords |-> [i \in 1 .. (Len(payload) - 2) \div 2 |->
                    [word |-> At(payload, 2 * i), score |-> Stof(At(payload, (2 * i) + 1))]] ]

-----------------------------------------------------------------------------
(* Feeds.                                                                  *)

UrlString(urls) ==
  FlattenSeq([i \in DOMAIN urls |-> (IF i = 1 THEN <<>> ELSE << 62 >>) \o urls[i]])

ShouldRepost  == <<116, 114, 117, 101>>
ProcessMethod == <<112>>
DefaultUser   == <<68>>

NewPostPayload(app, id, user, time, content, urls) ==
  << app, id, user, time, content, urls, ShouldRepost, ProcessMethod >>

ReadIG(item) ==
  [ id |-> LastText(item, Item.id), username |-> LastText(item, Item.username),
    time |-> LastText(item, Item.time), content |-> LastText(item, Item.content),
    urls |-> Lists(item, Item.urls) ]
NoIGItem == [id |-> <<>>, username |-> <<>>, time |-> <<>>, content |-> <<>>, urls |-> <<>>]

IGResult(root, app) ==
  EachItem(AllItems(root, ReadIG, NoIGItem), LAMBDA item :
    Event(NewPost, NewPostPayload(app, item.id, item.username, item.time, item.content,
                                  UrlString(item.urls))))

ReadYT(item) ==
  [ id |-> LastText(item, Item.id), datetime |-> LastText(item, Item.datetime),
    keywords |-> Lists(item, Item.keywords) ]

MaxKeywords == 8
Announcement(id, tags) == <<87>> \o id \o <<10, 10>> \o tags

YTContent(item) ==
  LET shown == SubSeq(item.keywords, 1, Min({Len(item.keywords), MaxKeywords}))
  IN Announcement(item.id, FlattenSeq([i \in DOMAIN shown |-> <<32, 35>> \o shown[i]]))

YTResult(root, app) ==
  EachItem(ObjectItems(root, ReadYT), LAMBDA item :
    Event(NewPost, NewPostPayload(app, item.id, DefaultUser, item.datetime, YTContent(item), <<>>)))

ReadTW(item) ==
  [ id |-> LastText(item, Item.id), content |-> LastText(item, Item.content),
    time |-> LastText(item, Item.time), user |-> LastText(item, Item.user),
    hashtags |-> LastText(item, Item.hashtags), urls |-> LastText(item, Item.urls) ]

ReadEventData(item, app, event) ==
  Event(event,
        NewPostPayload(app, item.id, item.user, item.time,
                       IF item.hashtags = <<>> THEN item.content
                       ELSE item.content \o <<10>> \o item.hashtags, item.urls))

TWResult(root, app) ==
  EachItem(ObjectItems(root, ReadTW), LAMBDA item : ReadEventData(item, app, NewPost))

TWResearchResult(root, app) ==
  EachItem(ObjectItems(root, ReadTW), LAMBDA item : ReadEventData(item, app, ProcessResearch))

\* Milliseconds are cut to seconds.
Date(text) == IF Len(text) = 13 THEN SubSeq(text, 1, 10) ELSE text

ReadKT(item) ==
  [ id |-> FirstText(item, Item.id), text |-> FirstText(item, Item.text),
    date |-> IF HasMember(item, Item.date) THEN Date(Itoa(GetMember(item, Item.date)[2][1])) ELSE <<>>,
    media |-> IF HasMember(item, Item.media) THEN Texts(GetMember(item, Item.media)) ELSE <<>> ]

KTResult(root, app) ==
  EachItem(IF IsObject(root) THEN << ReadKT(root) >> ELSE ObjectItems(root, ReadKT), LAMBDA item :
    Event(NewPost, NewPostPayload(app, item.id, DefaultUser, item.date, item.text,
                                  UrlString(item.media))))

-----------------------------------------------------------------------------
(* The result of a poll, as one event with the votes of every option.      *)

ReadVote(item) ==
  LET values == Named(item, Item.value) IN IF values = <<>> THEN 0 ELSE Last(values)[2][1]

PollResult(root) ==
  LET Made(votes) == << Event(ResearchResult, [i \in DOMAIN votes |-> Itoa(votes[i])]) >>
  IN Made(AllItems(root, ReadVote, 0))

Root(output) == ParseDocument(CStr(output)).root

\* An application that is not the server's own, or that it has no parser
\* for, leaves the pointer to the parser null.
ProcessApplication(output, app) ==
  LET Result(root) ==
        CASE app.name = AppName.ig -> IGResult(root, app.name)
          [] app.name = AppName.yt -> YTResult(root, app.name)
          [] app.name \in {AppName.tw, AppName.search} -> TWResult(root, app.name)
          [] app.name = AppName.research -> TWResearchResult(root, app.name)
          [] app.name = AppName.ner -> NERResult(root, app.name)
          [] app.name = AppName.emotion -> EmotionResult(root, app.name)
          [] app.name = AppName.sentiment -> SentimentResult(root)
          [] app.name = AppName.kettr -> KTResult(root, app.name)
          [] OTHER -> Undefined
  IN IF app.is_kiq THEN Result(Root(output)) ELSE Undefined

ProcessPoll(output, command, poll_result) ==
  IF command = poll_result THEN PollResult(Root(output)) ELSE Undefined

-----------------------------------------------------------------------------
(* The hits of a term, read from a row of columns and written for a client *)
(* (research_manager.cpp); the column and the member of a field have       *)
(* different names, and the fields another order.                          *)

TermColumns ==
  << "term.id", "platform_user.name", "person.name", "organization.name", "term.name",
     "term.type", "term_hit.time" >>

TermFields == << "id", "user", "person", "organization", "term", "type", "time" >>

ParseTermEvent(row) ==
  [ field \in Range(TermFields) |->
      row[TermColumns[CHOOSE i \in DOMAIN TermFields : TermFields[i] = field]] ]

TermKey ==
  [ id |-> <<105>>, term |-> <<116>>, type |-> <<121>>, user |-> <<117>>, person |-> <<112>>,
    organization |-> <<111>>, time |-> <<109>> ]

TermEventToJSON(e) ==
  Text(Object(Members(<< << TermKey.id, e.id >>, << TermKey.term, e.term >>,
                         << TermKey.type, e.type >>, << TermKey.user, e.user >>,
                         << TermKey.person, e.person >>,
                         << TermKey.organization, e.organization >>,
                         << TermKey.time, e.time >> >>)))

=============================================================================
