------------------------------ MODULE Messages ------------------------------
(***************************************************************************)
(* The messages between the server and its clients (common/util.cpp): the  *)
(* JSON texts that are built and read, and the frames a client's bytes are *)
(* decoded from.  A text is a sequence of bytes; the names and the fixed   *)
(* words of a message are stood for by one letter.                         *)
(***************************************************************************)
EXTENDS JsonWriter, JsonDocument

\* The names of members, and the words that tell messages apart.
Name == [ type |-> <<116>>, message |-> <<109>>, args |-> <<97>>, event |-> <<101>>,
          command |-> <<99>>, token |-> <<107>>, user |-> <<117>>, mask |-> <<115>>,
          status |-> <<120>>, info |-> <<105>> ]
Word == [ custom |-> <<67>>, event |-> <<69>>, operation |-> <<79>>,
          session |-> <<83>>, close |-> <<88>> ]

Undefined == << -1 >>   \* what an accessor of the wrong type, or a null pointer, gives

\* A text as a C string: up to its first zero byte.
CStr(text) ==
  SubSeq(text, 1, Min({ i \in 1 .. Len(text) + 1 : i = Len(text) + 1 \/ text[i] = 0 }) - 1)

-----------------------------------------------------------------------------
(* Writing.                                                                *)

String(text) == << << "String", CStr(text) >> >>
Key(text) == << << "Key", CStr(text) >> >>
Array(events) == << << "StartArray", 0 >> >> \o events \o << << "EndArray", 0 >> >>
Object(events) == << << "StartObject", 0 >> >> \o events \o << << "EndObject", 0 >> >>

Member(name, text) == Key(name) \o String(text)
Strings(texts) == FlattenSeq([i \in DOMAIN texts |-> String(texts[i])])
Members(pairs) == FlattenSeq([i \in DOMAIN pairs |-> Member(pairs[i][1], pairs[i][2])])

\* The text of a message, whatever became of the calls that wrote it.
Text(events) == WriteAll(events).out

CustomMessage(data, args) ==
  Text(Object(Member(Name.type, Word.custom) \o Member(Name.message, data)
                \o Key(Name.args) \o args))

CreateMessage(data, args) == CustomMessage(data, String(args))
CreatePairsMessage(data, pairs) == CustomMessage(data, Object(Members(pairs)))

\* Maps from integers come in the order of the integers.
InOrder(map) == SetToSortSeq(DOMAIN map, LAMBDA a, b : a < b)

CreateMapMessage(data, map) ==
  CustomMessage(data, Object(
    FlattenSeq([i \in DOMAIN InOrder(map) |-> Member(Itoa(InOrder(map)[i]), map[InOrder(map)[i]])])))

CreateApplicationsMessage(data, apps) ==
  CustomMessage(data, Array(
    FlattenSeq([i \in DOMAIN apps |->
      Strings(<< apps[i].mask, apps[i].name, apps[i].path, apps[i].data >>)])))

\* The key of an empty list is written without a value.
CreateListsMessage(data, map) ==
  LET Entry(k) == Key(Itoa(k)) \o (IF map[k] = <<>> THEN <<>> ELSE Array(Strings(map[k])))
  IN CustomMessage(data, Object(FlattenSeq([i \in DOMAIN InOrder(map) |-> Entry(InOrder(map)[i])])))

\* An event with a mask, whose name is not written.
CreateMaskEvent(event, mask, out) ==
  Text(Object(Member(Name.type, Word.event) \o Key(Name.mask) \o << << "Int", mask >> >>
                \o Member(Name.args, out)))

CreateEvent(event, args) ==
  Text(Object(Member(Name.type, Word.event) \o Member(Name.event, event)
                \o Key(Name.args) \o Array(Strings(args))))

\* The same with a mask, which is not written.
CreateMaskedEvent(event, mask, args) == CreateEvent(event, args)

CreateOperation(op, args) ==
  Text(Object(Member(Name.type, Word.operation) \o Member(Name.command, op)
                \o Key(Name.args) \o Array(Strings(args))))

CreateSessionEvent(status, message, info) ==
  Text(Object(Member(Name.type, Word.event) \o Member(Name.event, Word.session)
                \o Key(Name.status) \o << << "Int", status >> >> \o Member(Name.message, message)
                \o Key(Name.info) \o Object(Members(info))))

ToJSONArray(args) == Text(Array(Strings(args)))

-----------------------------------------------------------------------------
(* Reading.  HasMember is defined for objects only, GetString for strings. *)

GetString(value) == IF IsString(value) THEN CStr(value[2]) ELSE Undefined

\* What Read makes of the member with this name, or none.
ReadMember(data, name, Read(_), none) ==
  LET In(d) == CASE d.error -> none
                 [] ~d.error /\ ~IsObject(d.root) -> Undefined
                 [] ~d.error /\ IsObject(d.root) /\ ~HasMember(d.root, name) -> none
                 [] OTHER -> Read(GetMember(d.root, name))
  IN In(ParseDocument(CStr(data)))

GetOperation(data) == ReadMember(data, Name.command, GetString, <<>>)
GetToken(data) == ReadMember(data, Name.token, GetString, <<>>)
GetAuth(data) ==
  [ token |-> ReadMember(data, Name.token, GetString, <<>>),
    name  |-> ReadMember(data, Name.user, GetString, <<>>) ]
GetMessage(data) == ReadMember(data, Name.message, GetString, <<>>)
GetEvent(data) == ReadMember(data, Name.event, GetString, <<>>)

Texts(value) ==
  IF IsArray(value) THEN [i \in DOMAIN value[2] |-> GetString(value[2][i])] ELSE Undefined

GetArgs(data) == ReadMember(data, Name.args, Texts, <<>>)

\* The pairs of an object, the name read as an integer.
Stoi(text) == FoldLeft(LAMBDA n, c : (10 * n) + c - 48, 0, text)

ArgPairs(value) ==
  IF IsObject(value)
  THEN [i \in DOMAIN value[2] |-> << Stoi(GetString(value[2][i][1])), GetString(value[2][i][2]) >>]
  ELSE Undefined
GetArgMap(data) == ReadMember(data, Name.args, ArgPairs, <<>>)

GetJSONArray(data) ==
  LET In(d) == IF ~d.error /\ IsArray(d.root) THEN Texts(d.root) ELSE <<>>
  IN In(ParseDocument(CStr(data)))

IsMessage(data) == data # <<>> /\ ReadMember(data, Name.message, LAMBDA v : TRUE, FALSE)
IsOperation(data) ==
  data # <<>> /\ ReadMember(data, Name.type, LAMBDA v : GetString(v) = Word.operation, FALSE)

IsSessionMessageEvent(event) == event = Word.session
IsCloseEvent(event) == event = Word.close

-----------------------------------------------------------------------------
(* Frames: a size, a code and a flatbuffer, which is the sequence of the   *)
(* fields of its table in the order of its schema: << "int", number >>,    *)
(* << "bytes", text or vector >>, or Null.                                 *)

PingCode    == 253
GenericCode == 252
MessageCode == 254
IGCode      == 255

Null == << "null", 0 >>
Field(table, schema, name) == table[CHOOSE i \in DOMAIN schema : schema[i] = name]

MessageSchema == << "id", "data" >>
GenericSchema ==
  << "id", "file_info", "time", "description", "is_video", "mask", "header", "user",
     "recurring", "notify", "runtime" >>
IGSchema ==
  << "id", "file_info", "time", "description", "hashtags", "requested_by",
     "requested_by_phrase", "promote_share", "link_bio", "is_video", "mask", "header", "user" >>

\* Every flatbuffer is verified as a message: a number, then bytes or Null.
\* What a table has beyond them is not looked at.
Verify(table) == Len(table) >= 2 /\ table[1][1] = "int" /\ table[2][1] # "int"

Str(field) == IF field = Null THEN Undefined ELSE field[2]
Num(field) == Itoa(field[2])

IGTaskPayload(t) ==
  LET f(name) == Field(t, IGSchema, name)
  IN << Num(f("mask")), Str(f("file_info")), Str(f("time")), Str(f("description")),
        Str(f("hashtags")), Str(f("requested_by")), Str(f("requested_by_phrase")),
        Str(f("promote_share")), Str(f("link_bio")), Num(f("is_video")), Str(f("header")),
        Str(f("user")) >>

\* Slip: the last flags change places.
TaskPayloadSwapped(t) ==
  LET f(name) == Field(t, GenericSchema, name)
  IN << Num(f("mask")), Str(f("file_info")), Str(f("time")), Str(f("description")),
        Num(f("is_video")), Str(f("header")), Str(f("user")), Num(f("notify")),
        Num(f("recurring")), Str(f("runtime")) >>

TaskPayload(t) ==
  LET f(name) == Field(t, GenericSchema, name)
  IN << Num(f("mask")), Str(f("file_info")), Str(f("time")), Str(f("description")),
        Num(f("is_video")), Str(f("header")), Str(f("user")), Num(f("recurring")),
        Num(f("notify")), Str(f("runtime")) >>

\* A text on the left, or the arguments of a task on the right.
DecodeMessage(frame) ==
  CASE frame.code = PingCode -> << "left", Itoa(PingCode) >>
    [] frame.code = IGCode /\ Verify(frame.table) -> << "right", IGTaskPayload(frame.table) >>
    [] frame.code = MessageCode /\ Verify(frame.table) ->
         << "left", Str(Field(frame.table, MessageSchema, "data")) >>
    [] frame.code = GenericCode /\ Verify(frame.table) -> << "right", TaskPayload(frame.table) >>
    [] OTHER -> << "right", <<>> >>

IsPing(data) == data = Itoa(PingCode)

=============================================================================
