---------------------------- MODULE JsonDocument ----------------------------
(***************************************************************************)
(* The document a parse builds and the calls the server makes on it        *)
(* (codec/rapidjson/document.h).  A value is a pair of its type and its    *)
(* content: the bytes of a string, the sequence of values of an array, the *)
(* sequence of name-value pairs of an object, or the number and the set of *)
(* the C++ types that can hold it, which its flags record.                 *)
(***************************************************************************)
EXTENDS JsonReader

-----------------------------------------------------------------------------
(* Constructors.                                                           *)

NumberValue(number, flags) == << "Number", << number, flags >> >>

\* The flags of a number built from an int, an unsigned, an int64_t, a
\* uint64_t or a double.
FlagsOfInt(i) == {"Int", "Int64"} \cup (IF i >= 0 THEN {"Uint", "Uint64"} ELSE {})

\* Slip: the sign bit is taken for the bit above it.
FlagsOfUintLate(u) ==
  {"Uint", "Uint64", "Int64"} \cup (IF u > TwoTo32 \div 2 THEN {} ELSE {"Int"})

FlagsOfUint(u) ==
  {"Uint", "Uint64", "Int64"} \cup (IF u >= TwoTo32 \div 2 THEN {} ELSE {"Int"})

FlagsOfInt64(i64) ==
  {"Int64"} \cup
  IF i64 >= 0
  THEN {"Uint64"} \cup (IF i64 < TwoTo32 THEN {"Uint"} ELSE {})
                  \cup (IF i64 < TwoTo32 \div 2 THEN {"Int"} ELSE {})
  ELSE IF i64 >= -(TwoTo32 \div 2) THEN {"Int"} ELSE {}

FlagsOfUint64(u64) ==
  {"Uint64"} \cup (IF u64 < TwoTo64 \div 2 THEN {"Int64"} ELSE {})
             \cup (IF u64 < TwoTo32 THEN {"Uint"} ELSE {})
             \cup (IF u64 < TwoTo32 \div 2 THEN {"Int"} ELSE {})

SetStringRaw(bytes) == << "String", bytes >>
SetArrayRaw(values) == << "Array", values >>

\* The members of an object come as values, names and values in turn.
SetObjectRaw(values) ==
  << "Object", [i \in 1 .. Len(values) \div 2 |-> << values[2 * i - 1], values[2 * i] >>] >>

-----------------------------------------------------------------------------
(* The handler: every event pushes a value, and the end of an array or an  *)
(* object pops its content into the value that was pushed at its start.    *)

DropTop(stack, n) == SubSeq(stack, 1, Len(stack) - n)
TopOf(stack, n) == SubSeq(stack, Len(stack) - n + 1, Len(stack))

Handle(stack, event) ==
  LET arg == event[2]
      Push(value) == Append(stack, value)
      \* Pop n values and set the content of the value below them.
      Fill(n, value) == Append(DropTop(stack, n + 1), value)
  IN CASE event[1] = "Null"   -> Push(<< "Null", 0 >>)
       [] event[1] = "Bool"   -> Push(<< IF arg THEN "True" ELSE "False", 0 >>)
       [] event[1] = "Int"    -> Push(NumberValue(arg, FlagsOfInt(arg)))
       [] event[1] = "Uint"   -> Push(NumberValue(arg, FlagsOfUint(arg)))
       [] event[1] = "Int64"  -> Push(NumberValue(arg, FlagsOfInt64(arg)))
       [] event[1] = "Uint64" -> Push(NumberValue(arg, FlagsOfUint64(arg)))
       [] event[1] = "Double" -> Push(NumberValue(arg, {"Double"}))
       [] event[1] \in {"String", "Key"} -> Push(SetStringRaw(arg))
       [] event[1] = "StartObject" -> Push(SetObjectRaw(<<>>))
       [] event[1] = "EndObject"   -> Fill(2 * arg, SetObjectRaw(TopOf(stack, 2 * arg)))
       [] event[1] = "StartArray"  -> Push(SetArrayRaw(<<>>))
       [] event[1] = "EndArray"    -> Fill(arg, SetArrayRaw(TopOf(stack, arg)))

\* A new document after Parse: a parse error leaves it the null value.
ParseStream(r) ==
  [ error |-> HasParseError(r),
    root  |-> IF HasParseError(r) THEN << "Null", 0 >>
              ELSE Last(FoldLeft(Handle, <<>>, r.ev)) ]

ParseDocument(s) == ParseStream(Parse(s))

-----------------------------------------------------------------------------
(* Queries.                                                                *)

GetType(value) == value[1]
IsObject(value) == GetType(value) = "Object"
IsArray(value) == GetType(value) = "Array"
IsString(value) == GetType(value) = "String"

\* The index of the first member with this name, or one past the last.
FindMember(value, name) ==
  Min({ i \in 1 .. Len(value[2]) + 1 :
          i = Len(value[2]) + 1 \/ value[2][i][1][2] = name })

HasMember(value, name) == FindMember(value, name) <= Len(value[2])
GetMember(value, name) == value[2][FindMember(value, name)][2]

-----------------------------------------------------------------------------
(* The events of a value, as Accept sends them to a handler.               *)

RECURSIVE Accept(_)
Accept(value) ==
  LET content == value[2]
      Member(i) == << << "Key", content[i][1][2] >> >> \o Accept(content[i][2])
      Concat(parts) == FoldLeft(LAMBDA a, b : a \o b, <<>>, parts)
  IN CASE GetType(value) = "Null"  -> << << "Null", 0 >> >>
       [] GetType(value) = "False" -> << << "Bool", FALSE >> >>
       [] GetType(value) = "True"  -> << << "Bool", TRUE >> >>
       [] IsObject(value) ->
            << << "StartObject", 0 >> >>
              \o Concat([i \in DOMAIN content |-> Member(i)])
              \o << << "EndObject", Len(content) >> >>
       [] IsArray(value) ->
            << << "StartArray", 0 >> >>
              \o Concat([i \in DOMAIN content |-> Accept(content[i])])
              \o << << "EndArray", Len(content) >> >>
       [] IsString(value) -> << << "String", content >> >>
       [] GetType(value) = "Number" ->
            << << CASE "Double" \in content[2] -> "Double"
                    [] "Double" \notin content[2] /\ "Int" \in content[2] -> "Int"
                    [] content[2] \cap {"Double", "Int"} = {} /\ "Uint" \in content[2] -> "Uint"
                    [] content[2] \cap {"Double", "Int", "Uint"} = {}
                         /\ "Int64" \in content[2] -> "Int64"
                    [] OTHER -> "Uint64",
                  content[1] >> >>

=============================================================================
