------------------------------- MODULE Config -------------------------------
(***************************************************************************)
(* The configuration of the server: the reader of INI files                *)
(* (config/INIReader.h), the choice of a file and the settings             *)
(* (config/config_parser.cpp).  A text is a sequence of symbols.           *)
(***************************************************************************)
EXTENDS Integers, Sequences, SequencesExt, FiniteSetsExt, TLC

CONSTANTS INI_MAX_LINE,   \* the buffer of a line, 200
          MAX_SECTION,    \* the buffer of the current section, 50
          MAX_NAME        \* the buffer of the name of the pair before, 50

LineEnd == "\n"
BOM     == << "xEF", "xBB", "xBF" >>
Spaces  == { " ", "\t", LineEnd }

Lower(text) ==
  LET lower == "A" :> "a" @@ "N" :> "n" @@ "O" :> "o" @@ "S" :> "s"
  IN [i \in DOMAIN text |-> IF text[i] \in DOMAIN lower THEN lower[text[i]] ELSE text[i]]

-----------------------------------------------------------------------------
(* The parser.                                                             *)

RStrip(s) ==
  SubSeq(s, 1, Max({0} \cup { i \in DOMAIN s : s[i] \notin Spaces }))

LSkip(s) ==
  SubSeq(s, Min({Len(s) + 1} \cup { i \in DOMAIN s : s[i] \notin Spaces }), Len(s))

\* The place of the first of the symbols, or of a comment after a space.
FindCharsOrComment(s, chars) ==
  Min({Len(s) + 1} \cup
      { i \in DOMAIN s : s[i] \in chars \/ (s[i] = ";" /\ i > 1 /\ s[i - 1] \in Spaces) })

StrNCpy0(s, size) == SubSeq(s, 1, Min({Len(s), size - 1}))

\* A text up to its comment.
Uncommented(s) == RStrip(SubSeq(s, 1, FindCharsOrComment(s, {}) - 1))

MakeKey(section, name) == Lower(section \o <<"=">> \o name)

ValueHandler(p, name, value) ==
  LET key  == MakeKey(p.section, name)
      held == IF key \in DOMAIN p.values THEN p.values[key] ELSE <<>>
      sep  == IF held = <<>> THEN <<>> ELSE << LineEnd >>
  IN [p EXCEPT !.values = (key :> held \o sep \o value) @@ @,
               !.sections = @ \cup {p.section}]

\* Slip: the last error is kept.
ErrorAtLast(p) == [p EXCEPT !.error = p.lineno]

\* One error is kept, the first.
ErrorAt(p) == [p EXCEPT !.error = IF @ = 0 THEN p.lineno ELSE @]

SectionLine(p, start) ==
  LET rest == Tail(start)
      end  == FindCharsOrComment(rest, {"]"})
  IN IF end <= Len(rest) /\ rest[end] = "]"
     THEN [p EXCEPT !.section = StrNCpy0(SubSeq(rest, 1, end - 1), MAX_SECTION),
                    !.prev_name = <<>>]
     ELSE ErrorAt(p)

PairLine(p, start) ==
  LET end   == FindCharsOrComment(start, {"=", ":"})
      name  == RStrip(SubSeq(start, 1, end - 1))
      value == Uncommented(LSkip(SubSeq(start, end + 1, Len(start))))
  IN IF end <= Len(start) /\ start[end] \in {"=", ":"}
     THEN ValueHandler([p EXCEPT !.prev_name = StrNCpy0(name, MAX_NAME)], name, value)
     ELSE ErrorAt(p)

ParseLine(before, line) ==
  LET p     == [before EXCEPT !.lineno = @ + 1]
      bom   == p.lineno = 1 /\ IsPrefix(BOM, line)
      body  == RStrip(IF bom THEN SubSeq(line, 4, Len(line)) ELSE line)
      start == LSkip(body)
      moved == bom \/ Len(start) < Len(body)
  IN CASE start = <<>> -> p
       [] start # <<>> /\ start[1] \in {";", "#"} -> p
       [] start # <<>> /\ start[1] \notin {";", "#"} /\ p.prev_name # <<>> /\ moved ->
            ValueHandler(p, p.prev_name, Uncommented(start))
       [] start # <<>> /\ start[1] = "[" /\ ~(p.prev_name # <<>> /\ moved) -> SectionLine(p, start)
       [] OTHER -> PairLine(p, start)

\* What fgets reads of a text: up to the end of a line, or of the buffer.
FGets(text) ==
  LET ends == { i \in DOMAIN text : text[i] = LineEnd }
  IN SubSeq(text, 1, Min({INI_MAX_LINE - 1, Len(text)} \cup ends))

RECURSIVE IniParseFrom(_, _)
IniParseFrom(p, text) ==
  IF text = <<>> THEN p
  ELSE IniParseFrom(ParseLine(p, FGets(text)), SubSeq(text, Len(FGets(text)) + 1, Len(text)))

EmptyReader == [ section |-> <<>>, prev_name |-> <<>>, lineno |-> 0, error |-> 0,
                 values |-> <<>>, sections |-> {} ]

IniParseStream(text) == IniParseFrom(EmptyReader, text)

\* A file that is not there reads as nothing, with an error.
IniParse(files, name) ==
  IF name \in DOMAIN files THEN IniParseStream(files[name])
  ELSE [EmptyReader EXCEPT !.error = -1]

-----------------------------------------------------------------------------
(* The values of a reader.                                                 *)

Get(reader, section, name, default) ==
  LET key == MakeKey(section, name)
  IN IF key \in DOMAIN reader.values THEN reader.values[key] ELSE default

GetBoolean(reader, section, name, default) ==
  LET value == Lower(Get(reader, section, name, <<>>))
  IN CASE value \in { <<"true">>, <<"yes">>, <<"o", "n">>, <<"1">> } -> TRUE
       [] value \in { <<"false">>, <<"n", "o">>, <<"off">>, <<"0">> } -> FALSE
       [] OTHER -> default

-----------------------------------------------------------------------------
(* The configuration.                                                      *)

ConfigFiles == << "config.ini", "default.config.ini", "../default.config.ini" >>

\* The first file that reads without an error; the server does not start
\* when none does.
ConfigInit(files) ==
  LET read == { i \in DOMAIN ConfigFiles : IniParse(files, ConfigFiles[i]).error = 0 }
  IN IF read = {} THEN [ok |-> FALSE]
     ELSE [ok |-> TRUE, reader |-> IniParse(files, ConfigFiles[Min(read)])]

\* The settings and their defaults.
Required(section, name) == << "CONFIG REQUIRED: ", section, name >>

Settings ==
  LET required == { <<"logging", "path">>, <<"database", "password">>, <<"database", "name">>,
        <<"database", "user">>, <<"database", "port">>, <<"database", "host">>,
        <<"process", "executor">>, <<"process", "broker_address">>,
        <<"process", "sentnl_address">>, <<"email", "notification">>,
        <<"email", "admin">>, <<"email", "command">>, <<"platform", "affiliate_">> }
  IN [ s \in required |-> Required(s[1], s[2]) ]
     @@ <<"system", "admin">> :> <<"admin">> @@ <<"logging", "level">> :> <<"info">>
     @@ <<"logging", "timestamp">> :> <<"true">> @@ <<"process", "ipc_port">> :> <<"28473">>
     @@ <<"process", "tg_dest">> :> <<"-1">> @@ <<"platform", "default_user">> :> <<>>
     @@ <<"process", "kai_address">> :> Required("process", "broker_address")
     @@ <<"machine_learning", "keural_path">> :> Required("machine_learning", "input_path")
     @@ <<"security", "token_path">> :> <<>> @@ <<"security", "private_key">> :> <<>>
     @@ <<"security", "public_key">> :> <<>>

Setting(reader, section, name) ==
  Get(reader, << section >>, << name >>, Settings[<< section, name >>])

Query(reader, section, name) == Get(reader, section, name, <<>>)

\* The options of the command line: the text after "--loglevel" and one more
\* symbol, an option shorter than that ending the program.
LogLevel == "--loglevel"
ParseRuntimeArguments(argv) ==
  FoldLeft(LAMBDA c, arg :
             CASE ~c.ok \/ arg = <<>> \/ arg[1] # LogLevel -> c
               [] c.ok /\ arg # <<>> /\ arg[1] = LogLevel /\ Len(arg) >= 2 ->
                    [c EXCEPT !.loglevel = SubSeq(arg, 3, Len(arg))]
               [] OTHER -> [c EXCEPT !.ok = FALSE],
           [ok |-> TRUE, loglevel |-> <<"trace">>], argv)

=============================================================================
