-------------------------- MODULE MCTaskArguments --------------------------
(* Requests whose texts grow symbol by symbol and whose files are added one *)
(* by one.  No text holds the name of a key or the separator: a text that   *)
(* does is taken for the key by whoever reads the file.  Besides them,      *)
(* configuration files that grow line by line, and identifiers that get     *)
(* one byte after the other.  MCTexts runs them.                            *)
EXTENDS TaskArguments, Config, Uuid

CONSTANTS MaxSize,  \* bound: symbols in the texts and files, together
          MaxLines, \* bound: lines of a configuration file
          MaxBytes  \* bound: bytes of an identifier that are not zero

VARIABLES texts,    \* field -> text
          uploads,  \* sequence of <<name, timestamp, type>>
          lines,    \* sequence of the lines of a configuration file
          id        \* the bytes of an identifier

Fields  == {"header", "description", "requested_by", "requested_by_phrase", "user", "runtime"}
Symbols == {"a", Quote, Space, Newline, "=", "$"}
Names   == { <<"a">>, <<"a", "b">> }

Size == ReduceSet(LAMBDA f, n : n + Len(texts[f]), Fields, Len(uploads))

NoTexts == [f \in Fields |-> <<>>]
NilId   == [i \in 1 .. 16 |-> 0]

\* A line of a configuration file.  An indented pair continues the pair
\* before it, if there is one in the section.
SectionNames == { <<"s">>, <<"S">>, <<"t", "u">> }
Lines ==
  [kind : {"section"}, name : SectionNames]
  \cup [kind : {"pair"}, name : { <<"n">>, <<"N">>, <<"o", "x">> }, value : { <<>>, <<"v">>, <<"O", "n">> },
         sep : {"=", ":"}, indent : {FALSE}]
  \cup [kind : {"pair"}, name : { <<"n">> }, value : { <<"v">> }, sep : {"="}, indent : {TRUE}]
  \cup [kind : {"comment", "blank", "bad"}]

Init == texts = NoTexts /\ uploads = <<>> /\ lines = <<>> /\ id = NilId

OnlyTexts == lines = <<>> /\ id = NilId /\ UNCHANGED << lines, id >>

Type ==
  /\ OnlyTexts
  /\ Size < MaxSize
  /\ \E f \in Fields, c \in Symbols : texts' = [texts EXCEPT ![f] = Append(@, c)]
  /\ UNCHANGED uploads

AddFile ==
  /\ OnlyTexts
  /\ Size < MaxSize
  /\ \E name \in Names : uploads' = Append(uploads, << name, <<"1">>, <<"i">> >>)
  /\ UNCHANGED texts

AddLine ==
  /\ Size = 0 /\ id = NilId
  /\ Len(lines) < MaxLines
  /\ \E line \in Lines : lines' = Append(lines, line)
  /\ UNCHANGED << texts, uploads, id >>

SetByte ==
  /\ Size = 0 /\ lines = <<>>
  /\ Cardinality({ i \in 1 .. 16 : id[i] # 0 }) < MaxBytes
  /\ \E i \in {1, 7, 8, 9, 16}, b \in {1, 15, 16, 89, 175, 192, 255} : id' = [id EXCEPT ![i] = b]
  /\ UNCHANGED << texts, uploads, lines >>

Next == Type \/ AddFile \/ AddLine \/ SetByte

-----------------------------------------------------------------------------

Info ==
  FlattenSeq([i \in DOMAIN uploads |->
    uploads[i][2] \o uploads[i][1] \o <<"|">> \o uploads[i][3] \o <<":">>])

Argv ==
  [ file_info |-> Info, time |-> <<"1">>, description |-> texts.description,
    is_video |-> <<"1">>, header |-> texts.header, user |-> texts.user,
    runtime |-> texts.runtime, hashtags |-> <<"#">>, requested_by |-> texts.requested_by,
    requested_by_phrase |-> texts.requested_by_phrase, promote_share |-> <<>>, link_bio |-> <<"b">> ]

FileNames == [i \in DOMAIN uploads |-> uploads[i][1]]
Named(key, value) == << "--" >> \o key \o << "=", Quote >> \o value \o << Quote >>
Filenames == [i \in DOMAIN uploads |-> << "--", "filename", "=" >> \o uploads[i][1]]

\* The words of the runtime arguments, every space a boundary.
Words ==
  LET parts == Split(Append(texts.runtime, Space), Space)
  IN IF texts.runtime = <<>> THEN <<>> ELSE [i \in DOMAIN parts |-> Without(parts[i], Quote)]

GenericArguments ==
  LET media == IF uploads = <<>> THEN <<>> ELSE <<"video">>
      pairs == << <<DESCRIPTION, texts.description>>, <<FILE_TYPE, media>>,
                  <<HEADER, texts.header>>, <<USER, texts.user>> >>
      given == SelectSeq(pairs, LAMBDA p : p[2] # <<>>)
  IN Words \o [i \in DOMAIN given |-> Named(given[i][1], given[i][2])] \o Filenames

IGArguments ==
  << Named(DESCRIPTION, texts.description), Named(HASHTAGS, <<"#">>),
     Named(REQUESTED_BY, texts.requested_by), Named(FILE_TYPE, <<"video">>),
     Named(REQUESTED_BY_PHRASE, texts.requested_by_phrase), Named(PROMOTE_SHARE, <<>>),
     Named(LINK_BIO, <<"b">>), Named(HEADER, texts.header), Named(USER, texts.user) >>
  \o Filenames

\* What the program of a task is given (MCTexts).
ArgumentsSurvive ==
  LET files   == [i \in DOMAIN uploads |-> << uploads[i][1], uploads[i][2] >>]
      generic == PrepareGenericTask(Argv)
      ig      == PrepareIGTask(Argv)
  IN Len(Info) <= TwoTo8 =>
       /\ generic.ok /\ generic.files = files
       /\ PrepareRuntime(generic, FileNames) = GenericArguments
       /\ IF uploads = <<>> THEN ~ig.ok
          ELSE /\ ig.ok /\ ig.files = files
               /\ PrepareRuntime(ig, FileNames) = IGArguments

\* Without its quotes and a space at either end.
Plain(text) ==
  LET t == SelectSeq(text, LAMBDA c : c # Quote)
      i == IF t # <<>> /\ t[1] = Space THEN 2 ELSE 1
      j == IF Len(t) >= i /\ t[Len(t)] = Space THEN Len(t) - 1 ELSE Len(t)
  IN SubSeq(t, i, j)

\* What is read back from environment files.
TokensReadBack ==
  LET generic == PrepareGenericTask(Argv)
      ig      == PrepareIGTask(Argv)
      own     == CreateGenericTask(texts.description, texts.header, texts.user, << texts.runtime >>)
      trigger == TriggeredTask(ig, REQUESTED_BY :> HEADER @@ HEADER :> DESCRIPTION,
                               << <<HASHTAGS, <<"#">>>> >>)
      json    == <<"[", Quote>> \o texts.user \o <<Quote, "]">>
      post    == CreateEnvFile(<< <<<<"content">>, texts.header>>, <<<<"urls">>, texts.description>>,
                                  <<<<"args">>, json>> >>)
  IN /\ ReadRunArgs(generic.env) = Plain(texts.runtime)
     /\ ReadFlagTokens(generic.env, generic.flags)
          = << Plain(texts.description), IF uploads = <<>> THEN <<>> ELSE <<"video">>,
               Plain(texts.header), Plain(texts.user) >>
     /\ ReadFlagTokens(own.env, own.flags)
          = << Plain(texts.description), <<>>, Plain(texts.header),
               Plain(IF texts.user = <<>> THEN <<"admin">> ELSE texts.user) >>
     /\ ReadFlagTokens(ig.env, ig.flags)
          = << Plain(texts.description), <<"#">>, Plain(texts.requested_by), <<"video">>,
               Plain(texts.requested_by_phrase), <<>>, <<"b">>, Plain(texts.header), Plain(texts.user) >>
     /\ ReadFlagTokens(trigger.env, trigger.flags)
          = << Plain(Plain(texts.requested_by)), Plain(Plain(texts.header)), <<"#">> >>
     /\ ReadEnvValues(post, << <<"content">>, <<"urls">> >>)
          = << Plain(texts.header), Plain(texts.description) >>
     /\ ReadEnvToken(post, <<"args">>, TRUE) = json

-----------------------------------------------------------------------------

\* The text of a line.  A comment follows a value only: after none it is
\* read as the value.
Rendered(line) ==
  CASE line.kind = "section" -> <<"[">> \o line.name \o << "]", " ", ";", "]" >>
    [] line.kind = "pair"    -> (IF line.indent THEN <<" ">> ELSE <<>>) \o line.name
                                \o << " ", line.sep, "\t" >> \o line.value
                                \o (IF line.value = <<>> THEN <<>> ELSE << " ", ";", "=" >>)
    [] line.kind = "comment" -> << " ", "#", "=" >>
    [] line.kind = "blank"   -> << "\t" >>
    [] line.kind = "bad"     -> << "n" >>

FileText(some) == FlattenSeq([i \in DOMAIN some |-> Append(Rendered(some[i]), LineEnd)])

SectionAt(i) == Max({0} \cup { j \in 1 .. i : lines[j].kind = "section" })
SectionOf(i) == IF SectionAt(i) = 0 THEN <<>> ELSE lines[SectionAt(i)].name

Continues(i) ==
  /\ lines[i].kind = "pair" /\ lines[i].indent
  /\ \E j \in SectionAt(i) + 1 .. i - 1 : lines[j].kind = "pair"

PairOf(i) == Max({ j \in 1 .. i : lines[j].kind = "pair" /\ ~Continues(j) })

\* What line i says, as a key and a value: a line that continues a pair
\* says the whole of it, up to its comment, about the name of the pair.
Said(i) ==
  LET line  == lines[i]
      whole == line.name \o << " ", line.sep, "\t" >> \o line.value
  IN << Lower(SectionOf(i)), Lower(lines[PairOf(i)].name),
        IF Continues(i) THEN whole ELSE line.value >>

\* The values said of a key, one below the other.
AllSaid(section, name) ==
  LET pairs == SelectSeq([i \in DOMAIN lines |-> i], LAMBDA i : lines[i].kind = "pair")
      own   == SelectSeq(pairs, LAMBDA i : Said(i)[1] = section /\ Said(i)[2] = name)
  IN [i \in DOMAIN own |-> Said(own[i])[3]]

Below(values) ==
  LET first == Min({Len(values) + 1} \cup { i \in DOMAIN values : values[i] # <<>> })
      kept  == SubSeq(values, first, Len(values))
  IN FlattenSeq([i \in DOMAIN kept |-> IF i = 1 THEN kept[i] ELSE << LineEnd >> \o kept[i]])

\* What is read from configuration files (MCTexts).
ConfigReads ==
  LET files == "config.ini" :> FileText(lines)
      first == { i \in DOMAIN lines : lines[i].kind = "bad" }
      other == << [kind |-> "section", name |-> <<"s">>],
                  [kind |-> "pair", name |-> <<"n">>, value |-> <<"d">>, sep |-> "=", indent |-> FALSE] >>
      chosen == ConfigInit("default.config.ini" :> FileText(other) @@ files)
  IN /\ IniParse(files, "config.ini").error = (IF first = {} THEN 0 ELSE Min(first))
     /\ ConfigInit(files).ok <=> first = {}
     /\ chosen.ok
     /\ \A key \in DOMAIN Settings : Setting(chosen.reader, key[1], key[2]) = Settings[key]
     /\ ParseRuntimeArguments(<< <<"x">>, << LogLevel, "=" >> \o FileText(lines) >>).loglevel = FileText(lines)
     /\ first # {} => Get(chosen.reader, <<"S">>, <<"N">>, <<>>) = <<"d">>
     /\ first = {} =>
          \A s \in SectionNames \cup { <<>> }, n \in { <<"n">>, <<"o", "x">> } :
            LET said == AllSaid(Lower(s), n)
            IN /\ Get(chosen.reader, s, n, <<"default">>)
                    = (IF said = <<>> THEN <<"default">> ELSE Below(said))
               /\ GetBoolean(chosen.reader, s, n, FALSE) <=> said # <<>> /\ Lower(Below(said)) = <<"o", "n">>

\* What is read from the text of an identifier (MCTexts).
IdentifiersReadBack ==
  LET text  == UuidToString(SystemGenerator(id))
      short == Tail(text)
      long  == Append(text, "0")
      name  == HashName(NilId, SubSeq(id \o id \o id, 1, 30 + (id[1] % 16)))
      blocks == FlattenSeq(GetDigest(name))
  IN lines = <<>> /\ Size = 0 =>
     /\ FromString(text) = id
     /\ Less(NilId, id) <=> ~IsNil(id)
     /\ FromString(<<"{">> \o text \o <<"}">>) = id
     /\ \A t \in { text, short, long, <<"{">> \o text, Append(text, "}"), [text EXCEPT ![9] = "g"] } :
          /\ IsValidUuid(t) <=> FromString(t) # NoUuid
          /\ IsValidUuid(t) <=> t = text
     /\ Variant(RandomGenerator(id)) = "rfc" /\ Version(RandomGenerator(id)) = 4
     /\ Variant(MakeUuid(id)) = "rfc" /\ Version(MakeUuid(id)) = 5
     /\ Version(TimeGenerator(SubSeq(id, 1, 6), SubSeq(id, 7, 14), SubSeq(id, 15, 16))) = 1
     /\ SubSeq(blocks, 1, name.byteCount) = SubSeq(NilId \o id \o id \o id, 1, name.byteCount)
     /\ Len(blocks) = 64 * ((name.byteCount + 8) \div 64 + 1)
     /\ blocks[name.byteCount + 1] = 128
     /\ \A i \in name.byteCount + 2 .. Len(blocks) - 4 : blocks[i] = 0
     /\ 256 * blocks[Len(blocks) - 1] + blocks[Len(blocks)] = 8 * name.byteCount

=============================================================================
