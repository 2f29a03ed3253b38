--------------------------- MODULE TaskArguments ---------------------------
(***************************************************************************)
(* How the texts a client sends with a task reach the program the task     *)
(* runs: the task handlers write them to an environment file               *)
(* (executor/task_handlers), the executor's environment finds them there   *)
(* again (executor/environment.hpp), and so do the readers of tokens       *)
(* (common/util.cpp FileUtils).  A text is a sequence of symbols; the name *)
(* of a key is one symbol, but for REQUESTED_BY_PHRASE, which begins as    *)
(* another key does.  Positions count from 1, and 0 is npos.               *)
(***************************************************************************)
EXTENDS Integers, Sequences, SequencesExt, FiniteSetsExt

CONSTANTS TimestampLength,  \* TIMESTAMP_LENGTH, 10
          TwoTo8            \* the values of a uint8_t, 256

Quote     == "\""
Newline   == "\n"
Space     == " "
Separator == "x1f"          \* ARGUMENT_SEPARATOR

-----------------------------------------------------------------------------
(* Texts.                                                                  *)

Find(text, pattern) ==
  LET at == { i \in 1 .. Len(text) - Len(pattern) + 1 :
                SubSeq(text, i, i + Len(pattern) - 1) = pattern }
  IN IF at = {} THEN 0 ELSE Min(at)

FindFirstOf(text, c) == Find(text, << c >>)

\* The rest of a text, and at most n symbols of it.
Rest(text, i) == SubSeq(text, i, Len(text))
Substr(text, i, n) == SubSeq(text, i, Min({i + n - 1, Len(text)}))

\* Up to a position that may be missing, less a number of symbols: missing,
\* or too little, means up to the end.
Upto(text, i, n) == IF n < 0 THEN Rest(text, i) ELSE Substr(text, i, n)

Without(text, c) == SelectSeq(text, LAMBDA s : s # c)

\* The parts of a text between delimiters; the end of a text that ends with
\* a delimiter is no part.
RECURSIVE Split(_, _)
Split(text, delim) ==
  LET at == FindFirstOf(text, delim)
  IN CASE text = <<>> -> <<>>
       [] text # <<>> /\ at = 0 -> << text >>
       [] text # <<>> /\ at > 0 -> << SubSeq(text, 1, at - 1) >> \o Split(Rest(text, at + 1), delim)

Tokenize(parts, delim) ==
  LET all == FlattenSeq([i \in DOMAIN parts |-> Append(parts[i], delim)])
  IN IF all = <<>> THEN <<>> ELSE Front(all)

TrimOuter(text, c) ==
  LET left == IF text # <<>> /\ Head(text) = c THEN Tail(text) ELSE text
  IN IF left # <<>> /\ Last(left) = c THEN Front(left) ELSE left

SanitizeToken(text) == TrimOuter(Without(text, Quote), Space)
SanitizeArg(text) == Without(text, Quote)

-----------------------------------------------------------------------------
(* Environment files.                                                      *)

HEADER == <<"HEADER">>
DESCRIPTION == <<"DESCRIPTION">>
HASHTAGS == <<"HASHTAGS">>
REQUESTED_BY == <<"REQUESTED_BY">>
PROMOTE_SHARE == <<"PROMOTE_SHARE">>
LINK_BIO == <<"LINK_BIO">>
FILE_TYPE == <<"FILE_TYPE">>
USER == <<"USER">>
R_ARGS == <<"R_ARGS">>
REQUESTED_BY_PHRASE == <<"REQUESTED_BY", "_", "PHRASE">>

Shebang == << "#!", Newline >>
Entry(key, value) == key \o << "=", Quote >> \o value \o << Quote, Separator >>
Line(key, value) == Append(Entry(key, value), Newline)

\* A file of these keys and values, one line for each.
CreateEnvFile(pairs) ==
  Shebang \o FlattenSeq([i \in DOMAIN pairs |-> Line(pairs[i][1], pairs[i][2])])

\* The value of the first line that begins with the key, without the quote
\* that closes it; then without the quotes around it, or without any.
ReadEnvToken(env, key, is_json) ==
  LET start == Find(env, << Newline >> \o key)
      sub   == Rest(env, start + Len(key) + 2)
      value == IF start = 0 THEN <<>> ELSE Upto(sub, 1, FindFirstOf(sub, Separator) - 2)
  IN IF is_json THEN TrimOuter(value, Quote) ELSE SanitizeToken(value)

ReadEnvValues(env, keys) == [i \in DOMAIN keys |-> ReadEnvToken(env, keys[i], FALSE)]

ReadRunArgs(env) ==
  LET key   == R_ARGS \o << "=" >>
      start == Find(env, key)
      sub   == Rest(env, start)
  IN IF start = 0 THEN <<>>
     ELSE SanitizeToken(Upto(sub, Len(key) + 1, FindFirstOf(sub, Separator) - 1 - Len(key)))

\* The names after $ in a text of flags, each up to the next space.
RECURSIVE ExtractFlagTokens(_)
ExtractFlagTokens(flags) ==
  LET at    == FindFirstOf(flags, "$")
      start == Rest(flags, at)
      token == Upto(start, 2, FindFirstOf(start, Space) - 2)
  IN IF at = 0 THEN <<>> ELSE << token >> \o ExtractFlagTokens(Rest(start, Len(token) + 1))

ReadFlagTokens(env, flags) == ReadEnvValues(env, ExtractFlagTokens(flags))

-----------------------------------------------------------------------------
(* The files of a task.                                                    *)

Hang == -2   \* the counter of findIndexAfter has gone round for ever

\* Slip: the search starts at the beginning.
FindIndexAfterStart(s, pos, c) ==
  LET at(i, j) == { k \in i .. j : k < Len(s) /\ s[k + 1] = c }
  IN IF at(0, TwoTo8 - 1) # {} THEN Min(at(0, TwoTo8 - 1)) ELSE -1

\* The place of c at or after pos, from 0, as an 8-bit counter finds it.
FindIndexAfter(s, pos, c) ==
  LET at(i, j) == { k \in i .. j : k < Len(s) /\ s[k + 1] = c }
      ahead == at(pos % TwoTo8, TwoTo8 - 1)
      again == at(0, TwoTo8 - 1)
  IN CASE ahead # {} -> Min(ahead)
       [] ahead = {} /\ Len(s) < TwoTo8 -> -1
       [] ahead = {} /\ Len(s) >= TwoTo8 /\ again # {} -> Min(again)
       [] OTHER -> Hang

\* The names and times of a text of timestamps, names, | types and :.  A
\* position past the end throws, and so does an empty text.
RECURSIVE ParseFrom(_, _)
ParseFrom(info, index) ==
  LET timestamp == Substr(info, index + 1, TimestampLength)
      pipe  == FindIndexAfter(info, index, "|")
      name0 == index + TimestampLength
      name  == Upto(info, name0 + 1, pipe - name0)
      type0 == name0 + Len(name) + 1
      delim == FindIndexAfter(info, index, ":")
      type  == Upto(info, type0 + 1, delim - type0)
      next  == index + Len(timestamp) + Len(name) + Len(type) + 2
      rest  == IF next < Len(info) THEN ParseFrom(info, next) ELSE [ok |-> TRUE, files |-> <<>>]
  IN IF pipe = Hang \/ delim = Hang \/ name0 > Len(info) \/ type0 > Len(info)
     THEN [ok |-> FALSE, files |-> <<>>]
     ELSE [ok |-> rest.ok, files |-> << << name, timestamp >> >> \o rest.files]

ParseFileInfo(info) == ParseFrom(info, 0)

-----------------------------------------------------------------------------
(* The task handlers.                                                      *)

ParamKey(key) == << "--" >> \o key
AsExecutionFlag(key, prefix) == prefix \o ParamKey(key) \o << "=", "$" >> \o key

\* A text of flags for these keys.
Flags(keys) ==
  FlattenSeq([i \in DOMAIN keys |-> AsExecutionFlag(keys[i], IF i = 1 THEN <<>> ELSE << Space >>)])

GenericFlags == Flags(<< DESCRIPTION, FILE_TYPE, HEADER, USER >>)
IGFlags ==
  Flags(<< DESCRIPTION, HASHTAGS, REQUESTED_BY, FILE_TYPE, REQUESTED_BY_PHRASE,
           PROMOTE_SHARE, LINK_BIO, HEADER, USER >>)

MediaType(is_video) == << IF is_video = <<"1">> THEN "video" ELSE "image" >>

\* The task of a generic request: an environment of what is not empty.
PrepareGenericTask(argv) ==
  LET has_files == argv.file_info # <<>>
      parsed == IF has_files THEN ParseFileInfo(argv.file_info) ELSE [ok |-> TRUE, files |-> <<>>]
      asked  == << <<HEADER, argv.header>>, <<DESCRIPTION, argv.description>>,
                   <<USER, argv.user>>, <<R_ARGS, argv.runtime>>,
                   <<FILE_TYPE, IF has_files THEN MediaType(argv.is_video) ELSE <<>>>> >>
  IN [ ok |-> parsed.ok, datetime |-> argv.time, files |-> parsed.files,
       env |-> CreateEnvFile(SelectSeq(asked, LAMBDA p : p[2] # <<>>)),
       flags |-> GenericFlags ]

\* The task of an Instagram request: an environment of everything.
PrepareIGTask(argv) ==
  LET parsed == ParseFileInfo(argv.file_info)
  IN [ ok |-> parsed.ok, datetime |-> argv.time, files |-> parsed.files,
       env |-> CreateEnvFile(
                 << <<HEADER, argv.header>>, <<DESCRIPTION, argv.description>>,
                    <<HASHTAGS, argv.hashtags>>, <<REQUESTED_BY, argv.requested_by>>,
                    <<REQUESTED_BY_PHRASE, argv.requested_by_phrase>>,
                    <<PROMOTE_SHARE, argv.promote_share>>, <<LINK_BIO, argv.link_bio>>,
                    <<FILE_TYPE, MediaType(argv.is_video)>>, <<USER, argv.user>> >>),
       flags |-> IGFlags ]

\* A task the server makes for itself.
CreateGenericTask(description, header, user, args) ==
  PrepareGenericTask(
    [ file_info |-> <<>>, time |-> <<"now">>, description |-> description,
      is_video |-> <<"false">>, header |-> header,
      user |-> IF user = <<>> THEN <<"admin">> ELSE user, runtime |-> Tokenize(args, Space) ])

\* The environment and the flags of a task a trigger makes of another: the
\* tokens it maps, under their new names, and what its configuration adds.
TriggeredTask(task, map, configured) ==
  LET tokens == SelectSeq(ExtractFlagTokens(task.flags), LAMBDA token : token \in DOMAIN map)
      pairs  == [i \in DOMAIN tokens |->
                   << map[tokens[i]], ReadEnvToken(task.env, tokens[i], FALSE) >>] \o configured
  IN [ task EXCEPT
         !.env   = FlattenSeq([i \in DOMAIN pairs |-> << Newline >> \o Entry(pairs[i][1], pairs[i][2])]),
         !.flags = Flags([i \in DOMAIN pairs |-> pairs[i][1]]) ]

-----------------------------------------------------------------------------
(* The arguments of a run.                                                 *)

Validate(task) == task.datetime # <<>> /\ task.env # <<>> /\ task.flags # <<>>

ExecFlagsToVector(flags) ==
  LET parts == Split(flags, Space)
  IN [i \in DOMAIN parts |-> Rest(parts[i], FindFirstOf(parts[i], "$") + 1)]

\* The first appearance of the key, its parameter and what is between the
\* quotes that follow, quotes included.
ParseNamedArgument(flag, env) ==
  LET index  == Find(env, flag)
      parsed == Rest(env, index)
  IN IF index = 0 THEN <<>>
     ELSE ParamKey(flag) \o << "=" >>
            \o Upto(parsed, FindFirstOf(parsed, Quote),
                    FindFirstOf(parsed, Separator) - 1 - Len(flag) - 1)

ParseExecArguments(env) ==
  LET index  == Find(env, R_ARGS)
      parsed == Rest(env, index)
  IN IF index = 0 THEN <<>>
     ELSE Upto(parsed, FindFirstOf(parsed, Quote),
               FindFirstOf(parsed, Separator) - 1 - Len(R_ARGS) - 1)

ParseFilename(filename) == << "--", "filename", "=" >> \o filename

\* The arguments the program is started with; none, and it is not started.
PrepareRuntime(task, filenames) ==
  LET words == Split(ParseExecArguments(task.env), Space)
      keys  == ExecFlagsToVector(task.flags)
      named == [i \in DOMAIN keys |-> ParseNamedArgument(keys[i], task.env)]
  IN IF ~Validate(task) THEN <<>>
     ELSE [i \in DOMAIN words |-> SanitizeArg(words[i])]
            \o SelectSeq(named, LAMBDA arg : arg # <<>>)
            \o [i \in DOMAIN filenames |-> ParseFilename(filenames[i])]

=============================================================================
