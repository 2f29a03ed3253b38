----------------------------- MODULE MCDatabase -----------------------------
(***************************************************************************)
(* The database for TLC, in three kinds of behaviour: the calls the server *)
(* makes on a table of tasks and one of their recurrences, with texts that *)
(* hold quotes and texts that hold nothing; the posts of four platforms,   *)
(* reported by two threads; and tasks with files, scheduled by two threads *)
(* and read meanwhile.                                                     *)
(***************************************************************************)
EXTENDS Database, PostRecords, TaskRecords

VARIABLE kind

MCColumns == [schedule |-> {"name", "time"}, recurring |-> {"sid", "time"}]
MCNumeric == { <<"schedule", "time">>, <<"recurring", "sid">>, <<"recurring", "time">> }

Names == { <<>>, <<"a">>, <<"a", "'">> }
Times == { <<>>, <<"1">>, <<"2">> }
Ids   == { <<"1">>, <<"2">> }

Name == <<"schedule", "name">>
Time == <<"schedule", "time">>
Id   == <<"schedule", "id">>
Due  == <<"recurring", "time">>

Asked ==
  { <<>> } \cup { << <<Name, n>> >> : n \in Names }
           \cup { << <<Name, n>>, <<Time, t>> >> : n \in Names, t \in Times }
           \cup { << <<Id, i>>, <<Id, j>> >> : i \in Ids, j \in Ids \cup {<<>>} }
           \cup { << <<Time, t>>, <<Name, <<"a">>>> >> : t \in Times }

\* Fewer for the calls that change rows.
AskedToChange ==
  { <<>>, << <<Name, <<"a", "'">>>> >>, << <<Name, <<"a">>>>, <<Time, <<"1">>>> >>,
    << <<Time, <<>>>>, <<Name, <<"a">>>> >>, << <<Id, <<"1">>>>, <<Id, <<"2">>>> >> }

Comp(a, sign, b) == [type |-> "Comp", a |-> a, sign |-> sign, b |-> b]
Between(f, a, b) == [type |-> "CompBetween", field |-> f, from |-> a, to |-> b]
Options(f, o) == [type |-> "MultiOption", field |-> f, comparison |-> "IN", options |-> o]
Pairs(p) == [type |-> "Query", pairs |-> CreateFilter(p)]

\* Filters as the scheduler and the research manager combine them.
Combined ==
  { <<>>, << Between(Column(Time), <<"1">>, <<"1">>) >>,
    << Comp(Bare(<<"2">>), ">", Column(Time)), Options(Column(Id), << <<"1">>, <<"3">> >>) >>,
    << Comp(Column(Time), "<>", Bare(<<"1">>)) >> }
  \cup { << Comp(Column(Time), "<", Bare(<<"2">>)), Pairs(<< <<Name, n>> >>) >> : n \in Names }

Joined(type) ==
  << [table |-> "recurring", field |-> "sid", join_table |-> "schedule", join_field |-> "id",
      type |-> type] >>

-----------------------------------------------------------------------------
(* Four platforms: the posts of YT by one user and those of TW Search are   *)
(* reposted on Mastodon, where the user has an affiliate.                   *)

MCPlatforms ==
  { [id |-> <<"1">>, name |-> <<"YT">>], [id |-> <<"2">>, name |-> <<"none">>],
    [id |-> <<"3">>, name |-> <<"Mastodon">>], [id |-> <<"4">>, name |-> <<"TW Search">>] }
MCReposts == { [pid |-> <<"1">>, r_pid |-> <<"3">>], [pid |-> <<"4">>, r_pid |-> <<"3">>] }
MCFilters ==
  { [pid |-> <<"1">>, rpid |-> <<"3">>, type |-> "user", value |-> <<"v">>],
    [pid |-> <<"1">>, rpid |-> <<"3">>, type |-> "default", value |-> <<"false">>] }
MCUsers ==
  << [pid |-> <<"3">>, name |-> <<"v">>, type |-> <<"ad">>],
     [pid |-> <<"3">>, name |-> <<"w">>, type |-> <<"ad">>] >>
MCAffiliates == { [uid |-> 1, a_uid |-> 2] }
MCNoOrigin == <<"2">>
MCDefaultUser == <<"d">>

Report(name, id, user, repost) ==
  [pid |-> <<>>, o_pid |-> NO_ORIGIN, id |-> id, user |-> user, time |-> <<"9">>, content |-> id,
   repost |-> repost, name |-> name, status |-> <<>>]
MCReported ==
  { Report(<<"YT">>, <<"a">>, <<"v">>, <<"true">>), Report(<<"YT">>, <<"b">>, <<"u">>, <<"1">>),
    Report(<<"TW Search">>, <<"c">>, <<>>, <<"t">>), Report(<<"Mastodon">>, <<"a">>, <<"v">>, <<"true">>),
    Report(<<"X">>, <<"d">>, <<"x">>, <<"true">>) }

(* Tasks with two files and with none, one of an application that was       *)
(* registered after the server had started.                                 *)

TaskInput(mask, env, recurring, filesOf) ==
  [time |-> 17, mask |-> mask, flags |-> <<"user", "text">>, env |-> env, recurring |-> recurring,
   notify |-> recurring = 0, files |-> filesOf]
FileOf(name, extension) == [name |-> name, extension |-> extension]
EnvOf(user) == [user |-> user, text |-> "hi", R_ARGS |-> "r"]
MCTaskInputs ==
  { TaskInput(1, EnvOf("u"), 0, << FileOf(<<"a", "b">>, "jpg"), FileOf(<<"c">>, "mp4") >>),
    TaskInput(1, EnvOf("v"), 1, << FileOf(<<"d">>, "jpg") >>),
    TaskInput(2, EnvOf("u"), 1, <<>>), TaskInput(3, EnvOf("v"), 0, <<>>) }
MCMaskNames == 1 :> "bot" @@ 2 :> "feed"
MCApps == {1, 2, 3}
TriggerOf(mask, trigger_mask, value, map, config) ==
  [mask |-> mask, trigger_mask |-> trigger_mask, token_name |-> "user", token_value |-> value,
   map |-> map, config |-> config]
MCTriggerRows ==
  << TriggerOf(1, 4, "u", <<>>, <<>>),
     TriggerOf(1, 2, "u", "user" :> "to" @@ "text" :> "body",
               << [token_name |-> "key", value |-> "k"], [token_name |-> "none", value |-> ""] >>),
     TriggerOf(2, 3, "u", "user" :> "to", <<>>), TriggerOf(2, 1, "w", <<>>, <<>>),
     TriggerOf(3, 1, "v", "other" :> "to", <<>>) >>
MCTriggerArgs ==
  { [mask |-> 1, trigger_mask |-> 2, map_num |-> 1, config_num |-> 1, size |-> size] : size \in {6, 9, 10} }
  \cup { [mask |-> 1, trigger_mask |-> 4, map_num |-> 1, config_num |-> 0, size |-> 7] }
MCRanges == { <<"0", "T", "O", "0">>, <<"9", "T", "O", "9">>, <<"9", "T">>, <<"3", "3">>, <<"1", "7">> }
MCInterval == <<10>>

-----------------------------------------------------------------------------

InsertTask ==
  \E n \in Names, t \in Times :
    Insert([table |-> "schedule", fields |-> <<"name", "time">>, values |-> <<n, t>>])

InsertTasks ==
  \E values \in { << <<"a">>, <<"1">>, <<"'", "'">>, <<"2">> >>, << <<"a">>, <<"1">>, <<"a">> >> } :
    Insert([table |-> "schedule", fields |-> <<"name", "time">>, values |-> values])

InsertRecurring ==
  \E i \in Ids, t \in { <<>>, <<"1">> } :
    Insert([table |-> "recurring", fields |-> <<"sid", "time">>, values |-> <<i, t>>])

UpdateTasks ==
  \E asked \in AskedToChange, n \in Names :
    Update([table |-> "schedule", fields |-> <<"name">>, values |-> <<n>>,
            asked |-> asked, filter |-> CreateFilter(asked)])

UpdateUneven ==
  Update([table |-> "schedule", fields |-> <<"name", "time">>, values |-> << <<"a">> >>,
          asked |-> << <<Id, <<"1">>>> >>, filter |-> CreateFilter(<< <<Id, <<"1">>>> >>)])

RemoveTasks ==
  \E asked \in AskedToChange :
    RemoveRows([table |-> "schedule", asked |-> asked, filter |-> CreateFilter(asked)])

SelectTasks ==
  \E asked \in Asked :
    SelectPairs([table |-> "schedule", fields |-> <<Id, Name>>, asked |-> asked,
                 filter |-> CreateFilter(asked)])

SelectCompared ==
  \E n \in 0 .. 2 :
    SelectCompare([table |-> "schedule", fields |-> <<Id>>,
                   filter |-> SubSeq(<< Comp(Column(Time), "<", Bare(<<"2">>)),
                                        Comp(Column(Id), ">", Bare(<<"1">>)) >>, 1, n)])

SelectCombined ==
  \E filters \in Combined, order \in { <<>>, <<Id, "DESC">>, <<Id, "ASC">> }, limit \in {0, 1} :
    SelectMultiFilter([table |-> "schedule", fields |-> <<Id>>, filter |-> filters,
                       order |-> order, limit |-> limit])

SelectJoinedTasks ==
  \E filters \in Combined, type \in {"INNER", "OUTER"} :
    SelectJoined([table |-> "schedule", fields |-> <<Id, Due>>, filter |-> filters,
                  type |-> type, joins |-> Joined(type)])

SelectOneJoin ==
  \E asked \in Asked, type \in {"INNER", "OUTER"} :
    SelectSimple([table |-> "schedule", fields |-> <<Id, Due>>, asked |-> asked,
                  type |-> type, filter |-> CreateFilter(asked), joins |-> Joined(type)])

\* A call that left the tables as they were is not followed by another, here
\* and below: what follows it also follows the call before it.
Moved == last.op = "none" \/ (last.op \in {"insert", "update", "remove"} /\ last.ok)

CallStep ==
  /\ kind = "calls"
  /\ Moved
  /\ \/ InsertTask \/ InsertTasks \/ InsertRecurring
     \/ UpdateTasks \/ UpdateUneven \/ RemoveTasks
     \/ SelectTasks \/ SelectCompared \/ SelectCombined \/ SelectJoinedTasks \/ SelectOneJoin
  /\ UNCHANGED <<postVars, taskVars, kind>>

PostStep ==
  /\ kind = "posts"
  /\ fetched = NoFetch
  /\ PostsNext
  /\ UNCHANGED <<vars, taskVars, kind>>
TaskStep ==
  /\ kind = "tasks"
  /\ reply.op \in {"none", "status", "triggers"}
  /\ TasksNext
  /\ UNCHANGED <<vars, postVars, kind>>

Start == Init /\ PostsInit /\ TasksInit /\ kind \in {"calls", "posts", "tasks"}

Spec ==
  /\ Start
  /\ [][CallStep \/ PostStep \/ TaskStep]_<<vars, postVars, taskVars, kind>>

-----------------------------------------------------------------------------
(* What is asked, said without statements.                                 *)

\* The pairs that ask for something, and the tasks that have all of them; two
\* pairs of one column at the start ask for either.
Asks(asked) == { p \in Range(asked) : p[2] # <<>> }
Either(asked) == Len(asked) = 2 /\ asked[1][1] = asked[2][1] /\ asked[2][2] # <<>>
Meets(row, asked) ==
  IF Either(asked) THEN \E p \in Asks(asked) : row[p[1][2]] = p[2]
  ELSE \A p \in Asks(asked) : row[p[1][2]] = p[2]

\* The same for the filters of Combined, each by what it says of a task.
Says(row, f) ==
  CASE f.type = "CompBetween" -> ToNumber(row.time) \in ToNumber(f.from) .. ToNumber(f.to)
    [] f.type = "MultiOption" -> row.id \in Range(f.options)
    [] f.type = "Query" -> \A p \in Range(f.pairs) : Unquote(p[2]).text = row.name
    [] f.type = "Comp" /\ f.a.kind = "bare" -> ToNumber(f.a.of) > ToNumber(row.time)
    [] f.type = "Comp" /\ f.a.kind = "column" /\ f.sign = "<>" -> row.time # f.b.of
    [] f.type = "Comp" /\ f.a.kind = "column" /\ f.sign = "<" -> ToNumber(row.time) < ToNumber(f.b.of)

Tasks(test(_)) == { r \in Range(tables.schedule) : test(r) }
Recurrences(row) == { r \in Range(tables.recurring) : r.sid = row.id }

\* The pairs of an id and a next time that a join of these tasks returns.
Joins(rows, type) ==
  UNION { { << r.id, q.time >> : q \in Recurrences(r) } : r \in rows }
  \cup (IF type = "INNER" THEN {}
        ELSE { << r.id, <<>> >> : r \in { r \in rows : Recurrences(r) = {} } })

Returned(fields) ==
  { [i \in DOMAIN fields |-> last.values[k][fields[i]]] : k \in DOMAIN last.values }

\* A select returns the rows that satisfy its filter, whatever quotes the
\* texts hold; one with an empty filter returns every row, and a list of
\* filters one of which is empty is refused (helpers.hpp SelectVisitor).
AnswersTheFilter ==
  CASE last.op = "select" ->
         /\ last.ok
         /\ Returned(<<Id, Name>>) = { << r.id, r.name >> : r \in Tasks(LAMBDA r : Meets(r, last.query.asked)) }
    [] last.op = "simple" ->
         last.ok /\ (~Either(last.query.asked) =>
            Returned(<<Id, Due>>)
              = Joins(Tasks(LAMBDA r : Meets(r, last.query.asked)), last.query.type))
    [] last.op = "variant" ->
         LET asked == last.query.filter
             rows  == Tasks(LAMBDA r : \A f \in Range(asked) : Says(r, f))
         IN IF \E f \in Range(asked) : f.type = "Query" /\ f.pairs = <<>> THEN ~last.ok
            ELSE /\ last.ok
                 /\ Returned(<<Id>>) \subseteq { << r.id >> : r \in rows }
                 /\ Len(last.values) = IF asked # <<>> /\ last.query.limit = 1 /\ rows # {}
                                       THEN 1 ELSE Cardinality(rows)
    [] last.op = "join" ->
         LET asked == last.query.filter
             rows  == Tasks(LAMBDA r : \A f \in Range(asked) : Says(r, f))
         IN IF asked = <<>> \/ \E f \in Range(asked) : f.type = "Query" /\ f.pairs = <<>>
            THEN ~last.ok
            ELSE last.ok /\ Returned(<<Id, Due>>) = Joins(rows, last.query.type)
    [] OTHER -> TRUE

Plain(text) == "'" \notin Range(text)

\* An insertion stores its values as they were given, an empty one as NULL;
\* an update stores texts without quotes in exactly the rows its filter
\* selects; a deletion takes every row of its filter and none that shares no
\* pair with it; and a call that fails changes nothing (helpers.hpp
\* values_string, update_statement, delete_statement).
StoresTheValues ==
  [][ LET q == last'.query
          rows == tables.schedule  rows2 == tables'.schedule
          stored(v) == IF v = <<>> THEN <<"N", "U", "L", "L">> ELSE v
      IN /\ ("ok" \in DOMAIN last' /\ ~last'.ok) => tables' = tables
         /\ last'.op = "insert" /\ last'.ok =>
              LET n == Len(q.fields)  new == SubSeq(tables'[q.table], Len(tables[q.table]) + 1, Len(tables'[q.table]))
              IN \A i \in DOMAIN q.values :
                   new[((i - 1) \div n) + 1][q.fields[((i - 1) % n) + 1]] = stored(q.values[i])
         /\ last'.op = "update" /\ Len(q.fields) = 1 /\ Plain(q.values[1]) /\ Asks(q.asked) # {} =>
              /\ last'.ok
              /\ \A i \in DOMAIN rows :
                   rows2[i] = IF \A p \in Asks(q.asked) : rows[i][p[1][2]] = p[2]
                              THEN [rows[i] EXCEPT !.name = q.values[1]] ELSE rows[i]
         /\ last'.op = "remove" /\ last'.ok =>
              /\ \A r \in Range(rows2) : r \in Range(rows) /\ \E p \in Asks(q.asked) : r[p[1][2]] # p[2]
              /\ \A r \in Range(rows) \ Range(rows2) : \E p \in Asks(q.asked) : r[p[1][2]] = p[2]
              /\ (last'.values # <<>>) <=> (rows # rows2)
    ]_vars

=============================================================================
