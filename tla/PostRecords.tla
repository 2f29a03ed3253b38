---------------------------- MODULE PostRecords ----------------------------
(***************************************************************************)
(* What the posts of the platforms leave in the database and on disk       *)
(* (system/process/platform.cpp, platform_utils.cpp): rows of              *)
(* "platform_user" and "platform_post" and one env file per post, written  *)
(* by the threads that report posts, one transaction at a time, and read   *)
(* back by the loop that requests the incomplete ones.                     *)
(*                                                                         *)
(* A text is a sequence, << >> when it is empty; the content of a post     *)
(* stands for all that its env file holds.  The tables of platforms,       *)
(* reposts, filters and affiliates are written by no part of the server.   *)
(***************************************************************************)
EXTENDS Naturals, Sequences, SequencesExt

CONSTANTS PlatformRows,   \* rows of "platform", of "platform_repost", of
          RepostRows,     \* "platform_filter" and "platform_affiliate_user",
          FilterRows,
          AffiliateRows,
          UserRows,       \* and of "platform_user" at first
          NO_ORIGIN,      \* NO_ORIGIN_PLATFORM_EXISTS
          DefaultUser,
          Reported,       \* the posts that bots and clients report
          Threads,
          MaxReports,     \* bound on the reports
          MaxEnds         \* bound on the ends of the process

\* A symbol of a text is a string; those of a new uuid are the numbers of the
\* thread and of the call that makes it.
Texts == Seq(STRING \cup Nat)

\* Said for the proofs: no installed prover knows a literal for a string.
ASSUME LiteralsAssumption ==
  {"0", "1", "2", "false", "default", "NULL", "uuid"} \subseteq STRING

Posts ==
  [pid : Texts, o_pid : Texts, id : Texts, user : Texts, time : Texts, content : Texts,
   repost : Texts, name : Texts, status : Texts]
Users == [pid : Texts, name : Texts, type : Texts]

\* The columns' types; the rows of a platform have its id, which no row lacks
\* (the constraints of kiq_schema.sql).
ASSUME TablesAssumption ==
  /\ PlatformRows \subseteq [id : Texts \ {<<>>}, name : Texts]
  /\ RepostRows \subseteq [pid : Texts, r_pid : { p.id : p \in PlatformRows }]
  /\ AffiliateRows \subseteq [uid : DOMAIN UserRows, a_uid : DOMAIN UserRows]
  /\ UserRows \in Seq(Users)
  /\ {NO_ORIGIN, DefaultUser} \subseteq Texts

\* A post that is reported has no origin yet, and an id: a new one where the
\* payload has none (PlatformPost::FromPayload).
ASSUME ReportedAssumption == Reported \subseteq { p \in Posts : p.o_pid = NO_ORIGIN /\ p.id # <<>> }

ASSUME PostBoundsAssumption == {MaxReports, MaxEnds} \subseteq Nat /\ Threads \subseteq Nat

VARIABLES users,     \* rows of "platform_user", a row's id being its position
          posts,     \* rows of "platform_post"
          files,     \* the content of each env file
          work,      \* the calls of SavePlatformPost each thread is in
          cut,       \* the posts whose call an exception or the end cut short
          reports,
          ends,
          fetched    \* what the last call of Fetch returned

postVars == <<users, posts, files, work, cut, reports, ends, fetched>>

NoFetch == [pending |-> FALSE, posts |-> {}]

PostsInit ==
  /\ users = UserRows
  /\ posts = <<>>
  /\ files = << >>
  /\ work = [t \in Threads |-> <<>>]
  /\ cut = {}
  /\ reports = 0
  /\ ends = 0
  /\ fetched = NoFetch
-----------------------------------------------------------------------------
(***************************************************************************)
(* Queries.  Rows come in any order, as a select without an order returns  *)
(* them: where the code takes the first, an operator is the set of what    *)
(* that may be.                                                            *)
(***************************************************************************)
\* a pair with an empty text is left out of a filter
Passes(value, text) == text = <<>> \/ value = text

FirstOf(values, none) == IF values = {} THEN {none} ELSE values

GetPlatformID(name) == FirstOf({ p.id : p \in { p \in PlatformRows : Passes(p.name, name) } }, <<>>)
GetPlatform(pid)    == FirstOf({ p.name : p \in { p \in PlatformRows : Passes(p.id, pid) } }, <<>>)

\* Slip: a name is looked up on every platform
GetUIDAnywhere(pid, name) == FirstOf({ u \in DOMAIN users : Passes(users[u].name, name) }, 0)

\* 0: no such user
GetUID(pid, name) ==
  FirstOf({ u \in DOMAIN users : Passes(users[u].pid, pid) /\ Passes(users[u].name, name) }, 0)

FetchRepostIDs(pid) == { r \in RepostRows : Passes(r.pid, pid) }

GetFilters(pid, rpid) == { f \in FilterRows : Passes(f.pid, pid) /\ Passes(f.rpid, rpid) }

\* some filter says yes, or there is none; one of another type repeats what
\* the filter before it said, which was no
ValidateRepost(filters, user) ==
  \/ filters = {}
  \/ \E f \in filters :
       \/ f.type = "user" /\ user = f.value
       \/ f.type = "default" /\ f.value \in {<<"true">>, <<"t">>, <<"1">>}

GetValidUser(pid, name) == IF <<"TW Search">> \in GetPlatform(pid) THEN DefaultUser ELSE name

MustRepost(text) == text \in {<<"1">>, <<"true">>, <<"t">>}

PostAlreadyExists(post) ==
  \E i \in DOMAIN posts :
    /\ Passes(posts[i].pid, post.pid)
    /\ Passes(users[posts[i].uid].name, post.user)
    /\ Passes(posts[i].unique_id, post.id)
-----------------------------------------------------------------------------
(***************************************************************************)
(* The posts a post calls for.                                             *)
(***************************************************************************)
MakeRepost(post, pid) ==
  [post EXCEPT !.pid = pid, !.o_pid = post.pid, !.user = GetValidUser(post.pid, post.user),
               !.status = <<>>]

\* GenerateUUIDString: a text no other call returns
FreshId(t, row, post) == << "uuid", t, reports, Len(posts), row.uid, row.a_uid >> \o post.id

MakeAffiliatePost(id, name, type, post) ==
  [post EXCEPT !.id = id, !.o_pid = post.pid, !.user = name,
               !.repost = <<"false">>, !.content = type \o @, !.status = <<>>]

\* one for each affiliate of each user the post's user and platform select
MakeAffiliatePosts(t, post) ==
  { MakeAffiliatePost(FreshId(t, row, post), users[row.a_uid].name, users[row.uid].type, post) :
      row \in { row \in AffiliateRows : /\ Passes(users[row.uid].name, post.user)
                                       /\ Passes(users[row.uid].pid, post.pid) } }
-----------------------------------------------------------------------------
(***************************************************************************)
(* SavePlatformPost: each thread has a stack of calls, and every query is  *)
(* a transaction of its own.  "rows" are the reposts a call has yet to     *)
(* come to, "from" the post whose affiliates are saved next or now,        *)
(* "affiliates" those left, and "next" where it goes on after them.        *)
(***************************************************************************)
Call(post, status) ==
  [post |-> post, status |-> status, at |-> "exists", uid |-> 0, rows |-> {},
   from |-> post, affiliates |-> {}, next |-> "file"]

Top(t)         == Last(work[t])
At(t, place)   == work[t] # <<>> /\ Top(t).at = place
Return(t)      == work' = [work EXCEPT ![t] = Front(@)]
Goto(t, frame) == work' = [work EXCEPT ![t] = Append(Front(@), frame)]
Save(t, frame, post) ==
  work' = [work EXCEPT ![t] = Append(Append(Front(@), frame), Call(post, <<"0">>))]

\* an exception leaves every call the thread is in
Throw(t) ==
  /\ cut' = cut \cup { work[t][i].post : i \in DOMAIN work[t] }
  /\ work' = [work EXCEPT ![t] = <<>>]

\* the payload's platform is a name
ReportPost(t, post) ==
  /\ work[t] = <<>>
  /\ reports < MaxReports
  /\ reports' = reports + 1
  /\ \E pid \in GetPlatformID(post.name) :
       work' = [work EXCEPT ![t] = << Call([post EXCEPT !.pid = pid], <<"1">>) >>]
  /\ fetched' = NoFetch
  /\ UNCHANGED <<users, posts, files, cut, ends>>

\* Update: the rows of the post's user get the status
UpdatePost(post, status) ==
  \E uid \in GetUID(post.pid, post.user) :
    LET hit(row) == Passes(row.pid, post.pid) /\ Passes(row.unique_id, post.id) /\ uid \in {0, row.uid}
    IN posts' = IF post.id = <<>> \/ post.user = <<>> THEN posts
                ELSE [i \in DOMAIN posts |-> IF hit(posts[i]) THEN [posts[i] EXCEPT !.status = status]
                                                             ELSE posts[i]]

CheckExists(t) ==
  /\ At(t, "exists")
  /\ LET call == Top(t)
         status == IF call.post.status = <<>> THEN call.status ELSE call.post.status
     IN IF PostAlreadyExists(call.post)
        THEN UpdatePost(call.post, status) /\ Return(t)
        ELSE Goto(t, [call EXCEPT !.at = "user"]) /\ UNCHANGED posts
  /\ fetched' = NoFetch
  /\ UNCHANGED <<users, files, cut, reports, ends>>

FindUser(t) ==
  /\ At(t, "user")
  /\ \E uid \in GetUID(Top(t).post.pid, Top(t).post.user) :
       Goto(t, [Top(t) EXCEPT !.uid = uid, !.at = IF uid = 0 THEN "add" ELSE "insert"])
  /\ fetched' = NoFetch
  /\ UNCHANGED <<users, posts, files, cut, reports, ends>>

\* the schema: a user must have a platform; an empty name is stored as NULL
AddUser(t) ==
  /\ At(t, "add")
  /\ LET post == Top(t).post
     IN IF post.pid \notin { p.id : p \in PlatformRows }
        THEN Throw(t) /\ UNCHANGED users
        ELSE /\ users' = Append(users, [pid  |-> post.pid, type |-> <<"default">>,
                                        name |-> IF post.user = <<>> THEN <<"NULL">> ELSE post.user])
             /\ Goto(t, [Top(t) EXCEPT !.uid = Len(users) + 1, !.at = "insert"])
             /\ UNCHANGED cut
  /\ fetched' = NoFetch
  /\ UNCHANGED <<posts, files, reports, ends>>

\* the schema: a post has a platform and an origin, and a user has one row of it
Insertable(post, uid) ==
  /\ {post.pid, post.o_pid} \subseteq { p.id : p \in PlatformRows }
  /\ \A i \in DOMAIN posts :
       ~(posts[i].pid = post.pid /\ posts[i].unique_id = post.id /\ posts[i].uid = uid)

InsertPost(t) ==
  /\ At(t, "insert")
  /\ LET call == Top(t)
         post == call.post
     IN IF Insertable(post, call.uid)
        THEN /\ posts' = Append(posts, [pid |-> post.pid, unique_id |-> post.id, time |-> post.time,
                                        o_pid |-> post.o_pid, uid |-> call.uid,
                                        status |-> call.status, repost |-> post.repost])
             /\ Goto(t, IF MustRepost(post.repost) /\ post.o_pid = NO_ORIGIN
                        THEN [call EXCEPT !.at = "reposts", !.rows = FetchRepostIDs(post.pid)]
                        ELSE [call EXCEPT !.at = "file"])
             /\ UNCHANGED cut
        ELSE Throw(t) /\ UNCHANGED posts
  /\ fetched' = NoFetch
  /\ UNCHANGED <<users, files, reports, ends>>

\* the next platform that reposts, unless its filters refuse the post's user;
\* the repost is incomplete at first
SaveRepost(t) ==
  /\ At(t, "reposts")
  /\ \E row \in Top(t).rows :
       LET call   == [Top(t) EXCEPT !.rows = @ \ {row}]
           repost == MakeRepost(call.post, row.r_pid)
       IN IF ValidateRepost(GetFilters(call.post.pid, row.r_pid), call.post.user)
          THEN Save(t, [call EXCEPT !.at = "reposted", !.from = repost], repost)
          ELSE Goto(t, call)
  /\ fetched' = NoFetch
  /\ UNCHANGED <<users, posts, files, cut, reports, ends>>

\* the affiliates of a repost once it is saved, those of the post at last
FindAffiliates(t) ==
  /\ LET call == Top(t)
     IN \/ /\ At(t, "reposted")
           /\ Goto(t, [call EXCEPT !.at = "affiliates", !.next = "reposts",
                                   !.affiliates = MakeAffiliatePosts(t, call.from)])
        \/ /\ At(t, "reposts") /\ call.rows = {}
           /\ Goto(t, [call EXCEPT !.at = "affiliates", !.next = "file", !.from = call.post,
                                   !.affiliates = MakeAffiliatePosts(t, call.post)])
  /\ fetched' = NoFetch
  /\ UNCHANGED <<users, posts, files, cut, reports, ends>>

SaveAffiliate(t) ==
  /\ At(t, "affiliates")
  /\ LET call == Top(t)
     IN \/ \E post \in call.affiliates : Save(t, [call EXCEPT !.affiliates = @ \ {post}], post)
        \/ call.affiliates = {} /\ Goto(t, [call EXCEPT !.at = call.next])
  /\ fetched' = NoFetch
  /\ UNCHANGED <<users, posts, files, cut, reports, ends>>

GetEnvPath(id, time, pid) == time \o id \o pid

\* a file that is there is overwritten, one that is not reads as empty
SaveEnvFile(path, text) ==
  files' = [p \in DOMAIN files \cup {path} |-> IF p = path THEN text ELSE files[p]]
ReadEnvFile(path) == IF path \in DOMAIN files THEN files[path] ELSE <<>>

\* last of all the env file of the post
SavePlatformEnvFile(t) ==
  /\ At(t, "file")
  /\ LET post == Top(t).post
     IN SaveEnvFile(GetEnvPath(post.id, post.time, post.pid), post.content)
  /\ Return(t)
  /\ fetched' = NoFetch
  /\ UNCHANGED <<users, posts, cut, reports, ends>>

\* OnPlatformError, as far as the tables go
FailPost(post) ==
  /\ \E pid \in GetPlatformID(post.name) : UpdatePost([post EXCEPT !.pid = pid], <<"2">>)
  /\ posts' # posts
  /\ fetched' = NoFetch
  /\ UNCHANGED <<users, files, work, cut, reports, ends>>

\* the process ends in the middle of what its threads do
EndProcess ==
  /\ ends < MaxEnds
  /\ \E t \in Threads : work[t] # <<>>
  /\ ends' = ends + 1
  /\ cut' = cut \cup UNION { { work[t][i].post : i \in DOMAIN work[t] } : t \in Threads }
  /\ work' = [t \in Threads |-> <<>>]
  /\ fetched' = NoFetch
  /\ UNCHANGED <<users, posts, files, reports>>
-----------------------------------------------------------------------------
(***************************************************************************)
(* Reading them back.                                                      *)
(***************************************************************************)
EnvPath(row) == GetEnvPath(row.unique_id, row.time, row.pid)

\* PopulatePlatformPost gets a value for every key, empty where there is no
\* file, so that ParsePlatformPosts leaves out no post
PopulatePlatformPost(row) == ReadEnvFile(EnvPath(row))

ParsePost(row, platform) ==
  [pid |-> row.pid, o_pid |-> row.o_pid, id |-> row.unique_id, user |-> users[row.uid].name,
   time |-> row.time, name |-> platform.name, status |-> row.status,
   content |-> PopulatePlatformPost(row)]

\* the posts' rows joined with those of their platforms
ParsePlatformPosts(rows) ==
  { ParsePost(posts[x[1]], x[2]) :
      x \in { x \in rows \X PlatformRows : x[2].id = posts[x[1]].pid } }

\* Slip: the pending posts are those already made
FetchComplete(pending) ==
  /\ fetched = NoFetch
  /\ fetched' = [pending |-> pending,
                 posts   |-> ParsePlatformPosts({ i \in DOMAIN posts :
                               pending => posts[i].status = <<"1">> })]
  /\ UNCHANGED <<users, posts, files, work, cut, reports, ends>>

Fetch(pending) ==
  /\ fetched = NoFetch
  /\ fetched' = [pending |-> pending,
                 posts   |-> ParsePlatformPosts({ i \in DOMAIN posts :
                               pending => posts[i].status = <<"0">> })]
  /\ UNCHANGED <<users, posts, files, work, cut, reports, ends>>

PostsNext ==
  \/ \E t \in Threads :
       \/ \E post \in Reported : ReportPost(t, post)
       \/ CheckExists(t) \/ FindUser(t) \/ AddUser(t) \/ InsertPost(t)
       \/ SaveRepost(t) \/ FindAffiliates(t) \/ SaveAffiliate(t) \/ SavePlatformEnvFile(t)
  \/ \E post \in Reported : FailPost(post)
  \/ EndProcess
  \/ \E pending \in BOOLEAN : Fetch(pending)

PostsSpec == PostsInit /\ [][PostsNext]_postVars
-----------------------------------------------------------------------------
(***************************************************************************)
(* Properties.                                                             *)
(***************************************************************************)
\* the row is that of a post some thread is saving, or whose call was cut
IsRowOf(row, post) == row.pid = post.pid /\ row.unique_id = post.id
Unfinished(row) ==
  \/ \E post \in cut : IsRowOf(row, post)
  \/ \E t \in Threads : \E i \in DOMAIN work[t] : IsRowOf(row, work[t][i].post)

\* The name in a report, of which the row keeps the user's: that or none.
NamesOf(row) == {<<>>, users[row.uid].name}
Accepts(r, name) == ValidateRepost(GetFilters(r.pid, r.r_pid), name)

\* A post whose call returned is saved in full, whatever the other threads
\* save: its user is one of its platform, it has its env file, and each
\* platform that reposts its platform's posts has a row of it unless the
\* filters refuse its user.  A row that names an origin is there because of a
\* row of that platform: an affiliate's on the same platform, or a post that
\* is to be reposted and that the filters accept (Platform::SavePlatformPost).
SavedInFull ==
  \A i \in DOMAIN posts :
    LET row == posts[i]
    IN /\ users[row.uid].pid = row.pid
       /\ Unfinished(row) \/ EnvPath(row) \in DOMAIN files
       /\ MustRepost(row.repost) /\ row.o_pid = NO_ORIGIN /\ ~Unfinished(row) =>
            \A r \in RepostRows :
              r.pid = row.pid /\ (\A name \in NamesOf(row) : Accepts(r, name)) =>
                \E j \in DOMAIN posts : posts[j].pid = r.r_pid /\ posts[j].unique_id = row.unique_id
       /\ row.o_pid # NO_ORIGIN =>
            \E j \in DOMAIN posts :
              /\ posts[j].pid = row.o_pid
              /\ \/ row.pid = row.o_pid
                 \/ /\ posts[j].unique_id = row.unique_id /\ MustRepost(posts[j].repost)
                    /\ \E r \in RepostRows, name \in NamesOf(posts[j]) :
                         r.pid = row.o_pid /\ r.r_pid = row.pid /\ Accepts(r, name)

Ends(text, end) ==
  Len(end) <= Len(text) /\ SubSeq(text, Len(text) - Len(end) + 1, Len(text)) = end

\* The content is that of a report with this id, or, for an affiliate, one
\* that ends with it.
IsContentOf(content, id) == \E r \in Reported : Ends(id, r.id) /\ Ends(content, r.content)

\* Fetch finds every incomplete post and no other, and gives each the content
\* it was reported with, or none while its call has yet to write the env file
\* or was cut before: never the content of another, unless their ids and
\* platforms make the same name of a file (Platform::Fetch, GetEnvPath).
FetchedIsOwn ==
  fetched # NoFetch =>
    /\ \A p \in fetched.posts :
         LET path == GetEnvPath(p.id, p.time, p.pid)
         IN /\ fetched.pending => p.status = <<"0">>
            /\ (\A i \in DOMAIN posts : EnvPath(posts[i]) = path => posts[i].unique_id = p.id) =>
                 \/ IsContentOf(p.content, p.id)
                 \/ p.content = <<>> /\ Unfinished([pid |-> p.pid, unique_id |-> p.id])
    /\ \A i \in DOMAIN posts :
         (fetched.pending => posts[i].status = <<"0">>) =>
           \E p \in fetched.posts : /\ p.pid = posts[i].pid /\ p.id = posts[i].unique_id
                                    /\ p.user = users[posts[i].uid].name
=============================================================================
