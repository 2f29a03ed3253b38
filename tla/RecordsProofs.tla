--------------------------- MODULE RecordsProofs ---------------------------
(***************************************************************************)
(* That what threads save concurrently is saved in full and read back as   *)
(* it was saved: for the posts, whatever the platforms, reposts, filters,  *)
(* affiliates, users and threads, and for the tasks, whatever the tasks,   *)
(* triggers and threads.                                                   *)
(***************************************************************************)
EXTENDS PostRecords, TaskRecords, TLAPS, FiniteSetTheorems, SequenceTheorems, WellFoundedInduction

-----------------------------------------------------------------------------
(***************************************************************************)
(* The posts.  SavedInFull and FetchedIsOwn are not inductive.  That a     *)
(* call which returned saved everything follows from what each call still  *)
(* owes: a row's env file and each of its reposts is there, or the row's   *)
(* call was cut, or is under way and has them before it (RowOK); and that  *)
(* a repost is there when its call returned, from the order of the calls   *)
(* on a thread's stack (StackOK).                                          *)
(***************************************************************************)
PlatformIds == { p.id : p \in PlatformRows }

After  == {"reposts", "reposted", "affiliates", "file"}   \* the row is inserted
Before == {"exists", "user", "add", "insert"}

Frames ==
  [post : Posts, status : Texts, at : Before \cup After, uid : Nat, rows : SUBSET RepostRows,
   from : Posts, affiliates : SUBSET Posts, next : {"reposts", "file"}]

PostRows ==
  [pid : Texts, unique_id : Texts, time : Texts, o_pid : Texts, uid : Nat, status : Texts,
   repost : Texts]

PostTypes ==
  /\ users \in Seq(Users) /\ Len(UserRows) <= Len(users)
  /\ posts \in Seq(PostRows)
  /\ files \in [DOMAIN files -> Texts] /\ DOMAIN files \subseteq Texts
  /\ work \in [Threads -> Seq(Frames)]
  /\ cut \subseteq Posts
  /\ reports \in Nat /\ ends \in Nat

Has(pid, id) == \E j \in DOMAIN posts : posts[j].pid = pid /\ posts[j].unique_id = id

\* The row a post was made from, as SavedInFull has it.
HasOrigin(pid, o_pid, id) ==
  o_pid # NO_ORIGIN =>
    \E j \in DOMAIN posts :
      /\ posts[j].pid = o_pid
      /\ \/ pid = o_pid
         \/ /\ posts[j].unique_id = id /\ MustRepost(posts[j].repost)
            /\ \E r \in RepostRows, name \in NamesOf(posts[j]) :
                 r.pid = o_pid /\ r.r_pid = pid /\ Accepts(r, name)

PostOK(p) == p.id # <<>> /\ IsContentOf(p.content, p.id) /\ HasOrigin(p.pid, p.o_pid, p.id)

RowOfCall(row, c) ==
  /\ IsRowOf(row, c.post) /\ row.time = c.post.time /\ row.uid = c.uid
  /\ row.repost = c.post.repost /\ row.o_pid = c.post.o_pid

UserFits(c) ==
  /\ c.uid \in DOMAIN users
  /\ Passes(users[c.uid].pid, c.post.pid) /\ Passes(users[c.uid].name, c.post.user)

FrameOK(c) ==
  /\ PostOK(c.post)
  /\ \A p \in c.affiliates : PostOK(p)
  /\ c.at \in After \cup {"insert"} => UserFits(c)
  /\ c.at \in After => c.post.pid \in PlatformIds /\ \E j \in DOMAIN posts : RowOfCall(posts[j], c)
  /\ c.at \in Before \cup {"file"} => c.rows = {}
  /\ c.at = "affiliates" /\ c.next = "file" => c.rows = {}
  /\ \A r \in c.rows : r.pid = c.post.pid /\ MustRepost(c.post.repost)
  /\ c.at = "reposted" => PostOK(c.from) /\ c.from.pid \in PlatformIds

\* The repost a call has just made is the post of the call above it, or there.
StackOK(t) ==
  \A n \in DOMAIN work[t] :
    work[t][n].at = "reposted" =>
      \/ n + 1 \in DOMAIN work[t] /\ work[t][n + 1].post = work[t][n].from
      \/ Has(work[t][n].from.pid, work[t][n].from.id)

\* A call will save the repost, or does.
Owes(c, r) ==
  r \in c.rows \/ (c.at = "reposted" /\ c.from.pid = r.r_pid /\ c.from.id = c.post.id)

WasCut(row) == \E post \in cut : IsRowOf(row, post)

EnvOK(row) ==
  \/ EnvPath(row) \in DOMAIN files
  \/ WasCut(row)
  \/ \E t \in Threads : \E n \in DOMAIN work[t] :
       work[t][n].at \in After /\ RowOfCall(row, work[t][n])

RepostOK(row, r) ==
  \/ Has(r.r_pid, row.unique_id)
  \/ WasCut(row)
  \/ \E t \in Threads : \E n \in DOMAIN work[t] :
       work[t][n].at \in After /\ RowOfCall(row, work[t][n]) /\ Owes(work[t][n], r)

RowOK(row) ==
  /\ row.uid \in DOMAIN users /\ users[row.uid].pid = row.pid /\ row.pid \in PlatformIds
  /\ EnvOK(row)
  /\ MustRepost(row.repost) /\ row.o_pid = NO_ORIGIN =>
       \A r \in RepostRows :
         r.pid = row.pid /\ (\A name \in NamesOf(row) : Accepts(r, name)) => RepostOK(row, r)
  /\ HasOrigin(row.pid, row.o_pid, row.unique_id)

FramesOK == \A t \in Threads : \A n \in DOMAIN work[t] : FrameOK(work[t][n])
StacksOK == \A t \in Threads : StackOK(t)
RowsOK   == \A i \in DOMAIN posts : RowOK(posts[i])
FilesOK  ==
  \A p \in DOMAIN files :
    \E i \in DOMAIN posts : EnvPath(posts[i]) = p /\ IsContentOf(files[p], posts[i].unique_id)

PostsInv == PostTypes /\ FramesOK /\ StacksOK /\ RowsOK /\ FilesOK

-----------------------------------------------------------------------------
(* Texts.                                                                  *)

LEMMA TextTypes ==
  /\ <<>> \in Texts
  /\ \A a, b \in Texts : a \o b \in Texts
  /\ \A a \in Texts : Len(a) \in Nat /\ a \in Seq(STRING \cup Nat)
  /\ {<<"0">>, <<"1">>, <<"2">>, <<"false">>, <<"default">>, <<"NULL">>} \subseteq Texts
  /\ \A a, b, c, d, e \in Nat : << "uuid", a, b, c, d, e >> \in Texts
<1> DEFINE S == STRING \cup Nat
<1>1. \A a, b \in Seq(S) : a \o b \in Seq(S)
  BY ConcatProperties
<1>2. ASSUME NEW x \in S PROVE <<x>> \in Seq(S)
  <2>1. Append(<<>>, x) \in Seq(S) /\ Append(<<>>, x) = <<>> \o <<x>>
    BY EmptySeq, AppendProperties, AppendIsConcat
  <2>2. <<>> \o <<x>> = <<x>>
    OBVIOUS
  <2> QED
    BY <2>1, <2>2
<1>3. <<>> \in Seq(S) /\ \A a \in Seq(S) : Len(a) \in Nat
  OBVIOUS
<1>4. {"0", "1", "2", "false", "default", "NULL", "uuid"} \subseteq S
  BY LiteralsAssumption
<1> QED
  <2> HIDE DEF S
  <2>1. {<<"0">>, <<"1">>, <<"2">>, <<"false">>, <<"default">>, <<"NULL">>} \subseteq Seq(S)
    BY <1>2, <1>4
  <2>2. "uuid" \in S /\ Nat \subseteq S
    BY <1>4 DEF S
  <2>3. \A a, b, c, d, e \in Nat : << "uuid", a, b, c, d, e >> \in Seq(S)
    BY <2>2
  <2> QED
    BY <1>1, <1>3, <2>1, <2>3 DEF Texts, S

\* Ends, place by place.
LEMMA EndsAt ==
  ASSUME NEW t \in Texts, NEW e \in Texts, Len(e) <= Len(t)
  PROVE  Ends(t, e) <=> \A i \in 1 .. Len(e) : t[Len(t) - Len(e) + i] = e[i]
<1> DEFINE S == STRING \cup Nat
           m == Len(t) - Len(e) + 1
           n == Len(t)
           u == SubSeq(t, m, n)
<1>1. t \in Seq(S) /\ e \in Seq(S) /\ Len(t) \in Nat /\ Len(e) \in Nat
  BY TextTypes
<1>2. m \in Int /\ n \in Int /\ n - m + 1 = Len(e) /\ m >= 1
  BY <1>1
<1>3. \A i \in m .. n : t[i] \in S
  BY <1>1, <1>2
<1>4. /\ u \in Seq(S)
      /\ Len(u) = IF m <= n THEN n - m + 1 ELSE 0
      /\ \A i \in 1 .. n - m + 1 : u[i] = t[m + i - 1]
  <2> HIDE DEF S, m, n, u
  <2> QED
    BY <1>2, <1>3, SubSeqProperties DEF u
<1>5. Len(u) = Len(e)
  BY <1>1, <1>2, <1>4
<1>6. \A i \in 1 .. Len(e) : u[i] = t[Len(t) - Len(e) + i]
  BY <1>1, <1>2, <1>4
<1>7. u = e <=> \A i \in 1 .. Len(e) : u[i] = e[i]
  <2> HIDE DEF u, S
  <2> QED
    BY <1>1, <1>4, <1>5, SeqEqual
<1> QED
  BY <1>6, <1>7 DEF Ends

LEMMA EndsSelf ==
  ASSUME NEW t \in Texts
  PROVE  Ends(t, t)
<1>1. Len(t) \in Nat
  BY TextTypes
<1> QED
  BY <1>1, EndsAt

LEMMA EndsConcat ==
  ASSUME NEW a \in Texts, NEW t \in Texts, NEW e \in Texts, Ends(t, e)
  PROVE  Ends(a \o t, e)
<1> DEFINE c == a \o t
           S == STRING \cup Nat
<1>1. a \in Seq(S) /\ t \in Seq(S) /\ Len(a) \in Nat /\ Len(t) \in Nat /\ Len(e) \in Nat
  BY TextTypes
<1>2. c \in Texts /\ Len(c) = Len(a) + Len(t)
      /\ \A i \in 1 .. Len(a) + Len(t) : c[i] = IF i <= Len(a) THEN a[i] ELSE t[i - Len(a)]
  <2>1. c \in Texts
    BY TextTypes
  <2> HIDE DEF S
  <2> QED
    BY <1>1, <2>1, ConcatProperties
<1>3. Len(e) <= Len(t) /\ \A i \in 1 .. Len(e) : t[Len(t) - Len(e) + i] = e[i]
  BY EndsAt DEF Ends
<1>4. ASSUME NEW i \in 1 .. Len(e)
      PROVE  c[Len(c) - Len(e) + i] = e[i]
  <2> DEFINE k == Len(c) - Len(e) + i
  <2>1. k \in 1 .. Len(a) + Len(t) /\ k > Len(a) /\ k - Len(a) = Len(t) - Len(e) + i
    BY <1>1, <1>2, <1>3
  <2> HIDE DEF c
  <2>2. c[k] = t[k - Len(a)]
    BY <1>1, <1>2, <2>1
  <2> QED
    BY <1>3, <2>1, <2>2
<1>5. Len(e) <= Len(c)
  BY <1>1, <1>2, <1>3
<1> HIDE DEF c
<1>6. Ends(c, e)
  BY <1>2, <1>4, <1>5, EndsAt
<1> QED
  BY <1>6 DEF c

-----------------------------------------------------------------------------
(* What no step takes back: a user, a row but for its status, a cut.       *)

SameRow(row, new) ==
  /\ new.pid = row.pid /\ new.unique_id = row.unique_id /\ new.time = row.time
  /\ new.o_pid = row.o_pid /\ new.uid = row.uid /\ new.repost = row.repost

Grows ==
  /\ \A u \in DOMAIN users : u \in DOMAIN users' /\ users'[u] = users[u]
  /\ \A i \in DOMAIN posts : i \in DOMAIN posts' /\ SameRow(posts[i], posts'[i])
  /\ cut \subseteq cut'
  /\ DOMAIN files \subseteq DOMAIN files'

LEMMA HasGrows ==
  ASSUME Grows, NEW pid, NEW id, Has(pid, id)
  PROVE  Has(pid, id)'
BY DEF Grows, Has, SameRow

\* Names stay, since a row's user does.
LEMMA NamesGrow ==
  ASSUME Grows, NEW i \in DOMAIN posts, posts[i].uid \in DOMAIN users
  PROVE  NamesOf(posts[i])' = NamesOf(posts[i])
BY DEF Grows, NamesOf, SameRow

LEMMA AcceptsStays ==
  ASSUME NEW r, NEW name
  PROVE  Accepts(r, name)' = Accepts(r, name)
BY DEF Accepts, ValidateRepost, GetFilters, Passes

LEMMA OriginGrows ==
  ASSUME Grows, RowsOK, NEW pid, NEW o_pid, NEW id, HasOrigin(pid, o_pid, id)
  PROVE  HasOrigin(pid, o_pid, id)'
<1> SUFFICES ASSUME o_pid # NO_ORIGIN
             PROVE  HasOrigin(pid, o_pid, id)'
  BY DEF HasOrigin
<1>1. PICK j \in DOMAIN posts :
        /\ posts[j].pid = o_pid
        /\ \/ pid = o_pid
           \/ /\ posts[j].unique_id = id /\ MustRepost(posts[j].repost)
              /\ \E r \in RepostRows, name \in NamesOf(posts[j]) :
                   r.pid = o_pid /\ r.r_pid = pid /\ Accepts(r, name)
  BY DEF HasOrigin
<1>2. j \in DOMAIN posts' /\ SameRow(posts[j], posts'[j])
  BY DEF Grows
<1>3. NamesOf(posts[j])' = NamesOf(posts[j])
  BY NamesGrow DEF RowsOK, RowOK
<1>4. MustRepost(posts'[j].repost) = MustRepost(posts[j].repost)
  BY <1>2 DEF SameRow
<1> QED
  BY <1>1, <1>2, <1>3, <1>4, AcceptsStays DEF HasOrigin, SameRow

LEMMA PostGrows ==
  ASSUME Grows, RowsOK, NEW p, PostOK(p)
  PROVE  PostOK(p)'
<1>1. HasOrigin(p.pid, p.o_pid, p.id)'
  BY OriginGrows DEF PostOK
<1> QED
  BY <1>1 DEF PostOK, IsContentOf, Ends

LEMMA FrameGrows ==
  ASSUME Grows, RowsOK, NEW c, FrameOK(c)
  PROVE  FrameOK(c)'
<1>1. PostOK(c.post)' /\ \A p \in c.affiliates : PostOK(p)'
  BY PostGrows DEF FrameOK
<1>2. c.at = "reposted" => PostOK(c.from)'
  BY PostGrows DEF FrameOK
<1>3. c.at \in After \cup {"insert"} => UserFits(c)'
  BY DEF FrameOK, UserFits, Grows, Passes
<1>4. c.at \in After => \E j \in DOMAIN posts' : RowOfCall(posts'[j], c)
  BY DEF FrameOK, Grows, SameRow, RowOfCall, IsRowOf
<1> QED
  BY <1>1, <1>2, <1>3, <1>4 DEF FrameOK, MustRepost, RowOfCall, IsRowOf

-----------------------------------------------------------------------------
(* A thread's calls.                                                       *)

LEMMA FrontOf ==
  ASSUME NEW S, NEW s \in Seq(S), s # <<>>
  PROVE  /\ Len(s) \in Nat /\ Len(s) > 0 /\ Len(s) \in DOMAIN s /\ Last(s) = s[Len(s)] /\ Last(s) \in S
         /\ Front(s) \in Seq(S) /\ Len(Front(s)) = Len(s) - 1
         /\ \A n \in 1 .. Len(s) - 1 : Front(s)[n] = s[n]
<1>1. Len(s) \in Nat /\ Len(s) > 0 /\ DOMAIN s = 1 .. Len(s)
  BY EmptySeq, LenProperties
<1>2. \A i \in 1 .. Len(s) : s[i] \in S
  BY ElementOfSeq
<1>3. /\ SubSeq(s, 1, Len(s) - 1) \in Seq(S)
      /\ Len(SubSeq(s, 1, Len(s) - 1)) = IF 1 <= Len(s) - 1 THEN Len(s) - 1 - 1 + 1 ELSE 0
      /\ \A i \in 1 .. Len(s) - 1 - 1 + 1 : SubSeq(s, 1, Len(s) - 1)[i] = s[1 + i - 1]
  <2>1. 1 \in Int /\ Len(s) - 1 \in Int /\ \A i \in 1 .. Len(s) - 1 : s[i] \in S
    BY <1>1, <1>2
  <2> QED
    BY <2>1, SubSeqProperties
<1> QED
  BY <1>1, <1>2, <1>3 DEF Front, Last

LEMMA TopFrame ==
  ASSUME PostTypes, NEW t \in Threads, work[t] # <<>>
  PROVE  /\ work[t] \in Seq(Frames) /\ Len(work[t]) \in Nat \ {0} /\ Len(work[t]) \in DOMAIN work[t]
         /\ Top(t) \in Frames /\ Top(t) = work[t][Len(work[t])]
         /\ DOMAIN work[t] = 1 .. Len(work[t])
<1>1. work[t] \in Seq(Frames)
  BY DEF PostTypes
<1>2. /\ Len(work[t]) \in Nat /\ Len(work[t]) > 0 /\ Len(work[t]) \in DOMAIN work[t]
      /\ Last(work[t]) = work[t][Len(work[t])] /\ Last(work[t]) \in Frames
  BY <1>1, FrontOf
<1>3. DOMAIN work[t] = 1 .. Len(work[t])
  BY <1>1, LenProperties
<1> QED
  BY <1>1, <1>2, <1>3 DEF Top

OthersWait(t) == \A u \in Threads \ {t} : work'[u] = work[u]

LEMMA GotoStack ==
  ASSUME PostTypes, NEW t \in Threads, work[t] # <<>>, NEW f \in Frames, Goto(t, f)
  PROVE  /\ work' \in [Threads -> Seq(Frames)] /\ OthersWait(t)
         /\ DOMAIN work'[t] = DOMAIN work[t]
         /\ \A n \in 1 .. Len(work[t]) - 1 : work'[t][n] = work[t][n]
         /\ work'[t][Len(work[t])] = f
<1> DEFINE s == work[t]
           new == Append(Front(s), f)
<1>1. s \in Seq(Frames) /\ Len(s) \in Nat \ {0} /\ DOMAIN s = 1 .. Len(s)
  BY TopFrame
<1>2. /\ Front(s) \in Seq(Frames) /\ Len(Front(s)) = Len(s) - 1
      /\ \A n \in 1 .. Len(s) - 1 : Front(s)[n] = s[n]
  BY <1>1, FrontOf
<1>3. /\ new \in Seq(Frames) /\ Len(new) = Len(s)
      /\ \A n \in 1 .. Len(s) - 1 : new[n] = s[n]
      /\ new[Len(s)] = f
  <2> DEFINE front == Front(s)
  <2>1. /\ Append(front, f) \in Seq(Frames) /\ Len(Append(front, f)) = Len(front) + 1
        /\ \A n \in 1 .. Len(front) : Append(front, f)[n] = front[n]
        /\ Append(front, f)[Len(front) + 1] = f
    <3> HIDE DEF front
    <3> QED
      BY <1>2, AppendProperties DEF front
  <2> QED
    BY <1>1, <1>2, <2>1
<1>4. work' = [work EXCEPT ![t] = new] /\ work \in [Threads -> Seq(Frames)]
  BY DEF Goto, PostTypes
<1>5. work'[t] = new
  BY <1>4
<1> HIDE DEF new
<1>6. DOMAIN new = 1 .. Len(s)
  BY <1>3
<1>7. work' \in [Threads -> Seq(Frames)] /\ OthersWait(t)
  BY <1>3, <1>4 DEF OthersWait
<1> QED
  BY <1>1, <1>3, <1>5, <1>6, <1>7

LEMMA ReturnStack ==
  ASSUME PostTypes, NEW t \in Threads, work[t] # <<>>, Return(t)
  PROVE  /\ work' \in [Threads -> Seq(Frames)] /\ OthersWait(t)
         /\ DOMAIN work'[t] = 1 .. Len(work[t]) - 1
         /\ \A n \in 1 .. Len(work[t]) - 1 : work'[t][n] = work[t][n]
<1> DEFINE s == work[t]
<1>1. s \in Seq(Frames) /\ Len(s) \in Nat \ {0}
  BY TopFrame
<1>2. /\ Front(s) \in Seq(Frames) /\ Len(Front(s)) = Len(s) - 1
      /\ \A n \in 1 .. Len(s) - 1 : Front(s)[n] = s[n]
  BY <1>1, FrontOf
<1>3. work' = [work EXCEPT ![t] = Front(s)] /\ work \in [Threads -> Seq(Frames)]
  BY DEF Return, PostTypes
<1>4. work'[t] = Front(s)
  BY <1>3
<1> QED
  BY <1>1, <1>2, <1>3, <1>4 DEF OthersWait

LEMMA SaveStack ==
  ASSUME PostTypes, NEW t \in Threads, work[t] # <<>>, NEW f \in Frames, NEW p,
         Call(p, <<"0">>) \in Frames, Save(t, f, p)
  PROVE  /\ work' \in [Threads -> Seq(Frames)] /\ OthersWait(t)
         /\ DOMAIN work'[t] = 1 .. Len(work[t]) + 1
         /\ \A n \in 1 .. Len(work[t]) - 1 : work'[t][n] = work[t][n]
         /\ work'[t][Len(work[t])] = f
         /\ work'[t][Len(work[t]) + 1] = Call(p, <<"0">>)
<1> DEFINE s == work[t]
           mid == Append(Front(s), f)
           new == Append(mid, Call(p, <<"0">>))
<1>1. s \in Seq(Frames) /\ Len(s) \in Nat \ {0}
  BY TopFrame
<1>2. /\ Front(s) \in Seq(Frames) /\ Len(Front(s)) = Len(s) - 1
      /\ \A n \in 1 .. Len(s) - 1 : Front(s)[n] = s[n]
  BY <1>1, FrontOf
<1>3. /\ mid \in Seq(Frames) /\ Len(mid) = Len(s)
      /\ \A n \in 1 .. Len(s) - 1 : mid[n] = s[n]
      /\ mid[Len(s)] = f
  <2> HIDE DEF s
  <2> QED
    BY <1>1, <1>2, AppendProperties
<1>4. /\ new \in Seq(Frames) /\ Len(new) = Len(s) + 1
      /\ \A n \in 1 .. Len(s) : new[n] = mid[n]
      /\ new[Len(s) + 1] = Call(p, <<"0">>)
  <2> HIDE DEF s, mid
  <2> QED
    BY <1>1, <1>3, AppendProperties
<1>5. work' = [work EXCEPT ![t] = new] /\ work \in [Threads -> Seq(Frames)]
  BY DEF Save, PostTypes
<1>6. work'[t] = new
  BY <1>5
<1> HIDE DEF mid, new
<1> QED
  BY <1>1, <1>3, <1>4, <1>5, <1>6 DEF OthersWait

-----------------------------------------------------------------------------
(* Rows are kept in order as long as every call that inserted one goes on, *)
(* is cut, or returns with nothing left to do.                             *)

HasNow(pid, id) == \E j \in DOMAIN posts' : posts'[j].pid = pid /\ posts'[j].unique_id = id

Carries(c, d) ==
  /\ d.at \in After /\ d.post = c.post /\ d.uid = c.uid
  /\ \A r \in RepostRows :
       Owes(c, r) => Owes(d, r) \/ HasNow(r.r_pid, c.post.id) \/ ~Accepts(r, c.post.user)

Finished(c) ==
  c.at = "file" /\ GetEnvPath(c.post.id, c.post.time, c.post.pid) \in DOMAIN files'

Carried(u) ==
  \A n \in DOMAIN work[u] :
    work[u][n].at \in After =>
      \/ work[u][n].post \in cut'
      \/ Finished(work[u][n])
      \/ \E m \in DOMAIN work'[u] : Carries(work[u][n], work'[u][m])

\* The cases of a call that is carried, for a row it inserted.
LEMMA CarriedRow ==
  ASSUME PostsInv, Grows, NEW u \in Threads, Carried(u), NEW n \in DOMAIN work[u],
         NEW c, c = work[u][n], c.at \in After, NEW row, NEW new, RowOfCall(row, c), SameRow(row, new)
  PROVE  /\ EnvOK(new)'
         /\ \A r \in RepostRows :
              Owes(c, r) /\ (\A name \in NamesOf(row) : Accepts(r, name)) => RepostOK(new, r)'
<1>1. FrameOK(c)
  BY DEF PostsInv, FramesOK
<1>2. new.pid = c.post.pid /\ new.unique_id = c.post.id /\ new.time = c.post.time
  BY DEF RowOfCall, IsRowOf, SameRow
<1>3. c.post.user \in NamesOf(row)
  <2>1. row.uid = c.uid
    BY DEF RowOfCall
  <2>2. Passes(users[c.uid].name, c.post.user)
    BY <1>1 DEF FrameOK, UserFits
  <2> QED
    BY <2>1, <2>2 DEF NamesOf, Passes
<1>4. CASE c.post \in cut'
  <2>1. WasCut(new)'
    BY <1>2, <1>4 DEF WasCut, IsRowOf
  <2> QED
    BY <2>1 DEF EnvOK, RepostOK
<1>5. CASE Finished(c)
  <2>1. EnvPath(new) \in DOMAIN files'
    BY <1>2, <1>5 DEF Finished, EnvPath
  <2>2. \A r \in RepostRows : ~Owes(c, r)
    BY <1>1, <1>5 DEF Finished, FrameOK, Owes
  <2>3. EnvOK(new)'
    BY <2>1 DEF EnvOK, EnvPath, GetEnvPath
  <2> QED
    BY <2>2, <2>3
<1>6. CASE \E m \in DOMAIN work'[u] : Carries(c, work'[u][m])
  <2>1. PICK m \in DOMAIN work'[u] : Carries(c, work'[u][m])
    BY <1>6
  <2>2. work'[u][m].at \in After /\ RowOfCall(new, work'[u][m])
    BY <2>1 DEF Carries, RowOfCall, IsRowOf, SameRow
  <2>3. EnvOK(new)'
    BY <2>2 DEF EnvOK, RowOfCall, IsRowOf
  <2>4. ASSUME NEW r \in RepostRows, Owes(c, r), \A name \in NamesOf(row) : Accepts(r, name)
        PROVE  RepostOK(new, r)'
    <3>1. Owes(work'[u][m], r) \/ HasNow(r.r_pid, new.unique_id)
      BY <1>2, <1>3, <2>1, <2>4 DEF Carries
    <3>2. CASE Owes(work'[u][m], r)
      BY <2>2, <3>2 DEF RepostOK, RowOfCall, IsRowOf, Owes
    <3>3. CASE HasNow(r.r_pid, new.unique_id)
      BY <3>3 DEF RepostOK, HasNow, Has
    <3> QED
      BY <3>1, <3>2, <3>3
  <2> QED
    BY <2>3, <2>4
<1> QED
  BY <1>4, <1>5, <1>6 DEF Carried

LEMMA RowKeeps ==
  ASSUME PostsInv, Grows, \A u \in Threads : Carried(u), NEW i \in DOMAIN posts
  PROVE  RowOK(posts[i])'
<1> DEFINE row == posts[i]
           new == posts'[i]
<1>1. RowOK(row) /\ RowsOK
  BY DEF PostsInv, RowsOK
<1>2. i \in DOMAIN posts' /\ SameRow(row, new)
  BY DEF Grows
<1>3. new.uid \in DOMAIN users' /\ users'[new.uid].pid = new.pid /\ new.pid \in PlatformIds
  BY <1>1, <1>2 DEF RowOK, Grows, SameRow
<1>4. NamesOf(posts[i])' = NamesOf(row)
  BY <1>1, NamesGrow DEF RowOK
<1>5. WasCut(row) => WasCut(posts[i])'
  BY <1>2 DEF WasCut, IsRowOf, SameRow, Grows
<1>6. EnvOK(posts[i])'
  <2>1. CASE EnvPath(row) \in DOMAIN files
    BY <1>2, <2>1 DEF EnvOK, EnvPath, GetEnvPath, SameRow, Grows
  <2>2. CASE WasCut(row)
    BY <1>5, <2>2 DEF EnvOK
  <2>3. CASE \E t \in Threads : \E n \in DOMAIN work[t] :
               work[t][n].at \in After /\ RowOfCall(row, work[t][n])
    BY <1>2, <2>3, CarriedRow
  <2> QED
    BY <1>1, <2>1, <2>2, <2>3 DEF RowOK, EnvOK
<1>7. ASSUME MustRepost(row.repost), row.o_pid = NO_ORIGIN, NEW r \in RepostRows,
             r.pid = row.pid, \A name \in NamesOf(row) : Accepts(r, name)
      PROVE  RepostOK(posts[i], r)'
  <2>1. CASE Has(r.r_pid, row.unique_id)
    BY <1>2, <2>1, HasGrows DEF RepostOK, SameRow
  <2>2. CASE WasCut(row)
    BY <1>5, <2>2 DEF RepostOK
  <2>3. CASE \E t \in Threads : \E n \in DOMAIN work[t] :
               work[t][n].at \in After /\ RowOfCall(row, work[t][n]) /\ Owes(work[t][n], r)
    BY <1>2, <1>7, <2>3, CarriedRow
  <2> QED
    BY <1>1, <1>7, <2>1, <2>2, <2>3 DEF RowOK, RepostOK
<1>8. HasOrigin(posts[i].pid, posts[i].o_pid, posts[i].unique_id)'
  BY <1>1, <1>2, OriginGrows DEF RowOK, SameRow
<1>9. MustRepost(new.repost) = MustRepost(row.repost) /\ new.o_pid = row.o_pid /\ new.pid = row.pid
  BY <1>2 DEF SameRow
<1> QED
  BY <1>3, <1>4, <1>6, <1>7, <1>8, <1>9, AcceptsStays DEF RowOK, MustRepost

\* A call that stays as it is.
LEMMA StaysCarried ==
  ASSUME NEW c, c.at \in After
  PROVE  Carries(c, c)
BY DEF Carries

\* What a step of one thread leaves as it was: the other threads, and the
\* calls below the one that goes on.
LEMMA OtherKeeps ==
  ASSUME PostsInv, Grows, NEW u \in Threads, work'[u] = work[u]
  PROVE  (\A n \in DOMAIN work'[u] : FrameOK(work[u][n])') /\ StackOK(u)' /\ Carried(u)
<1>1. \A n \in DOMAIN work[u] : FrameOK(work[u][n])'
  <2> SUFFICES ASSUME NEW n \in DOMAIN work[u] PROVE FrameOK(work[u][n])'
    OBVIOUS
  <2>1. PICK c : c = work[u][n]
    OBVIOUS
  <2>2. FrameOK(c)'
    BY <2>1, FrameGrows DEF PostsInv, FramesOK
  <2> QED
    BY <2>1, <2>2
<1>2. StackOK(u)'
  BY HasGrows DEF PostsInv, StacksOK, StackOK
<1>3. Carried(u)
  BY StaysCarried DEF Carried
<1> QED
  BY <1>1, <1>2, <1>3

Going == FramesOK' /\ StacksOK' /\ \A u \in Threads : Carried(u)

LEMMA ThreadKeeps ==
  ASSUME PostsInv, Grows, NEW t \in Threads, OthersWait(t),
         \A n \in DOMAIN work'[t] : FrameOK(work[t][n])', StackOK(t)', Carried(t)
  PROVE  Going
<1>1. ASSUME NEW u \in Threads
      PROVE  (\A n \in DOMAIN work'[u] : FrameOK(work[u][n])') /\ StackOK(u)' /\ Carried(u)
  BY OtherKeeps DEF OthersWait
<1> QED
  BY <1>1 DEF Going, FramesOK, StacksOK

\* The calls below the top are as they were.
LEMMA BelowKeeps ==
  ASSUME PostsInv, Grows, NEW t \in Threads, work[t] # <<>>, NEW n \in 1 .. Len(work[t]) - 1,
         work'[t][n] = work[t][n]
  PROVE  FrameOK(work[t][n])'
<1>1. PICK c : c = work[t][n]
  OBVIOUS
<1>2. n \in DOMAIN work[t]
  BY TopFrame DEF PostsInv
<1>3. FrameOK(c)'
  BY <1>1, <1>2, FrameGrows DEF PostsInv, FramesOK
<1> QED
  BY <1>1, <1>3

LEMMA GotoKeeps ==
  ASSUME PostsInv, Grows, NEW t \in Threads, work[t] # <<>>, NEW f \in Frames, Goto(t, f),
         FrameOK(f)', f.post = Top(t).post, f.at # "reposted",
         Top(t).at \in After => Carries(Top(t), f)
  PROVE  Going
<1> DEFINE L == Len(work[t])
<1>1. L \in Nat \ {0} /\ DOMAIN work[t] = 1 .. L /\ Top(t) = work[t][L]
  BY TopFrame DEF PostsInv
<1>2. /\ OthersWait(t) /\ DOMAIN work'[t] = 1 .. L /\ work'[t][L] = f
      /\ \A n \in 1 .. L - 1 : work'[t][n] = work[t][n]
  BY <1>1, GotoStack DEF PostsInv
<1> HIDE DEF L
<1>3. ASSUME NEW n \in DOMAIN work'[t]
      PROVE  FrameOK(work[t][n])'
  <2>1. CASE n = L
    BY <1>2, <2>1
  <2>2. CASE n \in 1 .. L - 1
    BY <1>2, <2>2, BelowKeeps DEF L
  <2> QED
    BY <1>1, <1>2, <2>1, <2>2
<1>4. StackOK(t)'
  <2> SUFFICES ASSUME NEW n \in 1 .. L, work'[t][n].at = "reposted"
               PROVE  \/ n + 1 \in 1 .. L /\ work'[t][n + 1].post = work'[t][n].from
                      \/ Has(work[t][n].from.pid, work[t][n].from.id)'
    BY <1>2 DEF StackOK
  <2>1. n \in 1 .. L - 1 /\ work'[t][n] = work[t][n] /\ n + 1 \in 1 .. L
    BY <1>1, <1>2
  <2>2. work'[t][n + 1].post = work[t][n + 1].post
    BY <1>1, <1>2, <2>1
  <2>3. \/ work[t][n + 1].post = work[t][n].from
        \/ Has(work[t][n].from.pid, work[t][n].from.id)
    BY <1>1, <2>1 DEF PostsInv, StacksOK, StackOK
  <2> QED
    BY <2>1, <2>2, <2>3, HasGrows
<1>5. Carried(t)
  <2> SUFFICES ASSUME NEW n \in 1 .. L, work[t][n].at \in After
               PROVE  \E m \in DOMAIN work'[t] : Carries(work[t][n], work'[t][m])
    BY <1>1 DEF Carried
  <2>1. n \in DOMAIN work'[t]
    BY <1>2
  <2>2. CASE n = L
    BY <1>1, <1>2, <2>1, <2>2
  <2>3. CASE n \in 1 .. L - 1
    BY <1>2, <2>1, <2>3, StaysCarried
  <2> QED
    BY <1>1, <2>2, <2>3
<1> QED
  BY <1>2, <1>3, <1>4, <1>5, ThreadKeeps

LEMMA ReturnKeeps ==
  ASSUME PostsInv, Grows, NEW t \in Threads, work[t] # <<>>, Return(t),
         Top(t).post.pid # <<>> => HasNow(Top(t).post.pid, Top(t).post.id),
         Top(t).at \in After => Finished(Top(t))
  PROVE  Going
<1> DEFINE L == Len(work[t])
<1>1. L \in Nat \ {0} /\ DOMAIN work[t] = 1 .. L /\ Top(t) = work[t][L]
  BY TopFrame DEF PostsInv
<1>2. /\ OthersWait(t) /\ DOMAIN work'[t] = 1 .. L - 1
      /\ \A n \in 1 .. L - 1 : work'[t][n] = work[t][n]
  BY ReturnStack DEF PostsInv
<1> HIDE DEF L
<1>3. ASSUME NEW n \in DOMAIN work'[t]
      PROVE  FrameOK(work[t][n])'
  BY <1>2, BelowKeeps DEF L
<1>4. StackOK(t)'
  <2> SUFFICES ASSUME NEW n \in 1 .. L - 1, work'[t][n].at = "reposted"
               PROVE  \/ n + 1 \in 1 .. L - 1 /\ work'[t][n + 1].post = work'[t][n].from
                      \/ Has(work[t][n].from.pid, work[t][n].from.id)'
    BY <1>2 DEF StackOK
  <2>1. work'[t][n] = work[t][n] /\ n \in 1 .. L
    BY <1>1, <1>2
  <2>2. \/ work[t][n + 1].post = work[t][n].from
        \/ Has(work[t][n].from.pid, work[t][n].from.id)
    BY <1>1, <2>1 DEF PostsInv, StacksOK, StackOK
  <2>3. CASE n + 1 = L /\ work[t][L].post = work[t][n].from
    <3>1. work[t][n].from.pid \in PlatformIds
      BY <1>1, <2>1 DEF PostsInv, FramesOK, FrameOK
    <3>2. Top(t).post.pid # <<>>
      BY <1>1, <2>3, <3>1, TablesAssumption DEF PlatformIds
    <3> QED
      BY <1>1, <2>1, <2>3, <3>2 DEF HasNow, Has
  <2>4. CASE n + 1 \in 1 .. L - 1 /\ work[t][n + 1].post = work[t][n].from
    BY <1>2, <2>1, <2>4
  <2>5. CASE Has(work[t][n].from.pid, work[t][n].from.id)
    BY <2>1, <2>5, HasGrows
  <2> QED
    BY <1>1, <2>1, <2>2, <2>3, <2>4, <2>5
<1>5. Carried(t)
  <2> SUFFICES ASSUME NEW n \in 1 .. L, work[t][n].at \in After
               PROVE  \/ Finished(work[t][n])
                      \/ \E m \in DOMAIN work'[t] : Carries(work[t][n], work'[t][m])
    BY <1>1 DEF Carried
  <2>1. CASE n = L
    BY <1>1, <2>1
  <2>2. CASE n \in 1 .. L - 1
    BY <1>2, <2>2, StaysCarried
  <2> QED
    BY <1>1, <2>1, <2>2
<1> QED
  BY <1>2, <1>3, <1>4, <1>5, ThreadKeeps

LEMMA SaveKeeps ==
  ASSUME PostsInv, Grows, NEW t \in Threads, work[t] # <<>>, NEW f \in Frames, NEW p,
         NEW g \in Frames, g = Call(p, <<"0">>), Save(t, f, p), FrameOK(f)', FrameOK(g)',
         f.post = Top(t).post, f.at = "reposted" => f.from = p, Carries(Top(t), f)
  PROVE  Going
<1> DEFINE L == Len(work[t])
<1>1. L \in Nat \ {0} /\ DOMAIN work[t] = 1 .. L /\ Top(t) = work[t][L]
  BY TopFrame DEF PostsInv
<1>2. /\ OthersWait(t) /\ DOMAIN work'[t] = 1 .. L + 1 /\ work'[t][L] = f /\ work'[t][L + 1] = g
      /\ \A n \in 1 .. L - 1 : work'[t][n] = work[t][n]
  BY SaveStack DEF PostsInv
<1>3. g.post = p /\ g.at = "exists"
  BY DEF Call
<1> HIDE DEF L
<1>4. ASSUME NEW n \in DOMAIN work'[t]
      PROVE  FrameOK(work[t][n])'
  <2>1. CASE n = L
    BY <1>2, <2>1
  <2>2. CASE n = L + 1
    BY <1>2, <2>2
  <2>3. CASE n \in 1 .. L - 1
    BY <1>2, <2>3, BelowKeeps DEF L
  <2> QED
    BY <1>1, <1>2, <2>1, <2>2, <2>3
<1>5. StackOK(t)'
  <2> SUFFICES ASSUME NEW n \in 1 .. L + 1, work'[t][n].at = "reposted"
               PROVE  \/ n + 1 \in 1 .. L + 1 /\ work'[t][n + 1].post = work'[t][n].from
                      \/ Has(work[t][n].from.pid, work[t][n].from.id)'
    BY <1>2 DEF StackOK
  <2>1. n # L + 1
    BY <1>2, <1>3
  <2>2. CASE n = L
    BY <1>1, <1>2, <1>3, <2>2
  <2>3. CASE n \in 1 .. L - 1
    <3>1. work'[t][n] = work[t][n] /\ n \in 1 .. L /\ n + 1 \in 1 .. L
      BY <1>1, <1>2, <2>3
    <3>2. work'[t][n + 1].post = work[t][n + 1].post
      BY <1>1, <1>2, <3>1
    <3>3. \/ work[t][n + 1].post = work[t][n].from
          \/ Has(work[t][n].from.pid, work[t][n].from.id)
      BY <1>1, <3>1 DEF PostsInv, StacksOK, StackOK
    <3> QED
      BY <1>1, <3>1, <3>2, <3>3, HasGrows
  <2> QED
    BY <1>1, <2>1, <2>2, <2>3
<1>6. Carried(t)
  <2> SUFFICES ASSUME NEW n \in 1 .. L, work[t][n].at \in After
               PROVE  \E m \in DOMAIN work'[t] : Carries(work[t][n], work'[t][m])
    BY <1>1 DEF Carried
  <2>1. n \in DOMAIN work'[t]
    BY <1>1, <1>2
  <2>2. CASE n = L
    BY <1>1, <1>2, <2>1, <2>2
  <2>3. CASE n \in 1 .. L - 1
    BY <1>2, <2>1, <2>3, StaysCarried
  <2> QED
    BY <1>1, <2>2, <2>3
<1> QED
  BY <1>2, <1>4, <1>5, <1>6, ThreadKeeps

LEMMA ThrowKeeps ==
  ASSUME PostsInv, Grows, NEW t \in Threads, Throw(t)
  PROVE  Going
<1>1. OthersWait(t) /\ work'[t] = <<>>
  BY DEF Throw, OthersWait, PostsInv, PostTypes
<1>2. Carried(t)
  BY DEF Carried, Throw
<1> QED
  BY <1>1, <1>2, ThreadKeeps DEF StackOK

-----------------------------------------------------------------------------
(* The actions.                                                            *)

LEMMA FilesKeep ==
  ASSUME PostsInv, Grows, UNCHANGED files
  PROVE  FilesOK'
<1> SUFFICES ASSUME NEW p \in DOMAIN files
             PROVE  \E i \in DOMAIN posts' :
                      EnvPath(posts[i])' = p /\ IsContentOf(files[p], posts[i].unique_id)'
  BY DEF FilesOK
<1>1. PICK i \in DOMAIN posts : EnvPath(posts[i]) = p /\ IsContentOf(files[p], posts[i].unique_id)
  BY DEF PostsInv, FilesOK
<1>2. i \in DOMAIN posts' /\ SameRow(posts[i], posts'[i])
  BY DEF Grows
<1>3. EnvPath(posts[i])' = p
  BY <1>1, <1>2 DEF EnvPath, GetEnvPath, SameRow
<1>4. IsContentOf(files[p], posts[i].unique_id)'
  BY <1>1, <1>2 DEF IsContentOf, SameRow, Ends
<1> QED
  BY <1>2, <1>3, <1>4

LEMMA StepKeeps ==
  ASSUME PostsInv, Grows, PostTypes', Going, FilesOK',
         \A i \in DOMAIN posts' \ DOMAIN posts : RowOK(posts[i])'
  PROVE  PostsInv'
<1>1. RowsOK'
  <2> SUFFICES ASSUME NEW i \in DOMAIN posts' PROVE RowOK(posts[i])'
    BY DEF RowsOK
  <2>1. CASE i \in DOMAIN posts
    BY <2>1, RowKeeps DEF Going
  <2> QED
    BY <2>1
<1> QED
  BY <1>1 DEF PostsInv, Going

LEMMA StillGrows ==
  ASSUME UNCHANGED <<users, posts, files, cut>>
  PROVE  Grows
BY DEF Grows, SameRow

\* A step that changes no table, file or cut.
LEMMA QuietStep ==
  ASSUME PostsInv, UNCHANGED <<users, posts, files, cut>>, Going,
         work' \in [Threads -> Seq(Frames)], reports' \in Nat, ends' \in Nat
  PROVE  PostsInv'
<1>1. PostTypes'
  BY DEF PostsInv, PostTypes
<1> QED
  BY <1>1, StillGrows, FilesKeep, StepKeeps

LEMMA PlatformTexts ==
  /\ \A name : GetPlatformID(name) \subseteq Texts
  /\ PlatformIds \subseteq Texts /\ <<>> \notin PlatformIds
<1>1. \A p \in PlatformRows : p.id \in Texts /\ p.id # <<>>
  BY TablesAssumption
<1> QED
  BY <1>1, TextTypes DEF GetPlatformID, FirstOf, PlatformIds

LEMMA CallFrame ==
  ASSUME NEW p \in Posts, NEW status \in Texts
  PROVE  Call(p, status) \in Frames
BY DEF Call, Frames, Before, After

LEMMA CallOK ==
  ASSUME NEW p, NEW status, PostOK(p)', NEW c, c = Call(p, status)
  PROVE  FrameOK(c)'
BY DEF FrameOK, Call, Before, After

LEMMA ReportKeeps ==
  ASSUME PostsInv, NEW t \in Threads, NEW post \in Reported, ReportPost(t, post)
  PROVE  PostsInv'
<1>1. /\ UNCHANGED <<users, posts, files, cut, ends>> /\ reports' = reports + 1 /\ work[t] = <<>>
  BY DEF ReportPost
<1>2. PICK pid \in GetPlatformID(post.name) :
        work' = [work EXCEPT ![t] = << Call([post EXCEPT !.pid = pid], <<"1">>) >>]
  BY DEF ReportPost
<1>3. PICK p : p = [post EXCEPT !.pid = pid]
  OBVIOUS
<1>4. PICK c : c = Call(p, <<"1">>)
  OBVIOUS
<1>5. post \in Posts /\ post.o_pid = NO_ORIGIN /\ post.id # <<>>
  BY ReportedAssumption
<1>6. p \in Posts /\ p.o_pid = NO_ORIGIN /\ p.id = post.id /\ p.content = post.content
  BY <1>3, <1>5, PlatformTexts DEF Posts
<1>7. PostOK(p)'
  <2>1. Ends(post.id, post.id) /\ Ends(post.content, post.content)
    BY <1>5, EndsSelf DEF Posts
  <2>2. IsContentOf(p.content, p.id)
    BY <1>6, <2>1 DEF IsContentOf
  <2> QED
    BY <1>5, <1>6, <2>2 DEF PostOK, IsContentOf, Ends, HasOrigin
<1>8. c \in Frames /\ FrameOK(c)' /\ c.at = "exists"
  <2>1. c \in Frames
    BY <1>4, <1>6, CallFrame, TextTypes
  <2> QED
    BY <1>4, <1>7, <2>1, CallOK DEF Call
<1>9. work \in [Threads -> Seq(Frames)] /\ reports \in Nat /\ ends \in Nat
  BY DEF PostsInv, PostTypes
<1>10. <<c>> \in Seq(Frames) /\ DOMAIN <<c>> = {1} /\ <<c>>[1] = c
  BY <1>8
<1>11. work'[t] = <<c>> /\ work' \in [Threads -> Seq(Frames)] /\ OthersWait(t)
  BY <1>2, <1>3, <1>4, <1>9, <1>10 DEF OthersWait
<1>12. /\ \A n \in DOMAIN work'[t] : FrameOK(work[t][n])'
       /\ StackOK(t)' /\ Carried(t)
  <2>1. \A n \in DOMAIN work'[t] : work'[t][n] = c
    BY <1>10, <1>11
  <2>2. StackOK(t)'
    BY <1>8, <2>1 DEF StackOK
  <2>3. Carried(t)
    BY <1>1 DEF Carried
  <2> QED
    BY <1>8, <2>1, <2>2, <2>3
<1>13. Going
  BY <1>1, <1>11, <1>12, StillGrows, ThreadKeeps
<1> QED
  BY <1>1, <1>9, <1>11, <1>13, QuietStep

\* What the actions know of the call at the top.
LEMMA TopOK ==
  ASSUME PostsInv, NEW t \in Threads, NEW place, At(t, place)
  PROVE  /\ work[t] # <<>> /\ Top(t) \in Frames /\ FrameOK(Top(t)) /\ Top(t).at = place
         /\ Top(t).post \in Posts /\ Top(t).post.id # <<>>
<1>1. work[t] # <<>> /\ Top(t).at = place
  BY DEF At
<1>2. Top(t) \in Frames /\ FrameOK(Top(t))
  BY <1>1, TopFrame DEF PostsInv, FramesOK
<1> QED
  BY <1>1, <1>2 DEF FrameOK, PostOK, Frames

LEMMA UpdateGrows ==
  ASSUME PostsInv, NEW p, NEW status \in Texts, UpdatePost(p, status)
  PROVE  /\ posts' \in Seq(PostRows) /\ DOMAIN posts' = DOMAIN posts
         /\ \A i \in DOMAIN posts : SameRow(posts[i], posts'[i])
<1>1. posts \in Seq(PostRows)
  BY DEF PostsInv, PostTypes
<1>2. PICK uid \in GetUID(p.pid, p.user) :
        LET hit(row) == Passes(row.pid, p.pid) /\ Passes(row.unique_id, p.id) /\ uid \in {0, row.uid}
        IN posts' = IF p.id = <<>> \/ p.user = <<>> THEN posts
                    ELSE [i \in DOMAIN posts |-> IF hit(posts[i]) THEN [posts[i] EXCEPT !.status = status]
                                                                 ELSE posts[i]]
  BY DEF UpdatePost
<1> DEFINE hit(row) == Passes(row.pid, p.pid) /\ Passes(row.unique_id, p.id) /\ uid \in {0, row.uid}
           new(i) == IF hit(posts[i]) THEN [posts[i] EXCEPT !.status = status] ELSE posts[i]
<1>3. CASE posts' = posts
  BY <1>1, <1>3 DEF SameRow
<1>4. CASE posts' = [i \in DOMAIN posts |-> new(i)]
  <2>1. \A i \in DOMAIN posts : new(i) \in PostRows /\ SameRow(posts[i], new(i))
    <3> SUFFICES ASSUME NEW i \in DOMAIN posts PROVE new(i) \in PostRows /\ SameRow(posts[i], new(i))
      OBVIOUS
    <3>1. posts[i] \in PostRows
      BY <1>1
    <3> HIDE DEF hit
    <3> QED
      BY <3>1 DEF PostRows, SameRow
  <2> HIDE DEF new
  <2>2. posts' \in Seq(PostRows)
    BY <1>1, <1>4, <2>1
  <2> QED
    BY <1>4, <2>1, <2>2
<1> QED
  BY <1>2, <1>3, <1>4

LEMMA CheckExistsKeeps ==
  ASSUME PostsInv, NEW t \in Threads, CheckExists(t)
  PROVE  PostsInv'
<1>1. UNCHANGED <<users, files, cut, reports, ends>>
  BY DEF CheckExists
<1>2. PICK c : c = Top(t)
  OBVIOUS
<1>3. /\ work[t] # <<>> /\ c \in Frames /\ FrameOK(c) /\ c.at = "exists" /\ c.post \in Posts
      /\ c.post.id # <<>>
  BY <1>2, TopOK DEF CheckExists
<1>4. CASE ~PostAlreadyExists(c.post)
  <2>1. PICK f : f = [c EXCEPT !.at = "user"]
    OBVIOUS
  <2>2. Goto(t, f) /\ UNCHANGED posts
    BY <1>2, <1>4, <2>1 DEF CheckExists
  <2>3. f \in Frames /\ f.post = c.post /\ f.at = "user"
    BY <1>3, <2>1 DEF Frames, Before
  <2>4. FrameOK(c)'
    BY <1>1, <1>3, <2>2, StillGrows, FrameGrows DEF PostsInv
  <2>5. FrameOK(f)'
    BY <1>3, <2>1, <2>4 DEF FrameOK, Frames, Before, After
  <2>6. Going
    BY <1>1, <1>2, <1>3, <2>2, <2>3, <2>5, StillGrows, GotoKeeps DEF After
  <2>7. work' \in [Threads -> Seq(Frames)]
    BY <1>3, <2>2, <2>3, GotoStack DEF PostsInv
  <2> QED
    BY <1>1, <2>2, <2>6, <2>7, QuietStep DEF PostsInv, PostTypes
<1>5. CASE PostAlreadyExists(c.post)
  <2>1. PICK status : status = IF c.post.status = <<>> THEN c.status ELSE c.post.status
    OBVIOUS
  <2>2. UpdatePost(c.post, status) /\ Return(t)
    BY <1>2, <1>5, <2>1 DEF CheckExists
  <2>3. status \in Texts
    BY <1>3, <2>1 DEF Frames, Posts
  <2>4. /\ posts' \in Seq(PostRows) /\ DOMAIN posts' = DOMAIN posts
        /\ \A i \in DOMAIN posts : SameRow(posts[i], posts'[i])
    BY <2>2, <2>3, UpdateGrows
  <2>5. Grows
    BY <1>1, <2>4 DEF Grows
  <2>6. c.post.pid # <<>> => HasNow(c.post.pid, c.post.id)
    BY <1>3, <1>5, <2>4 DEF PostAlreadyExists, Passes, HasNow, SameRow
  <2>7. Going
    BY <1>2, <1>3, <2>2, <2>5, <2>6, ReturnKeeps DEF After
  <2>8. work' \in [Threads -> Seq(Frames)]
    BY <1>3, <2>2, ReturnStack DEF PostsInv
  <2>9. PostTypes'
    BY <1>1, <2>4, <2>8 DEF PostsInv, PostTypes
  <2> QED
    BY <1>1, <2>4, <2>5, <2>7, <2>9, FilesKeep, StepKeeps
<1> QED
  BY <1>4, <1>5

LEMMA FindUserKeeps ==
  ASSUME PostsInv, NEW t \in Threads, FindUser(t)
  PROVE  PostsInv'
<1>1. UNCHANGED <<users, posts, files, cut, reports, ends>>
  BY DEF FindUser
<1>2. PICK c : c = Top(t)
  OBVIOUS
<1>3. work[t] # <<>> /\ c \in Frames /\ FrameOK(c) /\ c.at = "user"
  BY <1>2, TopOK DEF FindUser
<1>4. PICK uid \in GetUID(c.post.pid, c.post.user) :
        Goto(t, [c EXCEPT !.uid = uid, !.at = IF uid = 0 THEN "add" ELSE "insert"])
  BY <1>2 DEF FindUser
<1>5. PICK f : f = [c EXCEPT !.uid = uid, !.at = IF uid = 0 THEN "add" ELSE "insert"]
  OBVIOUS
<1>6. users \in Seq(Users) /\ DOMAIN users = 1 .. Len(users) /\ Len(users) \in Nat
  BY DEF PostsInv, PostTypes
<1>7. \/ uid = 0
      \/ /\ uid \in DOMAIN users
         /\ Passes(users[uid].pid, c.post.pid) /\ Passes(users[uid].name, c.post.user)
  BY <1>4 DEF GetUID, FirstOf
<1>8. uid \in Nat /\ (uid # 0 => uid \in DOMAIN users)
  BY <1>6, <1>7
<1>9. f \in Frames /\ f.post = c.post /\ f.uid = uid /\ f.at = (IF uid = 0 THEN "add" ELSE "insert")
  BY <1>3, <1>5, <1>8 DEF Frames, Before
<1>10. f.rows = c.rows /\ f.affiliates = c.affiliates
  BY <1>3, <1>5 DEF Frames
<1>11. FrameOK(c)'
  BY <1>1, <1>3, StillGrows, FrameGrows DEF PostsInv
<1>12. f.at = "insert" => UserFits(f)'
  BY <1>1, <1>7, <1>9 DEF UserFits, Passes
<1>13. FrameOK(f)'
  <2>1. f.at \notin After /\ f.rows = {}
    BY <1>3, <1>9, <1>10 DEF FrameOK, Before, After
  <2>2. PostOK(f.post)' /\ \A p \in f.affiliates : PostOK(p)'
    BY <1>9, <1>10, <1>11 DEF FrameOK
  <2> QED
    BY <1>12, <2>1, <2>2 DEF FrameOK, After
<1>14. Goto(t, f) /\ f.at # "reposted" /\ Top(t).at \notin After
  BY <1>2, <1>3, <1>4, <1>5, <1>9 DEF After
<1>15. Going
  BY <1>1, <1>2, <1>3, <1>9, <1>13, <1>14, StillGrows, GotoKeeps
<1>16. work' \in [Threads -> Seq(Frames)]
  BY <1>3, <1>9, <1>14, GotoStack DEF PostsInv
<1> QED
  BY <1>1, <1>15, <1>16, QuietStep DEF PostsInv, PostTypes

\* An exception, the tables being left as they were.
LEMMA ThrowStep ==
  ASSUME PostsInv, NEW t \in Threads, Throw(t), UNCHANGED <<users, posts, files, reports, ends>>
  PROVE  PostsInv'
<1>1. work \in [Threads -> Seq(Frames)] /\ cut \subseteq Posts
  BY DEF PostsInv, PostTypes
<1>2. { work[t][i].post : i \in DOMAIN work[t] } \subseteq Posts
  <2>1. \A i \in DOMAIN work[t] : work[t][i] \in Frames
    BY <1>1
  <2> QED
    BY <2>1 DEF Frames
<1>3. cut \subseteq cut' /\ cut' \subseteq Posts /\ work' \in [Threads -> Seq(Frames)]
  BY <1>1, <1>2 DEF Throw
<1>4. Grows
  BY <1>3 DEF Grows, SameRow
<1>5. PostTypes'
  BY <1>3 DEF PostsInv, PostTypes
<1> QED
  BY <1>4, <1>5, ThrowKeeps, FilesKeep, StepKeeps

LEMMA AddUserKeeps ==
  ASSUME PostsInv, NEW t \in Threads, AddUser(t)
  PROVE  PostsInv'
<1>1. UNCHANGED <<posts, files, reports, ends>>
  BY DEF AddUser
<1>2. PICK c : c = Top(t)
  OBVIOUS
<1>3. work[t] # <<>> /\ c \in Frames /\ FrameOK(c) /\ c.at = "add" /\ c.post \in Posts
  BY <1>2, TopOK DEF AddUser
<1>4. CASE c.post.pid \notin PlatformIds
  BY <1>1, <1>2, <1>4, ThrowStep DEF AddUser, PlatformIds
<1>5. CASE c.post.pid \in PlatformIds
  <2>1. PICK u : u = [pid |-> c.post.pid, type |-> <<"default">>,
                      name |-> IF c.post.user = <<>> THEN <<"NULL">> ELSE c.post.user]
    OBVIOUS
  <2>2. PICK f : f = [c EXCEPT !.uid = Len(users) + 1, !.at = "insert"]
    OBVIOUS
  <2>3. users' = Append(users, u) /\ Goto(t, f) /\ UNCHANGED cut
    BY <1>2, <1>5, <2>1, <2>2 DEF AddUser, PlatformIds
  <2>4. users \in Seq(Users) /\ Len(users) \in Nat /\ Len(UserRows) <= Len(users)
    BY DEF PostsInv, PostTypes
  <2>5. u \in Users /\ u.pid = c.post.pid /\ Passes(u.name, c.post.user)
    BY <1>3, <2>1, TextTypes DEF Users, Posts, Passes
  <2>6. /\ users' \in Seq(Users) /\ Len(users') = Len(users) + 1
        /\ \A i \in 1 .. Len(users) : users'[i] = users[i]
        /\ users'[Len(users) + 1] = u
    BY <2>3, <2>4, <2>5, AppendProperties
  <2>7. DOMAIN users = 1 .. Len(users) /\ DOMAIN users' = 1 .. Len(users) + 1
    BY <2>4, <2>6
  <2>8. Grows
    BY <1>1, <2>3, <2>4, <2>6, <2>7 DEF Grows, SameRow
  <2>9. f \in Frames /\ f.post = c.post /\ f.uid = Len(users) + 1 /\ f.at = "insert"
        /\ f.rows = c.rows /\ f.affiliates = c.affiliates
    <3>1. Len(users) + 1 \in Nat
      BY <2>4
    <3> QED
      BY <1>3, <2>2, <3>1 DEF Frames, Before
  <2>10. UserFits(f)'
    BY <2>4, <2>5, <2>6, <2>7, <2>9 DEF UserFits, Passes
  <2>11. FrameOK(c)'
    BY <1>3, <2>8, FrameGrows DEF PostsInv
  <2>12. FrameOK(f)'
    <3>1. f.at \notin After /\ f.rows = {}
      BY <1>3, <2>9 DEF FrameOK, Before, After
    <3>2. PostOK(f.post)' /\ \A p \in f.affiliates : PostOK(p)'
      BY <2>9, <2>11 DEF FrameOK
    <3> QED
      BY <2>9, <2>10, <3>1, <3>2 DEF FrameOK, After
  <2>13. Top(t).at \notin After /\ f.at # "reposted"
    BY <1>2, <1>3, <2>9 DEF After
  <2>14. Going
    BY <1>2, <1>3, <2>3, <2>8, <2>9, <2>12, <2>13, GotoKeeps
  <2>15. work' \in [Threads -> Seq(Frames)]
    BY <1>3, <2>3, <2>9, GotoStack DEF PostsInv
  <2>16. PostTypes'
    <3>1. Len(UserRows) \in Nat
      BY TablesAssumption
    <3>2. Len(UserRows) <= Len(users')
      BY <2>4, <2>6, <3>1
    <3> QED
      BY <1>1, <2>3, <2>6, <2>15, <3>2 DEF PostsInv, PostTypes
  <2> QED
    BY <1>1, <2>8, <2>14, <2>16, FilesKeep, StepKeeps
<1> QED
  BY <1>4, <1>5

LEMMA InsertPostKeeps ==
  ASSUME PostsInv, NEW t \in Threads, InsertPost(t)
  PROVE  PostsInv'
<1>1. UNCHANGED <<users, files, reports, ends>>
  BY DEF InsertPost
<1>2. PICK c : c = Top(t)
  OBVIOUS
<1>3. work[t] # <<>> /\ c \in Frames /\ FrameOK(c) /\ c.at = "insert" /\ c.post \in Posts
  BY <1>2, TopOK DEF InsertPost
<1>4. CASE ~Insertable(c.post, c.uid)
  BY <1>1, <1>2, <1>4, ThrowStep DEF InsertPost
<1>5. CASE Insertable(c.post, c.uid)
  <2>1. PICK row : row = [pid |-> c.post.pid, unique_id |-> c.post.id, time |-> c.post.time,
                          o_pid |-> c.post.o_pid, uid |-> c.uid, status |-> c.status,
                          repost |-> c.post.repost]
    OBVIOUS
  <2>2. PICK f : f = IF MustRepost(c.post.repost) /\ c.post.o_pid = NO_ORIGIN
                     THEN [c EXCEPT !.at = "reposts", !.rows = FetchRepostIDs(c.post.pid)]
                     ELSE [c EXCEPT !.at = "file"]
    OBVIOUS
  <2>3. posts' = Append(posts, row) /\ Goto(t, f) /\ UNCHANGED cut
    BY <1>2, <1>5, <2>1, <2>2 DEF InsertPost
  <2> PICK N : N = Len(posts) + 1
    OBVIOUS
  <2>4. posts \in Seq(PostRows) /\ Len(posts) \in Nat
    BY DEF PostsInv, PostTypes
  <2>5. row \in PostRows /\ RowOfCall(row, c) /\ row.repost = c.post.repost /\ row.o_pid = c.post.o_pid
    BY <1>3, <2>1 DEF Frames, Posts, PostRows, RowOfCall, IsRowOf
  <2>6. /\ posts' \in Seq(PostRows) /\ Len(posts') = N /\ posts'[N] = row
        /\ \A i \in 1 .. Len(posts) : posts'[i] = posts[i]
    BY <2>3, <2>4, <2>5, AppendProperties
  <2>7. DOMAIN posts = 1 .. Len(posts) /\ DOMAIN posts' = 1 .. N
    BY <2>4, <2>6
  <2>8. Grows
    BY <1>1, <2>3, <2>4, <2>6, <2>7 DEF Grows, SameRow
  <2>9. /\ f \in Frames /\ f.post = c.post /\ f.uid = c.uid /\ f.affiliates = c.affiliates
        /\ f.at \in {"reposts", "file"}
        /\ MustRepost(c.post.repost) /\ c.post.o_pid = NO_ORIGIN =>
             f.at = "reposts" /\ f.rows = FetchRepostIDs(c.post.pid)
        /\ ~(MustRepost(c.post.repost) /\ c.post.o_pid = NO_ORIGIN) => f.at = "file" /\ f.rows = c.rows
    <3>1. FetchRepostIDs(c.post.pid) \in SUBSET RepostRows
      BY DEF FetchRepostIDs
    <3> QED
      BY <1>3, <2>2, <3>1 DEF Frames, After
  <2>10. c.post.pid \in PlatformIds /\ c.post.pid # <<>>
    BY <1>5, PlatformTexts DEF Insertable, PlatformIds
  <2>11. UserFits(c) /\ c.rows = {} /\ FrameOK(c)'
    BY <1>3, <2>8, FrameGrows DEF FrameOK, PostsInv, After, Before
  <2>12. FrameOK(f)'
    <3>1. PostOK(f.post)' /\ \A p \in f.affiliates : PostOK(p)'
      BY <2>9, <2>11 DEF FrameOK
    <3>2. UserFits(f)'
      BY <1>1, <2>9, <2>11 DEF UserFits, Passes
    <3>3. f.post.pid \in PlatformIds /\ \E j \in DOMAIN posts' : RowOfCall(posts'[j], f)
      <4>1. N \in DOMAIN posts' /\ RowOfCall(posts'[N], f)
        BY <2>4, <2>5, <2>6, <2>7, <2>9 DEF RowOfCall, IsRowOf
      <4> QED
        BY <2>9, <2>10, <4>1
    <3>4. f.at = "file" => f.rows = {}
      BY <2>9, <2>11
    <3>5. \A r \in f.rows : r.pid = f.post.pid /\ MustRepost(f.post.repost)
      BY <2>9, <2>10, <2>11 DEF FetchRepostIDs, Passes
    <3> QED
      BY <2>9, <3>1, <3>2, <3>3, <3>4, <3>5 DEF FrameOK, RowOfCall, IsRowOf, MustRepost, Before, After
  <2>13. Top(t).at \notin After /\ f.at # "reposted"
    BY <1>2, <1>3, <2>9 DEF After
  <2>14. Going
    BY <1>2, <1>3, <2>3, <2>8, <2>9, <2>12, <2>13, GotoKeeps
  <2>15. work' \in [Threads -> Seq(Frames)] /\ work'[t][Len(work[t])] = f
         /\ Len(work[t]) \in DOMAIN work'[t]
    BY <1>3, <2>3, <2>9, GotoStack, TopFrame DEF PostsInv
  <2>16. RowOK(posts[N])'
    <3>1. row.uid \in DOMAIN users' /\ users'[row.uid].pid = row.pid /\ row.pid \in PlatformIds
      BY <1>1, <2>1, <2>10, <2>11 DEF UserFits, Passes
    <3>2. f.at \in After /\ RowOfCall(row, f)
      BY <2>5, <2>9 DEF After, RowOfCall, IsRowOf
    <3>3. EnvOK(row)'
      BY <2>15, <3>2 DEF EnvOK, RowOfCall, IsRowOf
    <3>4. ASSUME MustRepost(row.repost), row.o_pid = NO_ORIGIN, NEW r \in RepostRows, r.pid = row.pid
          PROVE  RepostOK(row, r)'
      <4>1. r \in f.rows
        BY <2>1, <2>5, <2>9, <3>4 DEF FetchRepostIDs, Passes
      <4> QED
        BY <2>15, <3>2, <4>1 DEF RepostOK, RowOfCall, IsRowOf, Owes
    <3>5. HasOrigin(row.pid, row.o_pid, row.unique_id)'
      BY <2>1, <2>11 DEF FrameOK, PostOK
    <3>6. RowOK(row)'
      BY <3>1, <3>3, <3>4, <3>5 DEF RowOK, MustRepost
    <3> QED
      BY <2>6, <3>6
  <2>17. \A i \in DOMAIN posts' \ DOMAIN posts : RowOK(posts[i])'
    <3>1. \A i \in DOMAIN posts' \ DOMAIN posts : i = N
      BY <2>4, <2>7
    <3> QED
      BY <2>16, <3>1
  <2>18. PostTypes'
    BY <1>1, <2>3, <2>6, <2>15 DEF PostsInv, PostTypes
  <2> QED
    BY <1>1, <2>8, <2>14, <2>17, <2>18, FilesKeep, StepKeeps
<1> QED
  BY <1>4, <1>5

LEMMA GetValidUserType ==
  ASSUME NEW pid, NEW name \in Texts
  PROVE  GetValidUser(pid, name) \in Texts
BY TablesAssumption DEF GetValidUser

\* A repost that the filters accept has its origin in the row of the call.
LEMMA RepostMade ==
  ASSUME PostsInv, NEW c \in Frames, FrameOK(c), c.at \in After, NEW row \in c.rows,
         Accepts(row, c.post.user), NEW p, p = MakeRepost(c.post, row.r_pid)
  PROVE  /\ p \in Posts /\ PostOK(p) /\ p.pid = row.r_pid /\ p.id = c.post.id
         /\ p.pid \in PlatformIds
<1>1. c.post \in Posts /\ row \in RepostRows
  BY DEF Frames
<1>2. row.r_pid \in PlatformIds /\ row.r_pid \in Texts
  BY <1>1, TablesAssumption, PlatformTexts DEF PlatformIds
<1>3. GetValidUser(c.post.pid, c.post.user) \in Texts
  BY <1>1, GetValidUserType DEF Posts
<1>4. /\ p \in Posts /\ p.pid = row.r_pid /\ p.o_pid = c.post.pid /\ p.id = c.post.id
      /\ p.content = c.post.content
  BY <1>1, <1>2, <1>3, TextTypes DEF MakeRepost, Posts
<1>5. PICK j \in DOMAIN posts : RowOfCall(posts[j], c)
  BY DEF FrameOK
<1>6. row.pid = c.post.pid /\ MustRepost(posts[j].repost) /\ posts[j].pid = c.post.pid
      /\ posts[j].unique_id = c.post.id /\ posts[j].uid = c.uid
  BY <1>5 DEF FrameOK, RowOfCall, IsRowOf
<1>7. c.post.user \in NamesOf(posts[j])
  BY <1>6 DEF FrameOK, UserFits, Passes, NamesOf
<1>8. HasOrigin(p.pid, p.o_pid, p.id)
  BY <1>1, <1>4, <1>6, <1>7 DEF HasOrigin
<1>9. p.id # <<>> /\ IsContentOf(p.content, p.id)
  BY <1>4 DEF FrameOK, PostOK
<1> QED
  BY <1>2, <1>4, <1>8, <1>9 DEF PostOK

LEMMA SaveRepostKeeps ==
  ASSUME PostsInv, NEW t \in Threads, SaveRepost(t)
  PROVE  PostsInv'
<1>1. UNCHANGED <<users, posts, files, cut, reports, ends>> /\ Grows
  BY StillGrows DEF SaveRepost
<1>2. PICK c : c = Top(t)
  OBVIOUS
<1>3. /\ work[t] # <<>> /\ c \in Frames /\ FrameOK(c) /\ c.at = "reposts" /\ c.at \in After
      /\ c.post \in Posts
  BY <1>2, TopOK DEF SaveRepost, After
<1>4. PICK row \in c.rows :
        LET call   == [c EXCEPT !.rows = @ \ {row}]
            repost == MakeRepost(call.post, row.r_pid)
        IN IF ValidateRepost(GetFilters(call.post.pid, row.r_pid), call.post.user)
           THEN Save(t, [call EXCEPT !.at = "reposted", !.from = repost], repost)
           ELSE Goto(t, call)
  BY <1>2 DEF SaveRepost
<1>5. PICK call : call = [c EXCEPT !.rows = @ \ {row}]
  OBVIOUS
<1>6. /\ call \in Frames /\ call.post = c.post /\ call.uid = c.uid /\ call.at = "reposts"
      /\ call.rows = c.rows \ {row} /\ call.affiliates = c.affiliates
  BY <1>3, <1>5 DEF Frames
<1>7. FrameOK(c)'
  BY <1>1, <1>3, FrameGrows DEF PostsInv
<1>8. row.pid = c.post.pid /\ row \in RepostRows
  BY <1>3 DEF FrameOK, Frames
<1>9. Accepts(row, c.post.user) = ValidateRepost(GetFilters(call.post.pid, row.r_pid), call.post.user)
  BY <1>6, <1>8 DEF Accepts
<1>10. CASE ~Accepts(row, c.post.user)
  <2>1. Goto(t, call)
    BY <1>4, <1>5, <1>9, <1>10
  <2>2. FrameOK(call)'
    BY <1>3, <1>6, <1>7 DEF FrameOK, UserFits, RowOfCall, IsRowOf, Before, After
  <2>3. Carries(Top(t), call)
    BY <1>2, <1>3, <1>6, <1>10 DEF Carries, Owes
  <2>4. Going
    BY <1>1, <1>2, <1>3, <1>6, <2>1, <2>2, <2>3, GotoKeeps
  <2>5. work' \in [Threads -> Seq(Frames)]
    BY <1>3, <1>6, <2>1, GotoStack DEF PostsInv
  <2> QED
    BY <1>1, <2>4, <2>5, QuietStep DEF PostsInv, PostTypes
<1>11. CASE Accepts(row, c.post.user)
  <2>1. PICK p : p = MakeRepost(c.post, row.r_pid)
    OBVIOUS
  <2>2. PICK f : f = [call EXCEPT !.at = "reposted", !.from = p]
    OBVIOUS
  <2>3. PICK g : g = Call(p, <<"0">>)
    OBVIOUS
  <2>4. Save(t, f, p)
    BY <1>4, <1>5, <1>6, <1>9, <1>11, <2>1, <2>2
  <2>5. p \in Posts /\ PostOK(p) /\ p.pid = row.r_pid /\ p.id = c.post.id /\ p.pid \in PlatformIds
    BY <1>3, <1>11, <2>1, RepostMade
  <2>6. PostOK(p)'
    BY <1>1, <2>5, PostGrows DEF PostsInv
  <2>7. g \in Frames /\ FrameOK(g)'
    BY <2>3, <2>5, <2>6, CallFrame, CallOK, TextTypes
  <2>8. /\ f \in Frames /\ f.post = c.post /\ f.uid = c.uid /\ f.at = "reposted" /\ f.from = p
        /\ f.rows = c.rows \ {row} /\ f.affiliates = c.affiliates
    BY <1>6, <2>2, <2>5 DEF Frames, After
  <2>9. FrameOK(f)'
    BY <1>3, <1>7, <2>5, <2>6, <2>8 DEF FrameOK, UserFits, RowOfCall, IsRowOf, Before, After
  <2>10. Carries(Top(t), f)
    BY <1>2, <1>3, <2>5, <2>8 DEF Carries, Owes, After
  <2>11. Going
    BY <1>1, <1>2, <1>3, <2>3, <2>4, <2>7, <2>8, <2>9, <2>10, SaveKeeps
  <2>12. work' \in [Threads -> Seq(Frames)]
    <3>1. PostTypes /\ work[t] # <<>>
      BY <1>3 DEF PostsInv
    <3>2. f \in Frames /\ Call(p, <<"0">>) \in Frames
      BY <2>3, <2>7, <2>8
    <3> QED
      BY <2>4, <3>1, <3>2, SaveStack
  <2> QED
    BY <1>1, <2>11, <2>12, QuietStep DEF PostsInv, PostTypes
<1> QED
  BY <1>10, <1>11

\* The affiliates' posts of one whose platform has a row.
LEMMA AffiliatesMade ==
  ASSUME PostsInv, NEW t \in Threads, NEW p \in Posts, PostOK(p),
         \E j \in DOMAIN posts : posts[j].pid = p.pid
  PROVE  \A q \in MakeAffiliatePosts(t, p) : q \in Posts /\ PostOK(q)
<1> SUFFICES ASSUME NEW row \in AffiliateRows, NEW q,
                    q = MakeAffiliatePost(FreshId(t, row, p), users[row.a_uid].name,
                                          users[row.uid].type, p)
             PROVE  q \in Posts /\ PostOK(q)
  BY DEF MakeAffiliatePosts
<1>1. users \in Seq(Users) /\ Len(UserRows) <= Len(users) /\ reports \in Nat /\ Len(posts) \in Nat
  BY DEF PostsInv, PostTypes
<1>2. DOMAIN UserRows = 1 .. Len(UserRows) /\ Len(UserRows) \in Nat
  BY TablesAssumption
<1>3. row.uid \in DOMAIN users /\ row.a_uid \in DOMAIN users /\ row.uid \in Nat /\ row.a_uid \in Nat
  BY <1>1, <1>2, TablesAssumption
<1>4. users[row.a_uid].name \in Texts /\ users[row.uid].type \in Texts
  <2>1. users[row.a_uid] \in Users /\ users[row.uid] \in Users
    BY <1>1, <1>3
  <2> QED
    BY <2>1 DEF Users
<1>5. PICK new : new = << "uuid", t, reports, Len(posts), row.uid, row.a_uid >>
  OBVIOUS
<1>6. new \in Texts /\ Len(new) = 6
  BY <1>1, <1>3, <1>5, PostBoundsAssumption, TextTypes
<1>7. p.id \in Texts /\ p.content \in Texts /\ p.pid \in Texts
  BY DEF Posts
<1>8. /\ q \in Posts /\ q.id = new \o p.id /\ q.content = users[row.uid].type \o p.content
      /\ q.pid = p.pid /\ q.o_pid = p.pid
  <2>1. FreshId(t, row, p) = new \o p.id
    BY <1>5 DEF FreshId
  <2>2. new \o p.id \in Texts /\ users[row.uid].type \o p.content \in Texts
    BY <1>4, <1>6, <1>7, TextTypes
  <2>3. <<"false">> \in Texts /\ <<>> \in Texts
    BY TextTypes
  <2> QED
    BY <1>4, <1>7, <2>1, <2>2, <2>3 DEF MakeAffiliatePost, Posts
<1>9. q.id # <<>>
  <2>1. Len(new \o p.id) = Len(new) + Len(p.id) /\ Len(p.id) \in Nat
    <3>1. new \in Seq(STRING \cup Nat) /\ p.id \in Seq(STRING \cup Nat) /\ Len(p.id) \in Nat
      BY <1>6, <1>7, TextTypes
    <3> QED
      BY <3>1, ConcatProperties
  <2>2. Len(q.id) # 0
    <3>1. Len(q.id) = Len(new \o p.id)
      BY <1>8
    <3>2. Len(new) + Len(p.id) # 0
      BY <1>6, <2>1
    <3> QED
      BY <2>1, <3>1, <3>2
  <2>3. Len(<<>>) = 0
    OBVIOUS
  <2> QED
    BY <2>2, <2>3
<1>10. IsContentOf(q.content, q.id)
  <2>1. PICK r \in Reported : Ends(p.id, r.id) /\ Ends(p.content, r.content)
    BY DEF PostOK, IsContentOf
  <2>2. r.id \in Texts /\ r.content \in Texts
    BY ReportedAssumption DEF Posts
  <2>3. Ends(q.id, r.id) /\ Ends(q.content, r.content)
    <3>1. Ends(new \o p.id, r.id)
      BY <1>6, <1>7, <2>1, <2>2, EndsConcat
    <3>2. Ends(users[row.uid].type \o p.content, r.content)
      BY <1>4, <1>7, <2>1, <2>2, EndsConcat
    <3> QED
      BY <1>8, <3>1, <3>2
  <2> QED
    BY <2>3 DEF IsContentOf
<1>11. HasOrigin(q.pid, q.o_pid, q.id)
  BY <1>8 DEF HasOrigin
<1> QED
  BY <1>8, <1>9, <1>10, <1>11 DEF PostOK

LEMMA FindAffiliatesKeeps ==
  ASSUME PostsInv, NEW t \in Threads, FindAffiliates(t)
  PROVE  PostsInv'
<1>1. UNCHANGED <<users, posts, files, cut, reports, ends>> /\ Grows
  BY StillGrows DEF FindAffiliates
<1>2. PICK c : c = Top(t)
  OBVIOUS
<1>3. PICK from, next :
        /\ \/ At(t, "reposted") /\ from = c.from /\ next = "reposts"
           \/ At(t, "reposts") /\ c.rows = {} /\ from = c.post /\ next = "file"
        /\ Goto(t, [c EXCEPT !.at = "affiliates", !.next = next, !.from = from,
                             !.affiliates = MakeAffiliatePosts(t, from)])
  <2>1. CASE /\ At(t, "reposted")
             /\ Goto(t, [c EXCEPT !.at = "affiliates", !.next = "reposts",
                                  !.affiliates = MakeAffiliatePosts(t, c.from)])
    <3>1. c \in Frames
      BY <1>2, <2>1, TopOK
    <3>2. [c EXCEPT !.at = "affiliates", !.next = "reposts",
                    !.affiliates = MakeAffiliatePosts(t, c.from)]
          = [c EXCEPT !.at = "affiliates", !.next = "reposts", !.from = c.from,
                      !.affiliates = MakeAffiliatePosts(t, c.from)]
      BY <3>1 DEF Frames
    <3> QED
      BY <2>1, <3>2
  <2>2. CASE /\ At(t, "reposts") /\ c.rows = {}
             /\ Goto(t, [c EXCEPT !.at = "affiliates", !.next = "file", !.from = c.post,
                                  !.affiliates = MakeAffiliatePosts(t, c.post)])
    BY <2>2
  <2> QED
    BY <1>2, <2>1, <2>2 DEF FindAffiliates
<1>4. work[t] # <<>> /\ c \in Frames /\ FrameOK(c) /\ c.at \in {"reposted", "reposts"} /\ c.at \in After
  BY <1>2, <1>3, TopOK DEF After
<1>5. c.at = "reposted" => Has(c.from.pid, c.from.id)
  <2> SUFFICES ASSUME c.at = "reposted" PROVE Has(c.from.pid, c.from.id)
    OBVIOUS
  <2>1. /\ Len(work[t]) \in DOMAIN work[t] /\ c = work[t][Len(work[t])]
        /\ Len(work[t]) + 1 \notin DOMAIN work[t]
    BY <1>2, <1>4, TopFrame DEF PostsInv
  <2> QED
    BY <2>1 DEF PostsInv, StacksOK, StackOK
<1>6. from \in Posts /\ PostOK(from) /\ \E j \in DOMAIN posts : posts[j].pid = from.pid
  <2>1. CASE At(t, "reposted") /\ from = c.from
    <3>1. c.at = "reposted"
      BY <1>2, <2>1 DEF At
    <3> QED
      BY <1>4, <1>5, <2>1, <3>1 DEF FrameOK, Frames, Has
  <2>2. CASE from = c.post
    BY <1>4, <2>2 DEF FrameOK, Frames, RowOfCall, IsRowOf
  <2> QED
    BY <1>3, <2>1, <2>2
<1>7. PICK as : as = MakeAffiliatePosts(t, from)
  OBVIOUS
<1>8. \A q \in as : q \in Posts /\ PostOK(q)'
  BY <1>1, <1>6, <1>7, AffiliatesMade, PostGrows DEF PostsInv
<1>9. PICK f : f = [c EXCEPT !.at = "affiliates", !.next = next, !.from = from, !.affiliates = as]
  OBVIOUS
<1>10. next \in {"reposts", "file"} /\ (next = "file" => c.rows = {})
  BY <1>3
<1>11. /\ f \in Frames /\ f.post = c.post /\ f.uid = c.uid /\ f.at = "affiliates" /\ f.next = next
       /\ f.rows = c.rows /\ f.affiliates = as
  BY <1>4, <1>6, <1>8, <1>9, <1>10 DEF Frames, After
<1>12. FrameOK(c)'
  BY <1>1, <1>4, FrameGrows DEF PostsInv
<1>13. FrameOK(f)'
  BY <1>4, <1>8, <1>10, <1>11, <1>12 DEF FrameOK, UserFits, RowOfCall, IsRowOf, Before, After
<1>14. Carries(Top(t), f)
  <2>1. \A r \in RepostRows : Owes(c, r) => r \in f.rows \/ HasNow(r.r_pid, c.post.id)
    <3> SUFFICES ASSUME NEW r \in RepostRows, Owes(c, r), r \notin c.rows
                 PROVE  HasNow(r.r_pid, c.post.id)
      BY <1>11
    <3>1. c.at = "reposted" /\ c.from.pid = r.r_pid /\ c.from.id = c.post.id
      BY DEF Owes
    <3> QED
      BY <1>1, <1>5, <3>1 DEF Has, HasNow
  <2> QED
    BY <1>2, <1>11, <2>1 DEF Carries, Owes, After
<1>15. Goto(t, f)
  BY <1>3, <1>7, <1>9
<1>16. Going
  BY <1>1, <1>2, <1>4, <1>11, <1>13, <1>14, <1>15, GotoKeeps
<1>17. work' \in [Threads -> Seq(Frames)]
  BY <1>4, <1>11, <1>15, GotoStack DEF PostsInv
<1> QED
  BY <1>1, <1>16, <1>17, QuietStep DEF PostsInv, PostTypes

LEMMA SaveAffiliateKeeps ==
  ASSUME PostsInv, NEW t \in Threads, SaveAffiliate(t)
  PROVE  PostsInv'
<1>1. UNCHANGED <<users, posts, files, cut, reports, ends>> /\ Grows
  BY StillGrows DEF SaveAffiliate
<1>2. PICK c : c = Top(t)
  OBVIOUS
<1>3. work[t] # <<>> /\ c \in Frames /\ FrameOK(c) /\ c.at = "affiliates" /\ c.at \in After
  BY <1>2, TopOK DEF SaveAffiliate, After
<1>4. FrameOK(c)'
  BY <1>1, <1>3, FrameGrows DEF PostsInv
<1>5. ASSUME NEW p \in c.affiliates, Save(t, [c EXCEPT !.affiliates = @ \ {p}], p)
      PROVE  PostsInv'
  <2>1. PICK f : f = [c EXCEPT !.affiliates = @ \ {p}]
    OBVIOUS
  <2>2. PICK g : g = Call(p, <<"0">>)
    OBVIOUS
  <2>3. p \in Posts /\ PostOK(p)'
    BY <1>3, <1>4 DEF Frames, FrameOK
  <2>4. g \in Frames /\ FrameOK(g)'
    BY <2>2, <2>3, CallFrame, CallOK, TextTypes
  <2>5. /\ f \in Frames /\ f.post = c.post /\ f.uid = c.uid /\ f.at = "affiliates" /\ f.next = c.next
        /\ f.rows = c.rows /\ f.affiliates \subseteq c.affiliates
    BY <1>3, <2>1 DEF Frames
  <2>6. FrameOK(f)'
    BY <1>3, <1>4, <2>5 DEF FrameOK, UserFits, RowOfCall, IsRowOf, Before, After
  <2>7. Carries(Top(t), f) /\ Save(t, f, p)
    BY <1>2, <1>3, <1>5, <2>1, <2>5 DEF Carries, Owes
  <2>8. Going
    BY <1>1, <1>2, <1>3, <2>2, <2>4, <2>5, <2>6, <2>7, SaveKeeps
  <2>9. work' \in [Threads -> Seq(Frames)]
    BY <1>3, <2>2, <2>4, <2>5, <2>7, SaveStack DEF PostsInv
  <2> QED
    BY <1>1, <2>8, <2>9, QuietStep DEF PostsInv, PostTypes
<1>6. ASSUME Goto(t, [c EXCEPT !.at = c.next])
      PROVE  PostsInv'
  <2>1. PICK f : f = [c EXCEPT !.at = c.next]
    OBVIOUS
  <2>2. c.next \in {"reposts", "file"}
    BY <1>3 DEF Frames
  <2>3. /\ f \in Frames /\ f.post = c.post /\ f.uid = c.uid /\ f.at = c.next
        /\ f.rows = c.rows /\ f.affiliates = c.affiliates
    BY <1>3, <2>1, <2>2 DEF Frames, After
  <2>4. FrameOK(f)'
    BY <1>3, <1>4, <2>2, <2>3 DEF FrameOK, UserFits, RowOfCall, IsRowOf, Before, After
  <2>5. Carries(Top(t), f) /\ Goto(t, f) /\ f.at # "reposted"
    BY <1>2, <1>3, <1>6, <2>1, <2>2, <2>3 DEF Carries, Owes, After
  <2>6. Going
    BY <1>1, <1>2, <1>3, <2>3, <2>4, <2>5, GotoKeeps
  <2>7. work' \in [Threads -> Seq(Frames)]
    BY <1>3, <2>3, <2>5, GotoStack DEF PostsInv
  <2> QED
    BY <1>1, <2>6, <2>7, QuietStep DEF PostsInv, PostTypes
<1> QED
  BY <1>2, <1>5, <1>6 DEF SaveAffiliate

LEMMA SaveEnvFileKeeps ==
  ASSUME PostsInv, NEW t \in Threads, SavePlatformEnvFile(t)
  PROVE  PostsInv'
<1>1. UNCHANGED <<users, posts, cut, reports, ends>> /\ Return(t)
  BY DEF SavePlatformEnvFile
<1>2. PICK c : c = Top(t)
  OBVIOUS
<1>3. /\ work[t] # <<>> /\ c \in Frames /\ FrameOK(c) /\ c.at = "file" /\ c.at \in After
      /\ c.post \in Posts
  BY <1>2, TopOK DEF SavePlatformEnvFile, After
<1>4. PICK path : path = GetEnvPath(c.post.id, c.post.time, c.post.pid)
  OBVIOUS
<1>5. files' = [p \in DOMAIN files \cup {path} |-> IF p = path THEN c.post.content ELSE files[p]]
  BY <1>2, <1>4 DEF SavePlatformEnvFile, SaveEnvFile
<1>6. path \in Texts /\ c.post.content \in Texts
  <2>1. c.post.time \o c.post.id \in Texts
    BY <1>3, TextTypes DEF Posts
  <2> QED
    BY <1>3, <1>4, <2>1, TextTypes DEF Posts, GetEnvPath
<1>7. PICK j \in DOMAIN posts : RowOfCall(posts[j], c)
  BY <1>3 DEF FrameOK
<1>8. EnvPath(posts[j]) = path /\ posts[j].unique_id = c.post.id /\ posts[j].pid = c.post.pid
  BY <1>4, <1>7 DEF RowOfCall, IsRowOf, EnvPath
<1>9. Grows
  BY <1>1, <1>5 DEF Grows, SameRow
<1>10. FilesOK'
  <2> SUFFICES ASSUME NEW p \in DOMAIN files'
               PROVE  \E i \in DOMAIN posts : EnvPath(posts[i]) = p /\ IsContentOf(files'[p], posts[i].unique_id)
    BY <1>1 DEF FilesOK, EnvPath, GetEnvPath, IsContentOf, Ends
  <2>1. CASE p = path
    <3>1. IsContentOf(c.post.content, c.post.id)
      BY <1>3 DEF FrameOK, PostOK
    <3> QED
      BY <1>5, <1>8, <2>1, <3>1
  <2>2. CASE p # path
    BY <1>5, <2>2 DEF PostsInv, FilesOK
  <2> QED
    BY <2>1, <2>2
<1>11. HasNow(c.post.pid, c.post.id) /\ Finished(c)
  BY <1>1, <1>3, <1>4, <1>5, <1>8 DEF HasNow, Finished
<1>12. Going
  BY <1>1, <1>2, <1>3, <1>9, <1>11, ReturnKeeps
<1>13. work' \in [Threads -> Seq(Frames)]
  BY <1>1, <1>3, ReturnStack DEF PostsInv
<1>14. PostTypes'
  <2>1. files' \in [DOMAIN files' -> Texts] /\ DOMAIN files' \subseteq Texts
    BY <1>5, <1>6 DEF PostsInv, PostTypes
  <2> QED
    BY <1>1, <1>13, <2>1 DEF PostsInv, PostTypes
<1> QED
  BY <1>1, <1>9, <1>10, <1>12, <1>14, StepKeeps

LEMMA FailPostKeeps ==
  ASSUME PostsInv, NEW post \in Reported, FailPost(post)
  PROVE  PostsInv'
<1>1. UNCHANGED <<users, files, work, cut, reports, ends>>
  BY DEF FailPost
<1>2. PICK pid \in GetPlatformID(post.name) : UpdatePost([post EXCEPT !.pid = pid], <<"2">>)
  BY DEF FailPost
<1>3. /\ posts' \in Seq(PostRows) /\ DOMAIN posts' = DOMAIN posts
      /\ \A i \in DOMAIN posts : SameRow(posts[i], posts'[i])
  BY <1>2, UpdateGrows, TextTypes
<1>4. Grows
  BY <1>1, <1>3 DEF Grows
<1>5. Going
  BY <1>1, <1>4, OtherKeeps DEF Going, FramesOK, StacksOK
<1>6. PostTypes'
  BY <1>1, <1>3 DEF PostsInv, PostTypes
<1> QED
  BY <1>1, <1>3, <1>4, <1>5, <1>6, FilesKeep, StepKeeps

LEMMA EndProcessKeeps ==
  ASSUME PostsInv, EndProcess
  PROVE  PostsInv'
<1>1. /\ UNCHANGED <<users, posts, files, reports>> /\ ends' = ends + 1
      /\ cut' = cut \cup UNION { { work[t][i].post : i \in DOMAIN work[t] } : t \in Threads }
      /\ work' = [t \in Threads |-> <<>>]
  BY DEF EndProcess
<1>2. work \in [Threads -> Seq(Frames)] /\ cut \subseteq Posts /\ ends \in Nat
  BY DEF PostsInv, PostTypes
<1>3. \A t \in Threads : \A i \in DOMAIN work[t] : work[t][i].post \in Posts
  <2>1. \A t \in Threads : \A i \in DOMAIN work[t] : work[t][i] \in Frames
    BY <1>2
  <2> QED
    BY <2>1 DEF Frames
<1>4. cut \subseteq cut' /\ cut' \subseteq Posts /\ work' \in [Threads -> Seq(Frames)]
  <2>1. UNION { { work[t][i].post : i \in DOMAIN work[t] } : t \in Threads } \subseteq Posts
    BY <1>3
  <2>2. <<>> \in Seq(Frames)
    OBVIOUS
  <2> QED
    BY <1>1, <1>2, <2>1, <2>2
<1>5. Grows
  BY <1>1, <1>4 DEF Grows, SameRow
<1>6. Going
  <2>1. ASSUME NEW u \in Threads PROVE Carried(u) /\ work'[u] = <<>>
    BY <1>1 DEF Carried
  <2> QED
    BY <2>1 DEF Going, FramesOK, StacksOK, StackOK
<1>7. PostTypes'
  BY <1>1, <1>2, <1>4 DEF PostsInv, PostTypes
<1> QED
  BY <1>1, <1>5, <1>6, <1>7, FilesKeep, StepKeeps

LEMMA StutterKeeps ==
  ASSUME PostsInv, UNCHANGED <<users, posts, files, work, cut, reports, ends>>
  PROVE  PostsInv'
<1>1. Grows /\ Going
  BY StillGrows, OtherKeeps DEF Going, FramesOK, StacksOK
<1> QED
  BY <1>1, QuietStep DEF PostsInv, PostTypes

LEMMA PostsInitOK == PostsInit => PostsInv
<1> SUFFICES ASSUME PostsInit PROVE PostsInv
  OBVIOUS
<1>1. users = UserRows /\ posts = <<>> /\ files = <<>> /\ cut = {} /\ reports = 0 /\ ends = 0
      /\ work = [t \in Threads |-> <<>>]
  BY DEF PostsInit
<1>2. UserRows \in Seq(Users) /\ Len(UserRows) \in Nat
  BY TablesAssumption
<1>3. DOMAIN files = {} /\ files \in [DOMAIN files -> Texts] /\ posts \in Seq(PostRows) /\ DOMAIN posts = {}
  BY <1>1
<1>4. work \in [Threads -> Seq(Frames)] /\ \A t \in Threads : DOMAIN work[t] = {}
  BY <1>1
<1>5. PostTypes
  BY <1>1, <1>2, <1>3, <1>4 DEF PostTypes
<1> QED
  BY <1>3, <1>4, <1>5 DEF PostsInv, FramesOK, StacksOK, StackOK, RowsOK, FilesOK

LEMMA PostsNextOK == PostsInv /\ [PostsNext]_postVars => PostsInv'
<1> SUFFICES ASSUME PostsInv, [PostsNext]_postVars PROVE PostsInv'
  OBVIOUS
<1>1. ASSUME NEW t \in Threads, NEW post \in Reported, ReportPost(t, post) PROVE PostsInv'
  BY <1>1, ReportKeeps
<1>2. ASSUME NEW t \in Threads, CheckExists(t) PROVE PostsInv'
  BY <1>2, CheckExistsKeeps
<1>3. ASSUME NEW t \in Threads, FindUser(t) PROVE PostsInv'
  BY <1>3, FindUserKeeps
<1>4. ASSUME NEW t \in Threads, AddUser(t) PROVE PostsInv'
  BY <1>4, AddUserKeeps
<1>5. ASSUME NEW t \in Threads, InsertPost(t) PROVE PostsInv'
  BY <1>5, InsertPostKeeps
<1>6. ASSUME NEW t \in Threads, SaveRepost(t) PROVE PostsInv'
  BY <1>6, SaveRepostKeeps
<1>7. ASSUME NEW t \in Threads, FindAffiliates(t) PROVE PostsInv'
  BY <1>7, FindAffiliatesKeeps
<1>8. ASSUME NEW t \in Threads, SaveAffiliate(t) PROVE PostsInv'
  BY <1>8, SaveAffiliateKeeps
<1>9. ASSUME NEW t \in Threads, SavePlatformEnvFile(t) PROVE PostsInv'
  BY <1>9, SaveEnvFileKeeps
<1>10. ASSUME NEW post \in Reported, FailPost(post) PROVE PostsInv'
  BY <1>10, FailPostKeeps
<1>11. CASE EndProcess
  BY <1>11, EndProcessKeeps
<1>12. ASSUME NEW pending \in BOOLEAN, Fetch(pending) PROVE PostsInv'
  BY <1>12, StutterKeeps DEF Fetch
<1>13. CASE UNCHANGED postVars
  BY <1>13, StutterKeeps DEF postVars
<1> QED
  BY <1>1, <1>2, <1>3, <1>4, <1>5, <1>6, <1>7, <1>8, <1>9, <1>10, <1>11, <1>12, <1>13 DEF PostsNext

LEMMA SavedFollows == PostsInv => SavedInFull
<1> SUFFICES ASSUME PostsInv, NEW i \in DOMAIN posts
             PROVE  LET row == posts[i]
                    IN /\ users[row.uid].pid = row.pid
                       /\ Unfinished(row) \/ EnvPath(row) \in DOMAIN files
                       /\ MustRepost(row.repost) /\ row.o_pid = NO_ORIGIN /\ ~Unfinished(row) =>
                            \A r \in RepostRows :
                              r.pid = row.pid /\ (\A name \in NamesOf(row) : Accepts(r, name)) =>
                                Has(r.r_pid, row.unique_id)
                       /\ HasOrigin(row.pid, row.o_pid, row.unique_id)
  BY DEF SavedInFull, Has, HasOrigin
<1>1. RowOK(posts[i])
  BY DEF PostsInv, RowsOK
<1>2. WasCut(posts[i]) => Unfinished(posts[i])
  BY DEF WasCut, Unfinished
<1>3. (\E t \in Threads : \E n \in DOMAIN work[t] : RowOfCall(posts[i], work[t][n])) => Unfinished(posts[i])
  BY DEF RowOfCall, Unfinished
<1>4. Unfinished(posts[i]) \/ EnvPath(posts[i]) \in DOMAIN files
  BY <1>1, <1>2, <1>3 DEF RowOK, EnvOK
<1>5. \A r \in RepostRows : RepostOK(posts[i], r) => Unfinished(posts[i]) \/ Has(r.r_pid, posts[i].unique_id)
  BY <1>2, <1>3 DEF RepostOK
<1> QED
  BY <1>1, <1>4, <1>5 DEF RowOK

\* For every platform, repost, filter, affiliate, report and thread, and
\* however their calls of SavePlatformPost interleave, fail and are cut by the
\* end of the process: a post whose call returned is saved in full, with its
\* user, its env file and its reposts (Platform::SavePlatformPost).
THEOREM PostsSaved == PostsSpec => []SavedInFull
<1>1. PostsInit => PostsInv
  BY PostsInitOK
<1>2. PostsInv /\ [PostsNext]_postVars => PostsInv'
  BY PostsNextOK
<1>3. PostsInv => SavedInFull
  BY SavedFollows
<1> QED
  BY <1>1, <1>2, <1>3, PTL DEF PostsSpec

LEMMA FetchIsOwn ==
  ASSUME PostsInv, NEW pending \in BOOLEAN, Fetch(pending)
  PROVE  FetchedIsOwn'
<1>1. UNCHANGED <<users, posts, files, work, cut, reports, ends>>
  BY DEF Fetch
<1>2. PICK rows : rows = { i \in DOMAIN posts : pending => posts[i].status = <<"0">> }
  OBVIOUS
<1>3. fetched' = [pending |-> pending, posts |-> ParsePlatformPosts(rows)]
  BY <1>2 DEF Fetch
<1>4. ASSUME NEW p \in fetched'.posts
      PROVE  /\ pending => p.status = <<"0">>
             /\ (\A i \in DOMAIN posts :
                   EnvPath(posts[i]) = GetEnvPath(p.id, p.time, p.pid) => posts[i].unique_id = p.id) =>
                  \/ IsContentOf(p.content, p.id)
                  \/ p.content = <<>> /\ Unfinished([pid |-> p.pid, unique_id |-> p.id])
  <2>1. PICK i \in rows, platform \in PlatformRows : p = ParsePost(posts[i], platform)
    BY <1>3, <1>4 DEF ParsePlatformPosts
  <2>2. i \in DOMAIN posts /\ (pending => posts[i].status = <<"0">>)
    BY <1>2
  <2>3. /\ p.id = posts[i].unique_id /\ p.time = posts[i].time /\ p.pid = posts[i].pid
        /\ p.status = posts[i].status /\ p.content = ReadEnvFile(EnvPath(posts[i]))
    BY <2>1 DEF ParsePost, PopulatePlatformPost
  <2>4. GetEnvPath(p.id, p.time, p.pid) = EnvPath(posts[i])
    BY <2>3 DEF EnvPath
  <2>5. CASE EnvPath(posts[i]) \in DOMAIN files
    <3>1. p.content = files[EnvPath(posts[i])]
      BY <2>3, <2>5 DEF ReadEnvFile
    <3>2. PICK k \in DOMAIN posts : /\ EnvPath(posts[k]) = EnvPath(posts[i])
                                   /\ IsContentOf(p.content, posts[k].unique_id)
      BY <2>5, <3>1 DEF PostsInv, FilesOK
    <3> QED
      BY <2>2, <2>3, <2>4, <3>2
  <2>6. CASE EnvPath(posts[i]) \notin DOMAIN files
    <3>1. p.content = <<>>
      BY <2>3, <2>6 DEF ReadEnvFile
    <3>2. Unfinished(posts[i])
      BY <2>2, <2>6, SavedFollows DEF SavedInFull
    <3>3. Unfinished([pid |-> p.pid, unique_id |-> p.id])
      BY <2>3, <3>2 DEF Unfinished, IsRowOf
    <3> QED
      BY <2>2, <2>3, <3>1, <3>3
  <2> QED
    BY <2>5, <2>6
<1>5. ASSUME NEW i \in DOMAIN posts, pending => posts[i].status = <<"0">>
      PROVE  \E p \in fetched'.posts : /\ p.pid = posts[i].pid /\ p.id = posts[i].unique_id
                                       /\ p.user = users[posts[i].uid].name
  <2>1. PICK platform \in PlatformRows : platform.id = posts[i].pid
    BY DEF PostsInv, RowsOK, RowOK, PlatformIds
  <2>2. PICK p : p = ParsePost(posts[i], platform)
    OBVIOUS
  <2>3. <<i, platform>> \in { x \in rows \X PlatformRows : x[2].id = posts[x[1]].pid }
    BY <1>2, <1>5, <2>1
  <2>4. p \in ParsePlatformPosts(rows)
    BY <2>2, <2>3 DEF ParsePlatformPosts
  <2> QED
    BY <1>3, <2>2, <2>4 DEF ParsePost
<1>6. fetched'.pending = pending
  BY <1>3
<1> QED
  BY <1>1, <1>4, <1>5, <1>6 DEF FetchedIsOwn, EnvPath, GetEnvPath, IsContentOf, Ends, Unfinished, IsRowOf

LEMMA FetchedStep == PostsInv /\ FetchedIsOwn /\ [PostsNext]_postVars => FetchedIsOwn'
<1> SUFFICES ASSUME PostsInv, FetchedIsOwn, [PostsNext]_postVars PROVE FetchedIsOwn'
  OBVIOUS
<1>1. ASSUME fetched' = NoFetch PROVE FetchedIsOwn'
  BY <1>1 DEF FetchedIsOwn, NoFetch
<1>2. ASSUME NEW t \in Threads,
             \/ \E post \in Reported : ReportPost(t, post)
             \/ CheckExists(t) \/ FindUser(t) \/ AddUser(t) \/ InsertPost(t)
             \/ SaveRepost(t) \/ FindAffiliates(t) \/ SaveAffiliate(t) \/ SavePlatformEnvFile(t)
      PROVE  fetched' = NoFetch
  BY <1>2 DEF ReportPost, CheckExists, FindUser, AddUser, InsertPost, SaveRepost, FindAffiliates,
              SaveAffiliate, SavePlatformEnvFile
<1>3. ASSUME NEW post \in Reported, FailPost(post) PROVE fetched' = NoFetch
  BY <1>3 DEF FailPost
<1>4. CASE EndProcess
  BY <1>1, <1>4 DEF EndProcess
<1>5. ASSUME NEW pending \in BOOLEAN, Fetch(pending) PROVE FetchedIsOwn'
  BY <1>5, FetchIsOwn
<1>6. CASE UNCHANGED postVars
  BY <1>6 DEF postVars, FetchedIsOwn, EnvPath, GetEnvPath, IsContentOf, Ends, Unfinished, IsRowOf, NoFetch
<1> QED
  BY <1>1, <1>2, <1>3, <1>4, <1>5, <1>6 DEF PostsNext

\* For the same constants and behaviours: a fetch returns every incomplete
\* post and no other, each with the content it was reported with and never
\* that of another, or with none while its call has yet to write the env file
\* or was cut before it did (Platform::Fetch, GetEnvPath).
THEOREM PostsFetched == PostsSpec => []FetchedIsOwn
<1>1. PostsInit => PostsInv /\ FetchedIsOwn
  BY PostsInitOK DEF PostsInit, FetchedIsOwn, NoFetch
<1>2. PostsInv /\ [PostsNext]_postVars => PostsInv'
  BY PostsNextOK
<1>3. PostsInv /\ FetchedIsOwn /\ [PostsNext]_postVars => FetchedIsOwn'
  BY FetchedStep
<1> QED
  BY <1>1, <1>2, <1>3, PTL DEF PostsSpec

-----------------------------------------------------------------------------
(***************************************************************************)
(* The tasks.  What a query returns follows from the step that answers it, *)
(* once each row is at the place its id says and the tokens and times are  *)
(* what they must be (TaskTypes); that a recurring task has its recurrence *)
(* needs what each writer has yet to insert (SavingOK).                    *)
(***************************************************************************)
IsSeq(s) == s \in Seq(Range(s))

TaskRowOK(row) ==
  /\ row = [id |-> row.id, time |-> row.time, mask |-> row.mask, flags |-> row.flags,
            env |-> row.env, recurring |-> row.recurring, notify |-> row.notify,
            completed |-> row.completed]
  /\ row.time \in Int /\ row.flags \in Seq(STRING) /\ row.recurring \in {0} \cup DOMAIN Interval

TaskTypes ==
  /\ IsSeq(scheduleRows) /\ IsSeq(fileRows) /\ IsSeq(recurringRows)
  /\ \A i \in DOMAIN scheduleRows : TaskRowOK(scheduleRows[i]) /\ scheduleRows[i].id = i
  /\ \A i \in DOMAIN recurringRows : recurringRows[i].time \in Int

\* A writer still has the recurrence of the task it inserts to record.
SavingOK(w) ==
  LET s == saving[w]
  IN /\ s = [id |-> s.id, files |-> s.files, recurring |-> s.recurring]
     /\ s.recurring \in BOOLEAN
     /\ s.id \in {0} \cup DOMAIN scheduleRows
     /\ s.id = 0 => ~s.recurring
     /\ s.id # 0 => (s.recurring <=> scheduleRows[s.id].recurring # 0)

SavingsOK == saving = [w \in Writers |-> saving[w]] /\ \A w \in Writers : SavingOK(w)

TasksInv == TaskTypes /\ SavingsOK /\ RecurrencesKept

-----------------------------------------------------------------------------
(* Numbers, places and sequences.                                          *)

\* A day after another is at the same hour: the start of a day, and a rest.
LEMMA SameHour ==
  ASSUME NEW time \in Int
  PROVE  TimeAsToday(time) \in Int /\ TimeAsToday(time) % Day = time % Day
<1> DEFINE r  == time % Day
           q  == Today \div Day
           s  == Today + r
           qs == s \div Day
           rs == s % Day
<1>1. Day \in Nat /\ Day > 0 /\ Today \in Nat /\ Today % Day = 0
  BY TimesAssumption
<1>2. r \in 0 .. Day - 1 /\ q \in Int /\ Today = Day * q
  <2> DEFINE t == Today % Day
  <2>1. r \in 0 .. Day - 1
    BY <1>1
  <2>2. q \in Int /\ t \in 0 .. Day - 1 /\ Today = Day * q + t
    BY <1>1
  <2>3. t = 0
    BY <1>1
  <2> HIDE DEF q, t, r
  <2> QED
    BY <1>1, <2>1, <2>2, <2>3
<1>3. s \in Int
  BY <1>1, <1>2
<1>4. qs \in Int /\ rs \in 0 .. Day - 1 /\ s = Day * qs + rs
  <2> HIDE DEF s
  <2> QED
    BY <1>1, <1>3
<1>5. s = Day * q + r
  BY <1>1, <1>2
<1> HIDE DEF r, q, s, qs, rs
<1>6. ASSUME NEW a \in Int, NEW b \in Int, a + 1 <= b PROVE Day * a + Day <= Day * b
  <2>1. Day * (a + 1) <= Day * b
    BY <1>1, <1>6
  <2>2. Day * (a + 1) = Day * a + Day
    BY <1>1
  <2> QED
    BY <2>1, <2>2
<1>7. Day * q \in Int /\ Day * qs \in Int
  BY <1>1, <1>2, <1>4
<1>8. ~(q + 1 <= qs)
  <2> SUFFICES ASSUME q + 1 <= qs PROVE FALSE
    OBVIOUS
  <2>1. Day * q + Day <= Day * qs
    BY <1>2, <1>4, <1>6
  <2> QED
    BY <1>1, <1>2, <1>4, <1>5, <1>7, <2>1
<1>9. ~(qs + 1 <= q)
  <2> SUFFICES ASSUME qs + 1 <= q PROVE FALSE
    OBVIOUS
  <2>1. Day * qs + Day <= Day * q
    BY <1>2, <1>4, <1>6
  <2> QED
    BY <1>1, <1>2, <1>4, <1>5, <1>7, <2>1
<1>10. q = qs
  BY <1>2, <1>4, <1>8, <1>9
<1>11. rs = r
  BY <1>2, <1>4, <1>5, <1>7, <1>10
<1> QED
  BY <1>3, <1>11 DEF TimeAsToday, s, r, rs

\* A set of numbers that is not empty has a least one.
LEMMA LeastOf ==
  ASSUME NEW S, S \subseteq Nat, S # {}
  PROVE  Min(S) \in S /\ \A i \in S : Min(S) <= i
<1>1. \E x \in S : \A y \in S : ~(<<y, x>> \in OpToRel(<, Nat))
  BY NatLessThanWellFounded, WFMin
<1>2. PICK x \in S : \A y \in S : ~(<<y, x>> \in OpToRel(<, Nat))
  BY <1>1
<1>3. \A y \in S : x <= y
  <2> SUFFICES ASSUME NEW y \in S, ~(x <= y) PROVE FALSE
    OBVIOUS
  <2>1. y < x /\ y \in Nat /\ x \in Nat
    OBVIOUS
  <2>2. <<y, x>> \in OpToRel(<, Nat)
    BY <2>1 DEF OpToRel
  <2> QED
    BY <1>2, <2>2
<1> QED
  BY <1>3 DEF Min

LEMMA FirstPlace ==
  ASSUME NEW S, NEW n \in Nat, S \subseteq 1 .. n
  PROVE  /\ FirstOfPlaces(S) = 0 <=> S = {}
         /\ S # {} => FirstOfPlaces(S) \in S /\ \A i \in S : FirstOfPlaces(S) <= i
<1>1. S \subseteq Nat /\ 0 \notin S
  OBVIOUS
<1>2. S # {} => Min(S) \in S /\ \A i \in S : Min(S) <= i
  BY <1>1, LeastOf
<1> QED
  BY <1>1, <1>2 DEF FirstOfPlaces

Rank(S, i) == Cardinality({ j \in S : j <= i })

\* The rank of a place is one to one.
LEMMA Ranks ==
  ASSUME NEW n \in Nat, NEW S, S \subseteq 1 .. n
  PROVE  /\ IsFiniteSet(S) /\ Cardinality(S) \in Nat
         /\ \A i \in S : Rank(S, i) \in 1 .. Cardinality(S)
         /\ \A i, k \in S : Rank(S, i) = Rank(S, k) => i = k
<1>1. IsFiniteSet(S) /\ Cardinality(S) \in Nat /\ S \subseteq Nat
  <2>1. IsFiniteSet(1 .. n)
    BY FS_Interval
  <2>2. IsFiniteSet(S)
    BY <2>1, FS_Subset
  <2> QED
    BY <2>2, FS_CardinalityType
<1> DEFINE U(i) == { j \in S : j <= i }
<1>2. ASSUME NEW i \in S
      PROVE  IsFiniteSet(U(i)) /\ Cardinality(U(i)) \in Nat /\ Cardinality(U(i)) <= Cardinality(S)
             /\ Cardinality(U(i)) # 0
  <2>1. U(i) \in SUBSET S /\ i \in U(i)
    BY <1>1
  <2> HIDE DEF U
  <2>2. IsFiniteSet(U(i)) /\ Cardinality(U(i)) <= Cardinality(S)
    BY <1>1, <2>1, FS_Subset
  <2>3. Cardinality(U(i)) \in Nat
    BY <2>2, FS_CardinalityType
  <2>4. Cardinality(U(i)) # 0
    BY <2>1, <2>2, FS_EmptySet
  <2> QED
    BY <2>2, <2>3, <2>4
<1>3. ASSUME NEW i \in S, NEW k \in S, i < k PROVE Cardinality(U(i)) # Cardinality(U(k))
  <2>0. i \in Nat /\ k \in Nat /\ \A j \in S : j \in Nat
    BY <1>1
  <2>1. U(i) \in SUBSET U(k) /\ k \in U(k) /\ k \notin U(i)
    <3>1. ASSUME NEW j \in U(i) PROVE j \in U(k)
      BY <1>3, <2>0
    <3>2. k \in U(k) /\ k \notin U(i)
      BY <1>3, <2>0
    <3> QED
      BY <3>1, <3>2
  <2> HIDE DEF U
  <2>2. IsFiniteSet(U(k))
    BY <1>2
  <2>3. Cardinality(U(k)) = Cardinality(U(i)) => U(k) = U(i)
    BY <2>1, <2>2, FS_Subset
  <2> QED
    BY <2>1, <2>3
<1>4. ASSUME NEW i \in S, NEW k \in S, Cardinality(U(i)) = Cardinality(U(k)) PROVE i = k
  <2> HIDE DEF U
  <2>1. ~(i < k) /\ ~(k < i)
    BY <1>3, <1>4
  <2> QED
    BY <1>1, <2>1
<1>5. \A i \in S : Rank(S, i) = Cardinality(U(i))
  BY DEF Rank
<1> HIDE DEF U
<1>6. ASSUME NEW i \in S PROVE Rank(S, i) \in 1 .. Cardinality(S)
  BY <1>1, <1>2, <1>5
<1> QED
  BY <1>1, <1>4, <1>5, <1>6

\* InOrder gives the elements at the places, each of them and no other.
LEMMA InOrderHas ==
  ASSUME NEW n \in Nat, NEW S, S \subseteq 1 .. n, NEW s
  PROVE  /\ Cardinality(S) \in Nat /\ DOMAIN InOrder(s, S) = 1 .. Cardinality(S)
         /\ \A k \in 1 .. Cardinality(S) : Place(S, k) \in S /\ InOrder(s, S)[k] = s[Place(S, k)]
         /\ \A i \in S : \E k \in 1 .. Cardinality(S) : Place(S, k) = i
<1> DEFINE N == Cardinality(S)
           rank == [i \in S |-> Rank(S, i)]
<1>1. /\ IsFiniteSet(S) /\ N \in Nat /\ \A i \in S : Rank(S, i) \in 1 .. N
      /\ \A i, k \in S : Rank(S, i) = Rank(S, k) => i = k
  BY Ranks
<1>2. IsFiniteSet(1 .. N) /\ Cardinality(1 .. N) = N
  <2> HIDE DEF N
  <2> QED
    BY <1>1, FS_Interval
<1>3. rank \in Injection(S, 1 .. N)
  BY <1>1 DEF Injection, IsInjective
<1>4. rank \in Surjection(S, 1 .. N)
  <2> HIDE DEF rank
  <2> QED
    BY <1>1, <1>2, <1>3, FS_Injection
<1>5. ASSUME NEW k \in 1 .. N PROVE Place(S, k) \in S /\ Rank(S, Place(S, k)) = k
  <2>1. \E i \in S : Rank(S, i) = k
    BY <1>4 DEF Surjection
  <2> QED
    BY <2>1 DEF Place, Rank
<1>6. ASSUME NEW i \in S PROVE \E k \in 1 .. N : Place(S, k) = i
  <2>1. Rank(S, i) \in 1 .. N
    BY <1>1
  <2>2. Place(S, Rank(S, i)) = i
    BY <1>1, <1>5, <2>1
  <2> QED
    BY <2>1, <2>2
<1> QED
  BY <1>1, <1>5, <1>6 DEF InOrder

LEMMA InOrderRange ==
  ASSUME NEW n \in Nat, NEW S, S \subseteq 1 .. n, NEW s
  PROVE  Range(InOrder(s, S)) = { s[i] : i \in S }
<1> DEFINE o == InOrder(s, S)
           N == Cardinality(S)
<1>1. /\ DOMAIN o = 1 .. N
      /\ \A k \in 1 .. N : Place(S, k) \in S /\ o[k] = s[Place(S, k)]
      /\ \A i \in S : \E k \in 1 .. N : Place(S, k) = i
  BY InOrderHas
<1>2. Range(o) = { o[k] : k \in DOMAIN o }
  BY DEF Range
<1> HIDE DEF o, N
<1>3. ASSUME NEW x \in Range(o) PROVE x \in { s[i] : i \in S }
  <2>1. PICK k \in 1 .. N : x = o[k]
    BY <1>1, <1>2
  <2>2. Place(S, k) \in S /\ x = s[Place(S, k)]
    BY <1>1, <2>1
  <2> QED
    BY <2>2
<1>4. ASSUME NEW i \in S PROVE s[i] \in Range(o)
  <2>1. PICK k \in 1 .. N : Place(S, k) = i
    BY <1>1
  <2>2. o[k] = s[i] /\ k \in DOMAIN o
    BY <1>1, <2>1
  <2> QED
    BY <1>2, <2>2
<1> QED
  BY <1>3, <1>4 DEF o

LEMMA SeqDomain ==
  ASSUME NEW s, IsSeq(s)
  PROVE  Len(s) \in Nat /\ DOMAIN s = 1 .. Len(s)
BY LenProperties DEF IsSeq

LEMMA AppendAny ==
  ASSUME NEW s, IsSeq(s), NEW e
  PROVE  /\ IsSeq(Append(s, e)) /\ Len(Append(s, e)) = Len(s) + 1
         /\ \A i \in DOMAIN s : Append(s, e)[i] = s[i]
         /\ Append(s, e)[Len(s) + 1] = e
<1> DEFINE S == Range(s) \cup {e}
           new == Append(s, e)
<1>1. s \in Seq(S) /\ e \in S
  BY SeqMonotonic DEF IsSeq
<1>2. Len(s) \in Nat /\ DOMAIN s = 1 .. Len(s)
  BY SeqDomain
<1> HIDE DEF S
<1>3. /\ new \in Seq(S) /\ Len(new) = Len(s) + 1
      /\ \A i \in 1 .. Len(s) : new[i] = s[i]
      /\ new[Len(s) + 1] = e
  BY <1>1, AppendProperties
<1> HIDE DEF new
<1>4. IsSeq(new)
  BY <1>3, SeqOfRange DEF IsSeq
<1> QED
  BY <1>2, <1>3, <1>4 DEF new

-----------------------------------------------------------------------------
(* The rows and what each writer has yet to insert.                        *)

LEMMA TasksInitOK == TasksInit => TasksInv
<1> SUFFICES ASSUME TasksInit PROVE TasksInv
  OBVIOUS
<1>1. IsSeq(<<>>) /\ DOMAIN <<>> = {}
  BY DEF IsSeq
<1>2. TaskTypes
  BY <1>1 DEF TasksInit, TaskTypes
<1>3. SavingsOK
  BY DEF TasksInit, SavingsOK, SavingOK, Idle
<1>4. RecurrencesKept
  BY <1>1 DEF TasksInit, RecurrencesKept
<1> QED
  BY <1>2, <1>3, <1>4 DEF TasksInv

\* A writer has no task to insert after the last of its rows.
LEMMA SavedOK ==
  ASSUME NEW s, s.recurring \in BOOLEAN
  PROVE  \/ Saved(s) = Idle /\ ~s.recurring
         \/ Saved(s) = s
BY DEF Saved

LEMMA IdleOK == \A v : saving'[v] = Idle => SavingOK(v)'
BY DEF SavingOK, Idle

LEMMA ScheduleRowOK ==
  ASSUME TasksInv, NEW w \in Writers, NEW task, ScheduleRow(w, task),
         task.time \in Int, task.flags \in Seq(STRING), task.recurring \in {0} \cup DOMAIN Interval
  PROVE  TasksInv'
<1> DEFINE n == Len(scheduleRows)
<1>1. PICK id : id = Len(scheduleRows) + 1
  OBVIOUS
<1>2. PICK row : row = [id |-> id, time |-> task.time, mask |-> task.mask, flags |-> task.flags,
              env |-> task.env, recurring |-> task.recurring, notify |-> task.notify,
              completed |-> 0]
  OBVIOUS
<1>3. PICK s : s = [id |-> id, files |-> task.files, recurring |-> task.recurring # 0]
  OBVIOUS
<1>4. /\ scheduleRows' = Append(scheduleRows, row) /\ saving' = [saving EXCEPT ![w] = Saved(s)]
      /\ fileRows' = fileRows /\ recurringRows' = recurringRows /\ cutShort' = cutShort
      /\ saving[w] = Idle
  BY <1>1, <1>2, <1>3 DEF ScheduleRow
<1>5. IsSeq(scheduleRows) /\ IsSeq(fileRows) /\ IsSeq(recurringRows)
  BY DEF TasksInv, TaskTypes
<1>6. n \in Nat /\ DOMAIN scheduleRows = 1 .. n
  BY <1>5, SeqDomain
<1>7. /\ IsSeq(scheduleRows') /\ Len(scheduleRows') = id
      /\ \A i \in DOMAIN scheduleRows : scheduleRows'[i] = scheduleRows[i]
      /\ scheduleRows'[id] = row
  BY <1>1, <1>4, <1>5, AppendAny
<1>8. DOMAIN scheduleRows' = 1 .. id
  BY <1>7, SeqDomain
<1> HIDE DEF n
<1>9. DOMAIN scheduleRows' = DOMAIN scheduleRows \cup {id} /\ id \notin DOMAIN scheduleRows /\ id # 0
      /\ 0 \notin DOMAIN scheduleRows
  BY <1>1, <1>6, <1>8 DEF n
<1>10. TaskRowOK(row) /\ row.id = id /\ (row.recurring # 0 <=> s.recurring) /\ s.recurring \in BOOLEAN
       /\ s.id = id /\ s = [id |-> s.id, files |-> s.files, recurring |-> s.recurring]
  BY <1>2, <1>3 DEF TaskRowOK
<1>11. TaskTypes'
  <2>1. ASSUME NEW i \in DOMAIN scheduleRows'
        PROVE  TaskRowOK(scheduleRows'[i]) /\ scheduleRows'[i].id = i
    BY <1>7, <1>9, <1>10 DEF TasksInv, TaskTypes
  <2>2. \A i \in DOMAIN recurringRows' : recurringRows'[i].time \in Int
    BY <1>4 DEF TasksInv, TaskTypes
  <2> QED
    BY <1>4, <1>5, <1>7, <2>1, <2>2 DEF TaskTypes, IsSeq, TaskRowOK
<1>12. saving = [v \in Writers |-> saving[v]]
  BY DEF TasksInv, SavingsOK
<1>13. /\ saving' = [v \in Writers |-> saving'[v]] /\ saving'[w] = Saved(s)
       /\ \A v \in Writers : v # w => saving'[v] = saving[v]
  BY <1>4, <1>12
<1>14. (Saved(s) = Idle /\ ~s.recurring) \/ Saved(s) = s
  BY <1>10, SavedOK
<1>15. SavingsOK'
  <2>1. ASSUME NEW v \in Writers PROVE SavingOK(v)'
    <3>1. CASE v # w
      <4>1. SavingOK(v) /\ saving'[v] = saving[v]
        BY <1>13, <3>1 DEF TasksInv, SavingsOK
      <4> QED
        BY <1>7, <1>9, <4>1 DEF SavingOK
    <3>2. CASE v = w /\ Saved(s) = Idle
      <4>1. saving'[v] = Idle
        BY <1>13, <3>2
      <4> QED
        BY <4>1, IdleOK
    <3>3. CASE v = w /\ Saved(s) = s
      BY <1>7, <1>9, <1>10, <1>13, <3>3 DEF SavingOK
    <3> QED
      BY <1>14, <3>1, <3>2, <3>3
  <2> QED
    BY <1>13, <2>1 DEF SavingsOK
<1>16. RecurrencesKept'
  <2> SUFFICES ASSUME NEW i \in (DOMAIN scheduleRows \ cutShort)', scheduleRows'[i].recurring # 0,
                      \A v \in Writers : saving'[v].id # i
               PROVE  HasRecurring(i)'
    BY DEF RecurrencesKept
  <2>1. CASE i = id
    BY <1>7, <1>10, <1>13, <1>14, <2>1
  <2>2. CASE i # id
    <3>1. i \in DOMAIN scheduleRows \ cutShort /\ scheduleRows[i].recurring # 0
      BY <1>4, <1>7, <1>9, <2>2
    <3>2. \A v \in Writers : saving[v].id # i
      BY <1>4, <1>9, <1>13, <3>1 DEF Idle
    <3>3. HasRecurring(i)
      BY <3>1, <3>2 DEF TasksInv, RecurrencesKept
    <3> QED
      BY <1>4, <3>3 DEF HasRecurring
  <2> QED
    BY <2>1, <2>2
<1> QED
  BY <1>11, <1>15, <1>16 DEF TasksInv

LEMMA ScheduleOK ==
  ASSUME TasksInv, NEW w \in Writers, NEW task \in TaskInputs, Schedule(w, task)
  PROVE  TasksInv'
<1>1. task.time \in Int /\ task.flags \in Seq(STRING) /\ task.recurring \in {0} \cup DOMAIN Interval
  BY TasksAssumption
<1>2. ScheduleRow(w, task)
  BY DEF Schedule
<1> QED
  BY <1>1, <1>2, ScheduleRowOK

\* The insertions that follow a row of "schedule" leave those rows alone: the
\* invariant holds again if every recurrence that is no longer owed is there.
LEMMA WritersStep ==
  ASSUME TasksInv, NEW w \in Writers, NEW s, saving' = [saving EXCEPT ![w] = s],
         NEW id, id = saving[w].id,
         scheduleRows' = scheduleRows,
         IsSeq(fileRows'), IsSeq(recurringRows'),
         \A i \in DOMAIN recurringRows' : recurringRows'[i].time \in Int,
         \A i : HasRecurring(i) => HasRecurring(i)',
         cutShort \subseteq cutShort',
         \/ s = Idle
         \/ s = [id |-> saving[w].id, files |-> s.files, recurring |-> saving[w].recurring],
         id # 0 /\ s = Idle /\ saving[w].recurring => id \in cutShort' \/ HasRecurring(id)'
  PROVE  TasksInv'
<1>1. saving = [v \in Writers |-> saving[v]]
  BY DEF TasksInv, SavingsOK
<1>2. /\ saving' = [v \in Writers |-> saving'[v]] /\ saving'[w] = s
      /\ \A v \in Writers : v # w => saving'[v] = saving[v]
  BY <1>1
<1>3. TaskTypes'
  BY DEF TasksInv, TaskTypes, IsSeq, TaskRowOK
<1>4. \A v \in Writers : SavingOK(v)
  BY DEF TasksInv, SavingsOK
<1>5. SavingsOK'
  <2>1. ASSUME NEW v \in Writers PROVE SavingOK(v)'
    <3>1. CASE v # w
      <4>1. SavingOK(v) /\ saving'[v] = saving[v]
        BY <1>2, <1>4, <3>1
      <4> QED
        BY <4>1 DEF SavingOK
    <3>2. CASE v = w /\ s = Idle
      <4>1. saving'[v] = Idle
        BY <1>2, <3>2
      <4> QED
        BY <4>1, IdleOK
    <3>3. CASE v = w /\ s # Idle
      <4>1. SavingOK(w) /\ saving'[v] = s
        BY <1>2, <1>4, <3>3
      <4>2. s = [id |-> saving[w].id, files |-> s.files, recurring |-> saving[w].recurring]
        BY <3>3
      <4>3. /\ s = [id |-> s.id, files |-> s.files, recurring |-> s.recurring]
            /\ s.id = saving[w].id /\ s.recurring = saving[w].recurring
        BY <4>2
      <4> QED
        BY <3>3, <4>1, <4>3 DEF SavingOK
    <3> QED
      BY <3>1, <3>2, <3>3
  <2> QED
    BY <1>2, <2>1 DEF SavingsOK
<1>6. RecurrencesKept'
  <2> SUFFICES ASSUME NEW i \in (DOMAIN scheduleRows \ cutShort)', scheduleRows'[i].recurring # 0,
                      \A v \in Writers : saving'[v].id # i
               PROVE  HasRecurring(i)'
    BY DEF RecurrencesKept
  <2>1. i \in DOMAIN scheduleRows \ cutShort /\ scheduleRows[i].recurring # 0 /\ i \notin cutShort'
    OBVIOUS
  <2>2. CASE saving[w].id # i
    <3>1. \A v \in Writers : saving[v].id # i
      BY <1>2, <2>2
    <3> QED
      BY <2>1, <3>1 DEF TasksInv, RecurrencesKept
  <2>3. CASE saving[w].id = i
    <3>1. saving'[w].id # i
      OBVIOUS
    <3>2. s = Idle
      BY <1>2, <2>3, <3>1
    <3>3. i # 0
      <4>1. IsSeq(scheduleRows)
        BY DEF TasksInv, TaskTypes
      <4>2. DOMAIN scheduleRows = 1 .. Len(scheduleRows) /\ Len(scheduleRows) \in Nat
        BY <4>1, SeqDomain
      <4> QED
        BY <2>1, <4>2
    <3>4. saving[w].recurring
      <4>1. SavingOK(w)
        BY <1>4
      <4> QED
        BY <2>1, <2>3, <3>3, <4>1 DEF SavingOK
    <3>5. id \in cutShort' \/ HasRecurring(id)'
      BY <2>3, <3>2, <3>3, <3>4, Zenon
    <3> QED
      BY <2>1, <2>3, <3>5
  <2> QED
    BY <2>2, <2>3
<1> QED
  BY <1>3, <1>5, <1>6 DEF TasksInv

LEMMA ScheduleFileOK ==
  ASSUME TasksInv, NEW w \in Writers, ScheduleFile(w)
  PROVE  TasksInv'
<1>1. PICK s : s = [saving[w] EXCEPT !.files = Tail(@)]
  OBVIOUS
<1>2. PICK new : new = [sid |-> saving[w].id, name |-> Head(saving[w].files).name,
                        type |-> GetFileType(Head(saving[w].files).extension)]
  OBVIOUS
<1>3. PICK id : id = saving[w].id
  OBVIOUS
<1>4. /\ fileRows' = Append(fileRows, new) /\ saving' = [saving EXCEPT ![w] = Saved(s)]
      /\ scheduleRows' = scheduleRows /\ recurringRows' = recurringRows /\ cutShort' = cutShort
  <2>1. saving = [v \in Writers |-> saving[v]]
    BY DEF TasksInv, SavingsOK
  <2>2. saving' = [saving EXCEPT ![w] = Saved([saving[w] EXCEPT !.files = Tail(@)])]
    BY <2>1 DEF ScheduleFile
  <2>3. fileRows' = Append(fileRows, new)
    BY <1>2 DEF ScheduleFile
  <2>4. scheduleRows' = scheduleRows /\ recurringRows' = recurringRows /\ cutShort' = cutShort
    BY DEF ScheduleFile
  <2> QED
    BY <1>1, <2>2, <2>3, <2>4
<1>5. /\ IsSeq(fileRows') /\ IsSeq(recurringRows')
      /\ \A i \in DOMAIN recurringRows' : recurringRows'[i].time \in Int
  <2>1. IsSeq(Append(fileRows, new))
    BY AppendAny DEF TasksInv, TaskTypes
  <2> QED
    BY <1>4, <2>1 DEF TasksInv, TaskTypes
<1>6. \A i : HasRecurring(i) => HasRecurring(i)'
  BY <1>4 DEF HasRecurring
<1>7. SavingOK(w)
  BY DEF TasksInv, SavingsOK
<1>8. /\ s = [id |-> saving[w].id, files |-> s.files, recurring |-> saving[w].recurring]
      /\ s.recurring = saving[w].recurring /\ s.recurring \in BOOLEAN
  BY <1>1, <1>7 DEF SavingOK
<1>9. PICK t : t = Saved(s)
  OBVIOUS
<1>10. \/ t = Idle /\ ~s.recurring
       \/ t = s
  BY <1>8, <1>9, SavedOK
<1>11. t # Idle => t = s
  BY <1>10
<1>12. id # 0 /\ t = Idle /\ saving[w].recurring => id \in cutShort' \/ HasRecurring(id)'
  <2> SUFFICES ASSUME id # 0, t = Idle, saving[w].recurring PROVE FALSE
    BY Zenon
  <2>1. s.recurring
    BY <1>8
  <2>2. t = s
    BY <1>10, <2>1
  <2>3. s.id = id
    BY <1>3, <1>8
  <2> QED
    BY <2>2, <2>3 DEF Idle
<1>13. \/ t = Idle
       \/ t = [id |-> saving[w].id, files |-> t.files, recurring |-> saving[w].recurring]
  BY <1>8, <1>11
<1>14. saving' = [saving EXCEPT ![w] = t] /\ cutShort \subseteq cutShort'
  BY <1>4, <1>9
<1> QED
  BY <1>3, <1>4, <1>5, <1>6, <1>12, <1>13, <1>14, WritersStep

\* The recurrence that a writer adds is that of the task it inserts.
LEMMA ScheduleRecurringOK ==
  ASSUME TasksInv, NEW w \in Writers, ScheduleRecurring(w)
  PROVE  TasksInv'
<1>1. PICK id : id = saving[w].id
  OBVIOUS
<1>2. PICK row : row = scheduleRows[id]
  OBVIOUS
<1>3. PICK new : new = [sid |-> row.id, time |-> row.time - Interval[row.recurring]]
  OBVIOUS
<1>4. /\ recurringRows' = Append(recurringRows, new) /\ saving' = [saving EXCEPT ![w] = Idle]
      /\ scheduleRows' = scheduleRows /\ fileRows' = fileRows /\ cutShort' = cutShort
      /\ saving[w].recurring
  BY <1>1, <1>2, <1>3 DEF ScheduleRecurring
<1>5. SavingOK(w)
  BY DEF TasksInv, SavingsOK
<1>6. id \in DOMAIN scheduleRows /\ row.recurring # 0
  <2>1. id # 0
    BY <1>1, <1>4, <1>5 DEF SavingOK
  <2> QED
    BY <1>1, <1>2, <1>4, <1>5, <2>1 DEF SavingOK
<1>7. row.id = id /\ TaskRowOK(row)
  BY <1>2, <1>6 DEF TasksInv, TaskTypes
<1>8. row.time \in Int /\ Interval[row.recurring] \in Nat
  BY <1>6, <1>7, TimesAssumption DEF TaskRowOK
<1>9. new.sid = id /\ new.time \in Int
  BY <1>3, <1>7, <1>8
<1>10. IsSeq(recurringRows) /\ IsSeq(fileRows) /\ \A i \in DOMAIN recurringRows : recurringRows[i].time \in Int
  BY DEF TasksInv, TaskTypes
<1>11. PICK n : n = Len(recurringRows) + 1
  OBVIOUS
<1>12. Len(recurringRows) \in Nat /\ DOMAIN recurringRows = 1 .. Len(recurringRows)
  BY <1>10, SeqDomain
<1>13. /\ IsSeq(recurringRows') /\ Len(recurringRows') = n
       /\ \A i \in DOMAIN recurringRows : recurringRows'[i] = recurringRows[i]
       /\ recurringRows'[n] = new
  BY <1>4, <1>10, <1>11, AppendAny
<1>14. DOMAIN recurringRows' = 1 .. n
  BY <1>13, SeqDomain
<1>15. DOMAIN recurringRows' = DOMAIN recurringRows \cup {n}
  BY <1>11, <1>12, <1>14
<1>16. \A i \in DOMAIN recurringRows' : recurringRows'[i].time \in Int
  BY <1>9, <1>10, <1>13, <1>15
<1>17. \A i : HasRecurring(i) => HasRecurring(i)'
  BY <1>13, <1>15 DEF HasRecurring
<1>18. HasRecurring(id)'
  BY <1>9, <1>13, <1>15 DEF HasRecurring
<1>19. IsSeq(fileRows') /\ cutShort \subseteq cutShort'
  BY <1>4, <1>10
<1>20. PICK t : t = Idle
  OBVIOUS
<1>21. saving' = [saving EXCEPT ![w] = t]
  BY <1>4, <1>20
<1> QED
  BY <1>1, <1>4, <1>13, <1>16, <1>17, <1>18, <1>19, <1>20, <1>21, WritersStep

LEMMA ScheduleFailsOK ==
  ASSUME TasksInv, NEW w \in Writers, ScheduleFails(w)
  PROVE  TasksInv'
<1>1. PICK id : id = saving[w].id
  OBVIOUS
<1>2. PICK t : t = Idle
  OBVIOUS
<1>3. /\ cutShort' = cutShort \cup {id} /\ saving' = [saving EXCEPT ![w] = t]
      /\ scheduleRows' = scheduleRows /\ fileRows' = fileRows /\ recurringRows' = recurringRows
  BY <1>1, <1>2 DEF ScheduleFails
<1>4. IsSeq(recurringRows') /\ IsSeq(fileRows') /\ \A i \in DOMAIN recurringRows' : recurringRows'[i].time \in Int
  BY <1>3 DEF TasksInv, TaskTypes
<1>5. \A i : HasRecurring(i) => HasRecurring(i)'
  BY <1>3 DEF HasRecurring
<1>6. cutShort \subseteq cutShort' /\ id \in cutShort'
  BY <1>3
<1> QED
  BY <1>1, <1>2, <1>3, <1>4, <1>5, <1>6, WritersStep

\* The status of a task is all of its row that changes.
LEMMA UpdateStatusOK ==
  ASSUME TasksInv, NEW id, NEW completed, UpdateStatus(id, completed)
  PROVE  TasksInv'
<1>1. /\ fileRows' = fileRows /\ recurringRows' = recurringRows /\ saving' = saving
      /\ cutShort' = cutShort
  BY DEF UpdateStatus
<1>2. /\ IsSeq(scheduleRows)
      /\ \A i \in DOMAIN scheduleRows : TaskRowOK(scheduleRows[i]) /\ scheduleRows[i].id = i
  BY DEF TasksInv, TaskTypes
<1>3. Len(scheduleRows) \in Nat /\ DOMAIN scheduleRows = 1 .. Len(scheduleRows)
  BY <1>2, SeqDomain
<1>4. CASE id \notin DOMAIN scheduleRows
  <2>1. scheduleRows' = scheduleRows
    BY <1>4 DEF UpdateStatus
  <2> QED
    BY <1>1, <2>1 DEF TasksInv, TaskTypes, TaskRowOK, IsSeq, SavingsOK, SavingOK, RecurrencesKept, HasRecurring
<1>5. CASE id \in DOMAIN scheduleRows
  <2>1. PICK row : row = [scheduleRows[id] EXCEPT !.completed = completed]
    OBVIOUS
  <2>2. scheduleRows' = [scheduleRows EXCEPT ![id] = row]
    BY <1>5, <2>1 DEF UpdateStatus
  <2>3. TaskRowOK(scheduleRows[id]) /\ scheduleRows[id].id = id
    BY <1>2, <1>5
  <2>4. TaskRowOK(row) /\ row.id = id /\ row.recurring = scheduleRows[id].recurring
    BY <2>1, <2>3 DEF TaskRowOK
  <2>5. scheduleRows = [i \in DOMAIN scheduleRows |-> scheduleRows[i]]
    BY <1>2, <1>3 DEF IsSeq
  <2>6. /\ DOMAIN scheduleRows' = DOMAIN scheduleRows
        /\ scheduleRows' = [i \in 1 .. Len(scheduleRows) |-> scheduleRows'[i]]
        /\ \A i \in DOMAIN scheduleRows :
             /\ TaskRowOK(scheduleRows'[i]) /\ scheduleRows'[i].id = i
             /\ scheduleRows'[i].recurring = scheduleRows[i].recurring
    BY <1>2, <1>3, <2>2, <2>4, <2>5
  <2>7. IsSeq(scheduleRows')
    BY <1>3, <2>6 DEF IsSeq, Range
  <2>8. TaskTypes'
    BY <1>1, <2>6, <2>7 DEF TasksInv, TaskTypes, IsSeq, TaskRowOK
  <2>9. SavingsOK'
    <3>1. ASSUME NEW v \in Writers PROVE SavingOK(v)'
      <4>1. SavingOK(v)
        BY DEF TasksInv, SavingsOK
      <4> QED
        BY <1>1, <2>6, <4>1 DEF SavingOK
    <3> QED
      BY <1>1, <3>1 DEF TasksInv, SavingsOK
  <2>10. RecurrencesKept'
    BY <1>1, <2>6 DEF TasksInv, RecurrencesKept, HasRecurring
  <2> QED
    BY <2>8, <2>9, <2>10 DEF TasksInv
<1> QED
  BY <1>4, <1>5

LEMMA TasksInvSame == TasksInv /\ UNCHANGED rowVars => TasksInv'
BY DEF rowVars, TasksInv, TaskTypes, TaskRowOK, IsSeq, SavingsOK, SavingOK, RecurrencesKept, HasRecurring

-----------------------------------------------------------------------------
(* What a trigger makes of a task.                                         *)

LEMMA FunIsSeq ==
  ASSUME NEW n \in Nat, NEW f, DOMAIN f = 1 .. n, f = [i \in 1 .. n |-> f[i]]
  PROVE  IsSeq(f) /\ Len(f) = n
<1>1. \A i \in 1 .. n : f[i] \in Range(f)
  BY DEF Range
<1>2. f \in [1 .. n -> Range(f)]
  BY <1>1
<1> HIDE DEF Range
<1> QED
  BY <1>2 DEF IsSeq

LEMMA InOrderSeq ==
  ASSUME NEW n \in Nat, NEW S, S \subseteq 1 .. n, NEW s
  PROVE  IsSeq(InOrder(s, S)) /\ Len(InOrder(s, S)) = Cardinality(S)
<1>1. Cardinality(S) \in Nat
  BY InOrderHas
<1>2. /\ DOMAIN InOrder(s, S) = 1 .. Cardinality(S)
      /\ InOrder(s, S) = [k \in 1 .. Cardinality(S) |-> InOrder(s, S)[k]]
  BY DEF InOrder
<1> QED
  BY <1>1, <1>2, FunIsSeq

LEMMA ConcatAny ==
  ASSUME NEW m \in Nat, NEW n \in Nat,
         NEW a, DOMAIN a = 1 .. m, a = [i \in 1 .. m |-> a[i]],
         NEW b, DOMAIN b = 1 .. n, b = [i \in 1 .. n |-> b[i]]
  PROVE  /\ DOMAIN (a \o b) = 1 .. (m + n)
         /\ \A i \in 1 .. m : (a \o b)[i] = a[i]
<1>1. IsSeq(a) /\ Len(a) = m /\ IsSeq(b) /\ Len(b) = n
  BY FunIsSeq
<1> DEFINE S == Range(a) \cup Range(b)
<1>2. a \in Seq(S) /\ b \in Seq(S)
  BY <1>1, SeqMonotonic DEF IsSeq
<1> HIDE DEF S
<1>3. /\ a \o b \in Seq(S) /\ Len(a \o b) = m + n
      /\ \A i \in 1 .. (m + n) : (a \o b)[i] = IF i <= m THEN a[i] ELSE b[i - m]
  BY <1>1, <1>2, ConcatProperties
<1>4. DOMAIN (a \o b) = 1 .. (m + n)
  BY <1>3, LenProperties
<1> QED
  BY <1>3, <1>4

\* A task has each name to which the trigger maps a token of the row and, under
\* it, the value of such a token.
HoldsTokens(new, row, trigger) ==
  \A f \in Range(row.flags) \cap DOMAIN trigger.map :
    /\ trigger.map[f] \in Range(new.flags)
    /\ \E g \in Range(row.flags) \cap DOMAIN trigger.map :
         trigger.map[g] = trigger.map[f] /\ Token(new.env, trigger.map[f]) = Token(row.env, g)

LEMMA TriggeredHas ==
  ASSUME NEW row, row.flags \in Seq(STRING), NEW trigger \in Range(TriggerRows),
         NEW task, task = TriggeredTask(row, trigger)
  PROVE  /\ task.flags \in Seq(STRING) /\ task.time = FetchedTime(row) /\ task.recurring = 0
         /\ task.mask = trigger.trigger_mask /\ HoldsTokens(task, row, trigger)
<1> DEFINE P == { i \in DOMAIN row.flags : row.flags[i] \in DOMAIN trigger.map }
           Q == { i \in DOMAIN trigger.config : trigger.config[i].value # "" }
           tokens == InOrder(row.flags, P)
           settings == InOrder(trigger.config, Q)
           fa == [i \in DOMAIN tokens |-> trigger.map[tokens[i]]]
           fb == [i \in DOMAIN settings |-> settings[i].token_name]
           va == [i \in DOMAIN tokens |-> Token(row.env, tokens[i])]
           vb == [i \in DOMAIN settings |-> settings[i].value]
           flags == fa \o fb
           values == va \o vb
           First(f) == FirstOfPlaces({ i \in DOMAIN flags : flags[i] = f })
           env == [f \in Range(flags) |-> values[First(f)]]
<1>1. task = [ time |-> FetchedTime(row), mask |-> trigger.trigger_mask, flags |-> flags, env |-> env,
               recurring |-> 0, notify |-> FALSE, files |-> <<>> ]
  BY DEF TriggeredTask
<1>2. tokens = InOrder(row.flags, P) /\ settings = InOrder(trigger.config, Q)
  OBVIOUS
<1>3. fa = [i \in DOMAIN tokens |-> trigger.map[tokens[i]]]
  OBVIOUS
<1>4. fb = [i \in DOMAIN settings |-> settings[i].token_name]
  OBVIOUS
<1>5. va = [i \in DOMAIN tokens |-> Token(row.env, tokens[i])]
  OBVIOUS
<1>6. vb = [i \in DOMAIN settings |-> settings[i].value]
  OBVIOUS
<1>7. flags = fa \o fb /\ values = va \o vb
  OBVIOUS
<1>8. env = [f \in Range(flags) |-> values[First(f)]]
  OBVIOUS
<1> HIDE DEF tokens, settings, fa, fb, va, vb, flags, values, First, env
<1>9. /\ task.time = FetchedTime(row) /\ task.mask = trigger.trigger_mask /\ task.flags = flags
      /\ task.env = env /\ task.recurring = 0
  BY <1>1
<1>10. /\ Len(row.flags) \in Nat /\ DOMAIN row.flags = 1 .. Len(row.flags)
       /\ \A i \in DOMAIN row.flags : row.flags[i] \in STRING
  BY LenProperties, ElementOfSeq
<1>11. /\ trigger.config \in Seq([token_name : STRING, value : STRING])
       /\ \A f \in DOMAIN trigger.map : trigger.map[f] \in STRING
  BY TriggersAssumption
<1>12. /\ Len(trigger.config) \in Nat /\ DOMAIN trigger.config = 1 .. Len(trigger.config)
       /\ \A i \in DOMAIN trigger.config : trigger.config[i].token_name \in STRING
  <2>1. \A i \in DOMAIN trigger.config : trigger.config[i] \in [token_name : STRING, value : STRING]
    BY <1>11, LenProperties, ElementOfSeq
  <2> QED
    BY <1>11, <2>1, LenProperties
<1>13. PICK m \in Nat : /\ DOMAIN tokens = 1 .. m
                        /\ \A k \in 1 .. m : \E i \in P : tokens[k] = row.flags[i]
                        /\ \A i \in P : \E k \in 1 .. m : tokens[k] = row.flags[i]
  <2>1. P \subseteq 1 .. Len(row.flags)
    BY <1>10
  <2> HIDE DEF P
  <2>2. /\ Cardinality(P) \in Nat /\ DOMAIN tokens = 1 .. Cardinality(P)
        /\ \A k \in 1 .. Cardinality(P) : Place(P, k) \in P /\ tokens[k] = row.flags[Place(P, k)]
        /\ \A i \in P : \E k \in 1 .. Cardinality(P) : Place(P, k) = i
    BY <1>2, <1>10, <2>1, InOrderHas
  <2> QED
    BY <2>2
<1>14. PICK n \in Nat : /\ DOMAIN settings = 1 .. n
                        /\ \A k \in 1 .. n : \E i \in Q : settings[k] = trigger.config[i]
  <2>1. Q \subseteq 1 .. Len(trigger.config)
    BY <1>12
  <2> HIDE DEF Q
  <2>2. /\ Cardinality(Q) \in Nat /\ DOMAIN settings = 1 .. Cardinality(Q)
        /\ \A k \in 1 .. Cardinality(Q) : Place(Q, k) \in Q /\ settings[k] = trigger.config[Place(Q, k)]
    BY <1>2, <1>12, <2>1, InOrderHas
  <2> QED
    BY <2>2
<1>15. \A k \in 1 .. m : tokens[k] \in Range(row.flags) \cap DOMAIN trigger.map
  BY <1>13 DEF Range
<1>16. fa \in [1 .. m -> STRING] /\ fb \in [1 .. n -> STRING]
  <2>1. \A k \in 1 .. m : trigger.map[tokens[k]] \in STRING
    BY <1>11, <1>15
  <2>2. \A k \in 1 .. n : settings[k].token_name \in STRING
    BY <1>12, <1>14
  <2> QED
    BY <1>3, <1>4, <1>13, <1>14, <2>1, <2>2
<1>17. fa \in Seq(STRING) /\ fb \in Seq(STRING) /\ Len(fa) = m /\ Len(fb) = n
  BY <1>16
<1>18. flags \in Seq(STRING)
  BY <1>7, <1>17, ConcatProperties
<1>19. /\ DOMAIN fa = 1 .. m /\ fa = [i \in 1 .. m |-> fa[i]]
       /\ DOMAIN fb = 1 .. n /\ fb = [i \in 1 .. n |-> fb[i]]
       /\ DOMAIN va = 1 .. m /\ va = [i \in 1 .. m |-> va[i]]
       /\ DOMAIN vb = 1 .. n /\ vb = [i \in 1 .. n |-> vb[i]]
  BY <1>3, <1>4, <1>5, <1>6, <1>13, <1>14
<1>20. DOMAIN flags = 1 .. (m + n) /\ \A i \in 1 .. m : flags[i] = fa[i]
  BY <1>7, <1>19, ConcatAny
<1>21. \A i \in 1 .. m : values[i] = va[i]
  BY <1>7, <1>19, ConcatAny
<1>22. ASSUME NEW f \in Range(row.flags) \cap DOMAIN trigger.map
       PROVE  /\ trigger.map[f] \in Range(task.flags)
              /\ \E g \in Range(row.flags) \cap DOMAIN trigger.map :
                   /\ trigger.map[g] = trigger.map[f]
                   /\ Token(task.env, trigger.map[f]) = Token(row.env, g)
  <2>1. PICK i \in P : row.flags[i] = f
    BY DEF Range
  <2>2. PICK k \in 1 .. m : tokens[k] = f
    BY <1>13, <2>1
  <2> DEFINE new == trigger.map[f]
             S == { j \in DOMAIN flags : flags[j] = new }
  <2>3. k \in DOMAIN flags /\ flags[k] = new
    BY <1>3, <1>13, <1>20, <2>2
  <2>4. S \subseteq 1 .. (m + n) /\ k \in S
    BY <1>20, <2>3
  <2>5. PICK p : p = FirstOfPlaces(S)
    OBVIOUS
  <2>6. p \in S /\ p <= k
    <3>1. m + n \in Nat
      OBVIOUS
    <3> HIDE DEF S
    <3> QED
      BY <2>4, <2>5, <3>1, FirstPlace
  <2>7. p \in 1 .. m /\ flags[p] = new
    BY <2>4, <2>6
  <2>8. PICK g : g = tokens[p]
    OBVIOUS
  <2>9. trigger.map[g] = new /\ values[p] = Token(row.env, g)
    BY <1>3, <1>5, <1>13, <1>20, <1>21, <2>7, <2>8
  <2>10. new \in Range(flags)
    BY <2>3 DEF Range
  <2>11. task.flags = flags /\ new \in DOMAIN task.env /\ task.env[new] = values[p]
    <3>1. p = First(new)
      BY <2>5 DEF First
    <3> HIDE DEF new
    <3> QED
      BY <1>8, <1>9, <2>10, <3>1
  <2>12. Token(task.env, new) = Token(row.env, g)
    BY <2>9, <2>11 DEF Token
  <2>13. g \in Range(row.flags) \cap DOMAIN trigger.map
    BY <1>15, <2>7, <2>8
  <2> QED
    BY <2>9, <2>10, <2>11, <2>12, <2>13
<1>23. HoldsTokens(task, row, trigger)
  BY <1>22 DEF HoldsTokens
<1> QED
  BY <1>9, <1>18, <1>23

\* A trigger is found only as the last of those of the mask, so that it is the
\* only one that matches.
LEMMA TriggersFound ==
  ASSUME NEW row, NEW got, got = GetTriggers(row), got.ok
  PROVE  LET fits(u) == u.mask = row.mask /\ Matches(row, u) /\ u.trigger_mask \in Apps
         IN \/ got.found = <<>> /\ \A u \in Range(TriggerRows) : ~fits(u)
            \/ \E t \in Range(TriggerRows) :
                 got.found = <<t>> /\ \A u \in Range(TriggerRows) : fits(u) => u = t
<1> DEFINE Fits(u) == u.mask = row.mask /\ Matches(row, u) /\ u.trigger_mask \in Apps
           P == { i \in DOMAIN TriggerRows : TriggerRows[i].mask = row.mask }
<1>1. PICK rows : rows = InOrder(TriggerRows, P)
  OBVIOUS
<1> DEFINE S == { i \in DOMAIN rows : Matches(row, rows[i]) /\ rows[i].trigger_mask \in Apps }
<1>2. PICK hit : hit = FirstOfPlaces(S)
  OBVIOUS
<1>3. got = [ ok |-> hit \in {0, Len(rows)}, found |-> IF hit \in 1 .. Len(rows) THEN << rows[hit] >> ELSE <<>> ]
  BY <1>1, <1>2 DEF GetTriggers
<1>4. Len(TriggerRows) \in Nat /\ DOMAIN TriggerRows = 1 .. Len(TriggerRows)
  BY TriggerRowsAssumption, LenProperties
<1>5. PICK n \in Nat : /\ DOMAIN rows = 1 .. n /\ Len(rows) = n
                       /\ \A k \in 1 .. n : \E i \in P : rows[k] = TriggerRows[i]
                       /\ \A i \in P : \E k \in 1 .. n : rows[k] = TriggerRows[i]
  <2>1. P \subseteq 1 .. Len(TriggerRows)
    BY <1>4
  <2> HIDE DEF P
  <2>2. /\ Cardinality(P) \in Nat /\ DOMAIN rows = 1 .. Cardinality(P)
        /\ \A k \in 1 .. Cardinality(P) : Place(P, k) \in P /\ rows[k] = TriggerRows[Place(P, k)]
        /\ \A i \in P : \E k \in 1 .. Cardinality(P) : Place(P, k) = i
    BY <1>1, <1>4, <2>1, InOrderHas
  <2>3. Len(rows) = Cardinality(P)
    BY <1>1, <1>4, <2>1, InOrderSeq
  <2> QED
    BY <2>2, <2>3
<1>6. S \subseteq 1 .. n
  BY <1>5
<1>7. ASSUME NEW u \in Range(TriggerRows), Fits(u) PROVE \E k \in S : rows[k] = u
  <2>1. PICK i \in P : TriggerRows[i] = u
    BY <1>7 DEF Range
  <2>2. PICK k \in 1 .. n : rows[k] = u
    BY <1>5, <2>1
  <2> QED
    BY <1>5, <1>7, <2>2
<1>8. /\ hit = 0 <=> S = {}
      /\ S # {} => hit \in S /\ \A i \in S : hit <= i
  <2> HIDE DEF S
  <2> QED
    BY <1>2, <1>6, FirstPlace
<1>9. CASE S = {}
  <2>1. hit = 0 /\ got.found = <<>>
    BY <1>3, <1>5, <1>8, <1>9
  <2> QED
    BY <1>7, <1>9, <2>1
<1>10. CASE S # {}
  <2>1. hit \in 1 .. n /\ \A i \in S : hit <= i
    BY <1>6, <1>8, <1>10
  <2>2. hit = n
    <3> DEFINE c == hit \in {0, Len(rows)}
               found == IF hit \in 1 .. Len(rows) THEN << rows[hit] >> ELSE <<>>
    <3>1. got = [ok |-> c, found |-> found]
      BY <1>3
    <3> HIDE DEF found
    <3>2. ASSUME ~c PROVE FALSE
      <4>1. c = FALSE
        BY <3>2
      <4> HIDE DEF c
      <4>2. got = [ok |-> FALSE, found |-> found]
        BY <3>1, <4>1, Zenon
      <4>3. got.ok = FALSE
        BY <4>2
      <4> QED
        BY <4>3
    <3> QED
      BY <1>5, <2>1, <3>2
  <2>3. got.found = << rows[hit] >> /\ rows[hit] \in Range(TriggerRows)
    BY <1>3, <1>5, <2>1 DEF Range
  <2>4. ASSUME NEW u \in Range(TriggerRows), Fits(u) PROVE u = rows[hit]
    <3>1. PICK k \in S : rows[k] = u
      BY <1>7, <2>4
    <3>2. k = hit
      <4> HIDE DEF S
      <4> QED
        BY <1>6, <2>1, <2>2, <3>1
    <3> QED
      BY <3>1, <3>2
  <2> QED
    BY <2>3, <2>4
<1> QED
  BY <1>9, <1>10

LEMMA FetchedTimeType ==
  ASSUME TasksInv, NEW id \in DOMAIN scheduleRows, scheduleRows[id].recurring # 0 => HasRecurring(id)
  PROVE  FetchedTime(scheduleRows[id]) \in Int
<1>1. PICK row : row = scheduleRows[id]
  OBVIOUS
<1>2. row.time \in Int /\ row.id = id
  BY <1>1 DEF TasksInv, TaskTypes, TaskRowOK
<1>3. CASE row.recurring = 0
  BY <1>1, <1>2, <1>3 DEF FetchedTime
<1>4. CASE row.recurring # 0
  <2> DEFINE i == CHOOSE i \in DOMAIN recurringRows : recurringRows[i].sid = row.id
  <2>1. i \in DOMAIN recurringRows
    BY <1>1, <1>2, <1>4 DEF HasRecurring
  <2>2. PICK time : time = recurringRows[i].time
    OBVIOUS
  <2>3. time \in Int
    BY <2>1, <2>2 DEF TasksInv, TaskTypes
  <2>4. FetchedTime(row) = TimeAsToday(time)
    BY <1>4, <2>2 DEF FetchedTime
  <2> QED
    BY <1>1, <2>3, <2>4, SameHour
<1> QED
  BY <1>3, <1>4

-----------------------------------------------------------------------------
(* The rows that a query reads.                                            *)

\* The names that are recorded for a task are those of its own files.
LEMMA FilesOf ==
  ASSUME IsSeq(fileRows), NEW id
  PROVE  IsSeq(FileNames(id)) /\ (id # 0 => FileNames(id) = OwnFiles(id))
<1> DEFINE P == { i \in DOMAIN fileRows : id \in {0, fileRows[i].sid} /\ "" \in {"", fileRows[i].type} }
           Q == { i \in DOMAIN fileRows : fileRows[i].sid = id }
           rows == InOrder(fileRows, P)
           list == [i \in DOMAIN rows |-> [name |-> rows[i].name, type |-> rows[i].type, task_id |-> id]]
           names == [i \in DOMAIN list |-> list[i].name]
<1>1. FileNames(id) = names
  BY DEF FileNames, GetFiles
<1>2. Len(fileRows) \in Nat /\ DOMAIN fileRows = 1 .. Len(fileRows)
  BY SeqDomain
<1>3. P \subseteq 1 .. Len(fileRows)
  BY <1>2
<1>4. id # 0 => P = Q
  OBVIOUS
<1>5. names = [i \in DOMAIN rows |-> rows[i].name]
  <2> HIDE DEF rows
  <2> QED
    OBVIOUS
<1>6. Cardinality(P) \in Nat /\ DOMAIN rows = 1 .. Cardinality(P)
  <2> HIDE DEF P
  <2> QED
    BY <1>2, <1>3, InOrderHas
<1>7. IsSeq(names)
  <2> HIDE DEF P, rows, names
  <2>1. DOMAIN names = 1 .. Cardinality(P) /\ names = [i \in 1 .. Cardinality(P) |-> names[i]]
    BY <1>5, <1>6
  <2> QED
    BY <1>6, <2>1, FunIsSeq
<1>8. ASSUME id # 0 PROVE names = OwnFiles(id)
  <2>1. rows = InOrder(fileRows, Q)
    <3> HIDE DEF P, Q
    <3> QED
      BY <1>4, <1>8
  <2>2. OwnFiles(id) = [i \in DOMAIN InOrder(fileRows, Q) |-> InOrder(fileRows, Q)[i].name]
    BY DEF OwnFiles
  <2> HIDE DEF rows, Q, names
  <2> QED
    BY <1>5, <2>1, <2>2
<1> HIDE DEF names
<1> QED
  BY <1>1, <1>7, <1>8

LEMMA FiniteRange ==
  ASSUME NEW s, IsSeq(s)
  PROVE  IsFiniteSet(Range(s))
<1>1. Len(s) \in Nat /\ DOMAIN s = 1 .. Len(s) /\ s \in [1 .. Len(s) -> Range(s)]
  BY SeqDomain DEF IsSeq
<1>2. s \in Surjection(1 .. Len(s), Range(s))
  BY <1>1 DEF Surjection, Range
<1>3. IsFiniteSet(1 .. Len(s))
  BY <1>1, FS_Interval
<1> QED
  BY <1>2, <1>3, FS_Surjection

\* Joined to its files, every row is returned, and no other.
LEMMA Joined ==
  ASSUME IsSeq(fileRows), NEW R, IsFiniteSet(R)
  PROVE  /\ IsFiniteSet(JoinFiles(R))
         /\ \A x \in JoinFiles(R) : x[1] \in R
         /\ \A r \in R : <<r, 1>> \in JoinFiles(R)
<1> DEFINE N(r) == IF FileNames(r.id) = <<>> THEN 1 ELSE Len(FileNames(r.id))
           J(r) == {r} \X (1 .. N(r))
           JS == { J(r) : r \in R }
<1>1. JoinFiles(R) = UNION JS
  BY DEF JoinFiles
<1>2. ASSUME NEW r \in R PROVE N(r) \in Nat /\ N(r) >= 1
  <2>1. PICK names : names = FileNames(r.id)
    OBVIOUS
  <2>2. names \in Seq(Range(names))
    BY <2>1, FilesOf DEF IsSeq
  <2>3. names # <<>> => Len(names) \in Nat \ {0}
    <3> DEFINE S == Range(names)
    <3> HIDE DEF S
    <3> QED
      BY <2>2, EmptySeq DEF S
  <2>4. N(r) = IF names = <<>> THEN 1 ELSE Len(names)
    BY <2>1
  <2> HIDE DEF N
  <2> QED
    BY <2>3, <2>4
<1> HIDE DEF N
<1>3. ASSUME NEW r \in R PROVE IsFiniteSet(J(r)) /\ <<r, 1>> \in J(r)
  <2>1. IsFiniteSet({r}) /\ IsFiniteSet(1 .. N(r))
    <3>1. PICK n \in Nat : n = N(r)
      BY <1>2
    <3>2. IsFiniteSet(1 .. n)
      BY FS_Interval
    <3> QED
      BY <3>1, <3>2, FS_Singleton
  <2>2. IsFiniteSet({r} \X (1 .. N(r)))
    BY <2>1, FS_Product
  <2> QED
    BY <1>2, <2>2
<1>4. ASSUME NEW r \in R, NEW x \in J(r) PROVE x[1] = r
  OBVIOUS
<1> HIDE DEF J
<1>5. IsFiniteSet(JS)
  <2> DEFINE f == [r \in R |-> J(r)]
  <2>1. f \in Surjection(R, JS)
    BY DEF Surjection
  <2> HIDE DEF f, JS
  <2> QED
    BY <2>1, FS_Surjection
<1>6. IsFiniteSet(UNION JS)
  <2>1. \A T \in JS : IsFiniteSet(T)
    BY <1>3
  <2> HIDE DEF JS
  <2> QED
    BY <1>5, <2>1, FS_UNION
<1>7. \A x \in UNION JS : x[1] \in R
  BY <1>4
<1>8. \A r \in R : <<r, 1>> \in UNION JS
  BY <1>3
<1> QED
  BY <1>1, <1>6, <1>7, <1>8

LEMMA AnyOrder ==
  ASSUME IsSeq(fileRows), NEW R, IsFiniteSet(R), NEW rows \in InAnyOrder(JoinFiles(R))
  PROVE  IsSeq(rows) /\ Range(rows) = R
<1>1. PICK joined : joined = JoinFiles(R)
  OBVIOUS
<1>2. /\ IsFiniteSet(joined) /\ \A x \in joined : x[1] \in R
      /\ \A r \in R : <<r, 1>> \in joined
  BY <1>1, Joined
<1>3. PICK n \in Nat : n = Cardinality(joined)
  BY <1>2, FS_CardinalityType
<1>4. PICK order \in [1 .. n -> joined] : Range(order) = joined /\ rows = [i \in DOMAIN order |-> order[i][1]]
  BY <1>1, <1>3 DEF InAnyOrder
<1>5. DOMAIN rows = 1 .. n /\ rows = [i \in 1 .. n |-> rows[i]] /\ \A i \in 1 .. n : rows[i] = order[i][1]
  BY <1>4
<1>6. ASSUME NEW r \in R PROVE r \in Range(rows)
  <2>1. <<r, 1>> \in Range(order)
    BY <1>2, <1>4
  <2>2. PICK i \in 1 .. n : order[i] = <<r, 1>>
    BY <1>4, <2>1 DEF Range
  <2>3. rows[i] = r
    BY <1>5, <2>2
  <2> QED
    BY <1>5, <2>3 DEF Range
<1>7. ASSUME NEW r \in Range(rows) PROVE r \in R
  <2>1. PICK i \in 1 .. n : r = rows[i]
    BY <1>5 DEF Range
  <2>2. order[i] \in joined
    BY <1>4
  <2> QED
    BY <1>2, <1>5, <2>1, <2>2
<1> QED
  BY <1>5, <1>6, <1>7, FunIsSeq

LEMMA ReadTimeHour ==
  ASSUME NEW row, row.time \in Int
  PROVE  ReadTime(row) % Day = row.time % Day
BY SameHour DEF ReadTime

LEMMA ParsedStored ==
  ASSUME NEW row, row.time \in Int, NEW names, NEW task, task = Parsed(row, ReadTime(row), names)
  PROVE  task.id = row.id /\ AsStored(task, row) /\ task.filenames = names
<1>1. PICK time : time = ReadTime(row)
  OBVIOUS
<1>2. time % Day = row.time % Day
  BY <1>1, ReadTimeHour
<1>3. task = [id |-> row.id, mask |-> row.mask, time |-> time, flags |-> row.flags, env |-> row.env,
        completed |-> row.completed, recurring |-> row.recurring, notify |-> row.notify,
        runtime |-> Token(row.env, "R_ARGS"), name |-> MaskNames[row.mask], filenames |-> names]
  BY <1>1 DEF Parsed
<1>4. /\ task.id = row.id /\ task.filenames = names /\ task.mask = row.mask /\ task.flags = row.flags
      /\ task.env = row.env /\ task.completed = row.completed /\ task.recurring = row.recurring
      /\ task.notify = row.notify /\ task.time = time
  BY <1>3
<1> QED
  BY <1>2, <1>4 DEF AsStored

LEMMA Replied ==
  ASSUME NEW op, NEW of, NEW value
  PROVE  /\ Reply(op, of, TRUE, value) =>
              reply'.op = op /\ reply'.of = of /\ reply'.ok = TRUE /\ reply'.value = value
         /\ Reply(op, of, FALSE, value) => reply'.op = op /\ reply'.of = of /\ reply'.ok = FALSE
BY DEF Reply

-----------------------------------------------------------------------------
(* Each query, by the step that answers it.                                *)

RepliesOK == TaskReadBack /\ AllReadBack /\ FilesReadBack /\ TriggersFollowed

LEMMA OtherReply ==
  ASSUME reply'.op \notin {"task", "all", "files", "triggers"}
  PROVE  RepliesOK'
BY DEF RepliesOK, TaskReadBack, AllReadBack, FilesReadBack, TriggersFollowed

LEMMA NoReplyOther == reply' = NoReply => RepliesOK'
BY OtherReply DEF NoReply

\* What parseTask makes of rows that are all of one task, one or more.
LEMMA ParsedOne ==
  ASSUME IsSeq(fileRows), NEW row, row.time \in Int, row.id # 0,
         NEW rows, IsSeq(rows), Range(rows) = {row},
         NEW task, task = ParseTask(rows)
  PROVE  task.id = row.id /\ AsStored(task, row) /\ task.filenames = OwnFiles(row.id)
<1>1. Len(rows) \in Nat /\ DOMAIN rows = 1 .. Len(rows)
  BY SeqDomain
<1>2. \A i \in DOMAIN rows : rows[i] = row
  BY DEF Range
<1>3. rows # <<>> /\ Len(rows) \in DOMAIN rows
  <2>1. DOMAIN rows # {}
    BY DEF Range
  <2> QED
    BY <1>1, <2>1
<1>4. Last(rows) = row
  BY <1>2, <1>3 DEF Last
<1> DEFINE S == { i \in DOMAIN rows : FileNames(rows[i].id) # <<>> }
           names == IF FirstOfPlaces(S) = 0 THEN <<>> ELSE FileNames(rows[FirstOfPlaces(S)].id)
<1>5. task = Parsed(row, ReadTime(row), names)
  <2>1. task = Parsed(Last(rows), ReadTime(Last(rows)), names)
    BY <1>3 DEF ParseTask
  <2> HIDE DEF names
  <2> QED
    BY <1>4, <2>1
<1>6. PICK own : own = FileNames(row.id)
  OBVIOUS
<1>7. /\ FirstOfPlaces(S) = 0 <=> S = {}
      /\ S # {} => FirstOfPlaces(S) \in S
  <2>1. S \subseteq 1 .. Len(rows)
    BY <1>1
  <2> HIDE DEF S
  <2> QED
    BY <1>1, <2>1, FirstPlace
<1>8. names = own
  <2>1. CASE own = <<>>
    <3>1. S = {}
      BY <1>2, <1>6, <2>1
    <3> HIDE DEF S
    <3> QED
      BY <1>7, <2>1, <3>1
  <2>2. CASE own # <<>>
    <3>1. S = DOMAIN rows /\ S # {}
      BY <1>2, <1>3, <1>6, <2>2
    <3> HIDE DEF S
    <3>2. PICK i : i = FirstOfPlaces(S)
      OBVIOUS
    <3>3. i \in DOMAIN rows /\ i # 0
      BY <1>7, <3>1, <3>2
    <3> QED
      BY <1>2, <1>6, <3>2, <3>3
  <2> QED
    BY <2>1, <2>2
<1>9. own = OwnFiles(row.id)
  BY <1>6, FilesOf
<1> HIDE DEF names
<1> QED
  BY <1>5, <1>8, <1>9, ParsedStored

LEMMA OwnFilesSame ==
  ASSUME NEW id, fileRows' = fileRows, reply'.of = id
  PROVE  OwnFiles(reply.of)' = OwnFiles(id)
<1> DEFINE P == { i \in DOMAIN fileRows : fileRows[i].sid = reply.of }'
           Q == { i \in DOMAIN fileRows : fileRows[i].sid = id }
           rows == InOrder(fileRows', P)
           own  == InOrder(fileRows, Q)
<1>1. P = Q
  OBVIOUS
<1>2. rows = own
  <2> HIDE DEF P, Q
  <2> QED
    BY <1>1
<1>3. OwnFiles(reply.of)' = [i \in DOMAIN rows |-> rows[i].name]
  BY DEF OwnFiles
<1>4. OwnFiles(id) = [i \in DOMAIN own |-> own[i].name]
  BY DEF OwnFiles
<1> HIDE DEF rows, own
<1> QED
  BY <1>2, <1>3, <1>4

LEMMA GetTaskReads ==
  ASSUME TasksInv, NEW id \in 0 .. Len(scheduleRows), GetTask(id)
  PROVE  RepliesOK'
<1>1. /\ IsSeq(scheduleRows) /\ IsSeq(fileRows)
      /\ \A i \in DOMAIN scheduleRows : TaskRowOK(scheduleRows[i]) /\ scheduleRows[i].id = i
  BY DEF TasksInv, TaskTypes
<1>2. Len(scheduleRows) \in Nat /\ DOMAIN scheduleRows = 1 .. Len(scheduleRows)
  BY <1>1, SeqDomain
<1>3. PICK R : R = { r \in Range(scheduleRows) : id \in {0, r.id} }
  OBVIOUS
<1>4. PICK rows \in InAnyOrder(JoinFiles(R)) :
        /\ Reply("task", id, Named(rows), IF Named(rows) THEN ParseTask(rows) ELSE NoTask)
        /\ scheduleRows' = scheduleRows /\ fileRows' = fileRows
  BY <1>3 DEF GetTask, rowVars
<1>5. ASSUME Named(rows)
      PROVE  reply'.op = "task" /\ reply'.of = id /\ reply'.ok = TRUE /\ reply'.value = ParseTask(rows)
  <2>1. Named(rows) = TRUE
    BY <1>5
  <2>2. (IF Named(rows) THEN ParseTask(rows) ELSE NoTask) = ParseTask(rows)
    BY <1>5
  <2>3. Reply("task", id, TRUE, ParseTask(rows))
    BY <1>4, <2>1, <2>2, Zenon
  <2> QED
    BY <2>3, Replied
<1>6. ASSUME ~Named(rows)
      PROVE  reply'.op = "task" /\ reply'.of = id /\ reply'.ok = FALSE
  <2>1. Named(rows) = FALSE
    BY <1>6
  <2>2. (IF Named(rows) THEN ParseTask(rows) ELSE NoTask) = NoTask
    BY <1>6
  <2>3. Reply("task", id, FALSE, NoTask)
    BY <1>4, <2>1, <2>2, Zenon
  <2> QED
    BY <2>3, Replied
<1>7. reply'.op = "task" /\ reply'.of = id
  BY <1>5, <1>6
<1>8. AllReadBack' /\ FilesReadBack' /\ TriggersFollowed'
  BY <1>7 DEF AllReadBack, FilesReadBack, TriggersFollowed
<1>9. CASE id = 0
  BY <1>7, <1>8, <1>9 DEF RepliesOK, TaskReadBack
<1>10. CASE id # 0
  <2>1. PICK row : row = scheduleRows[id]
    OBVIOUS
  <2>2. id \in DOMAIN scheduleRows /\ row.id = id /\ TaskRowOK(row)
    BY <1>1, <1>2, <1>10, <2>1
  <2>3. R = {row}
    <3>1. row \in R
      BY <1>3, <2>1, <2>2 DEF Range
    <3>2. ASSUME NEW r \in R PROVE r = row
      <4>1. PICK i \in DOMAIN scheduleRows : r = scheduleRows[i]
        BY <1>3 DEF Range
      <4>2. r.id = id /\ r.id = i
        BY <1>1, <1>3, <1>10, <4>1
      <4> QED
        BY <2>1, <4>1, <4>2
    <3> QED
      BY <3>1, <3>2
  <2>4. IsSeq(rows) /\ Range(rows) = {row}
    <3>1. IsFiniteSet(R)
      BY <2>3, FS_Singleton
    <3> QED
      BY <1>1, <2>3, <3>1, AnyOrder
  <2>5. Named(rows) <=> row.mask \in DOMAIN MaskNames
    <3>1. /\ \A i \in DOMAIN rows : rows[i] = row
          /\ \E i \in DOMAIN rows : rows[i] = row
      BY <2>4 DEF Range
    <3> QED
      BY <3>1 DEF Named
  <2>6. CASE ~Named(rows)
    BY <1>4, <1>6, <1>8, <2>1, <2>5, <2>6 DEF RepliesOK, TaskReadBack
  <2>7. CASE Named(rows)
    <3>1. PICK task : task = ParseTask(rows)
      OBVIOUS
    <3>2. row.time \in Int /\ row.id # 0
      BY <1>10, <2>2 DEF TaskRowOK
    <3>3. task.id = id /\ AsStored(task, row) /\ task.filenames = OwnFiles(id)
      BY <1>1, <2>2, <2>4, <3>1, <3>2, ParsedOne
    <3>4. reply'.of = id /\ reply'.ok = TRUE /\ reply'.value = task /\ scheduleRows'[id] = row
      BY <1>4, <1>5, <2>1, <2>7, <3>1
    <3>5. OwnFiles(reply.of)' = OwnFiles(id)
      BY <1>4, <1>7, OwnFilesSame
    <3>6. TaskReadBack'
      BY <2>5, <2>7, <3>3, <3>4, <3>5 DEF TaskReadBack
    <3> QED
      BY <1>8, <3>6 DEF RepliesOK
  <2> QED
    BY <2>6, <2>7
<1> QED
  BY <1>9, <1>10

LEMMA FetchAllReads ==
  ASSUME TasksInv, FetchAllTasks
  PROVE  RepliesOK'
<1>1. /\ IsSeq(scheduleRows) /\ IsSeq(fileRows)
      /\ \A i \in DOMAIN scheduleRows : TaskRowOK(scheduleRows[i]) /\ scheduleRows[i].id = i
  BY DEF TasksInv, TaskTypes
<1>2. Len(scheduleRows) \in Nat /\ DOMAIN scheduleRows = 1 .. Len(scheduleRows)
  BY <1>1, SeqDomain
<1>3. PICK rows \in InAnyOrder(JoinFiles(Range(scheduleRows))) :
        /\ Reply("all", 0, Named(rows), IF Named(rows) THEN ParseTasks(rows) ELSE <<>>)
        /\ scheduleRows' = scheduleRows /\ fileRows' = fileRows
  BY DEF FetchAllTasks, rowVars
<1>4. Range(rows) = Range(scheduleRows)
  <2>1. PICK R : R = Range(scheduleRows)
    OBVIOUS
  <2>2. IsFiniteSet(R) /\ rows \in InAnyOrder(JoinFiles(R))
    BY <1>1, <1>3, <2>1, FiniteRange
  <2> QED
    BY <1>1, <2>1, <2>2, AnyOrder
<1>5. /\ \A i \in DOMAIN rows : \E j \in DOMAIN scheduleRows : rows[i] = scheduleRows[j]
      /\ \A j \in DOMAIN scheduleRows : \E i \in DOMAIN rows : rows[i] = scheduleRows[j]
  <2>1. \A i \in DOMAIN rows : rows[i] \in Range(rows)
    BY DEF Range
  <2>2. \A j \in DOMAIN scheduleRows : scheduleRows[j] \in Range(scheduleRows)
    BY DEF Range
  <2>3. \A r \in Range(rows) : \E i \in DOMAIN rows : rows[i] = r
    BY DEF Range
  <2>4. \A r \in Range(scheduleRows) : \E j \in DOMAIN scheduleRows : scheduleRows[j] = r
    BY DEF Range
  <2> QED
    BY <1>4, <2>1, <2>2, <2>3, <2>4
<1>6. Named(rows) <=> Named(scheduleRows)
  BY <1>5 DEF Named
<1>7. ASSUME Named(rows)
      PROVE  reply'.op = "all" /\ reply'.ok = TRUE /\ reply'.value = ParseTasks(rows)
  <2>1. Named(rows) = TRUE
    BY <1>7
  <2>2. (IF Named(rows) THEN ParseTasks(rows) ELSE <<>>) = ParseTasks(rows)
    BY <1>7
  <2>3. Reply("all", 0, TRUE, ParseTasks(rows))
    BY <1>3, <2>1, <2>2, Zenon
  <2> QED
    BY <2>3, Replied
<1>8. ASSUME ~Named(rows)
      PROVE  reply'.op = "all" /\ reply'.ok = FALSE
  <2>1. Named(rows) = FALSE
    BY <1>8
  <2>2. (IF Named(rows) THEN ParseTasks(rows) ELSE <<>>) = <<>>
    BY <1>8
  <2>3. Reply("all", 0, FALSE, <<>>)
    BY <1>3, <2>1, <2>2, Zenon
  <2> QED
    BY <2>3, Replied
<1>9. reply'.op = "all"
  BY <1>7, <1>8
<1>10. TaskReadBack' /\ FilesReadBack' /\ TriggersFollowed'
  BY <1>9 DEF TaskReadBack, FilesReadBack, TriggersFollowed
<1>11. Named(scheduleRows)' <=> Named(scheduleRows)
  BY <1>3 DEF Named
<1>12. CASE ~Named(rows)
  BY <1>6, <1>8, <1>10, <1>11, <1>12 DEF RepliesOK, AllReadBack
<1>13. CASE Named(rows)
  <2>1. PICK tasks : tasks = ParseTasks(rows)
    OBVIOUS
  <2>2. /\ DOMAIN tasks = DOMAIN rows
        /\ \A i \in DOMAIN rows :
             tasks[i] = Parsed(rows[i], ReadTime(rows[i]), FlattenSeq(FileNames(rows[i].id)))
    BY <2>1 DEF ParseTasks
  <2>3. ASSUME NEW i \in DOMAIN rows, NEW j \in DOMAIN scheduleRows, rows[i] = scheduleRows[j]
        PROVE  /\ tasks[i].id = j /\ AsStored(tasks[i], scheduleRows[j])
               /\ tasks[i].filenames = FlattenSeq(OwnFiles(j))
    <3>1. PICK row : row = scheduleRows[j]
      OBVIOUS
    <3>2. row.id = j /\ row.time \in Int /\ j # 0
      BY <1>1, <1>2, <3>1 DEF TaskRowOK
    <3>3. FileNames(j) = OwnFiles(j)
      BY <1>1, <3>2, FilesOf
    <3>4. PICK names : names = FlattenSeq(OwnFiles(j))
      OBVIOUS
    <3>5. tasks[i] = Parsed(row, ReadTime(row), names)
      BY <2>2, <2>3, <3>1, <3>2, <3>3, <3>4
    <3>6. PICK task : task = tasks[i]
      OBVIOUS
    <3>7. task.id = row.id /\ AsStored(task, row) /\ task.filenames = names
      BY <3>2, <3>5, <3>6, ParsedStored
    <3> QED
      BY <3>1, <3>2, <3>4, <3>6, <3>7
  <2>4. \A i \in DOMAIN tasks : tasks[i].id \in DOMAIN scheduleRows
    BY <1>5, <2>2, <2>3
  <2>5. \A j \in DOMAIN scheduleRows : \E i \in DOMAIN tasks : tasks[i].id = j
    BY <1>5, <2>2, <2>3
  <2>6. { t.id : t \in Range(tasks) } = DOMAIN scheduleRows
    <3>1. \A t \in Range(tasks) : t.id \in DOMAIN scheduleRows
      BY <2>4 DEF Range
    <3>2. \A j \in DOMAIN scheduleRows : \E t \in Range(tasks) : t.id = j
      BY <2>5 DEF Range
    <3> QED
      BY <3>1, <3>2
  <2>7. ASSUME NEW t \in Range(tasks)
        PROVE  AsStored(t, scheduleRows[t.id]) /\ t.filenames = FlattenSeq(OwnFiles(t.id))
    <3>1. PICK i \in DOMAIN rows : t = tasks[i]
      BY <2>2 DEF Range
    <3>2. PICK j \in DOMAIN scheduleRows : rows[i] = scheduleRows[j]
      BY <1>5
    <3> QED
      BY <2>3, <3>1, <3>2
  <2>8. \A j : OwnFiles(j)' = OwnFiles(j)
    BY <1>3 DEF OwnFiles
  <2>9. reply'.ok = TRUE /\ reply'.value = tasks
    BY <1>7, <1>13, <2>1
  <2>10. (\A t \in Range(reply.value) :
            AsStored(t, scheduleRows[t.id]) /\ t.filenames = FlattenSeq(OwnFiles(t.id)))'
    <3> SUFFICES ASSUME NEW t \in Range(tasks)
                 PROVE  (AsStored(t, scheduleRows[t.id]) /\ t.filenames = FlattenSeq(OwnFiles(t.id)))'
      BY <2>9
    <3>1. PICK j : j = t.id
      OBVIOUS
    <3>2. OwnFiles(j)' = OwnFiles(j)
      BY <2>8
    <3>3. AsStored(t, scheduleRows[j]) /\ t.filenames = FlattenSeq(OwnFiles(j))
      BY <2>7, <3>1
    <3> QED
      BY <1>3, <3>1, <3>2, <3>3
  <2>11. { t.id : t \in Range(reply'.value) } = DOMAIN scheduleRows'
    BY <1>3, <2>6, <2>9
  <2>12. AllReadBack'
    BY <1>6, <1>11, <1>13, <2>9, <2>10, <2>11 DEF AllReadBack
  <2> QED
    BY <1>10, <2>12 DEF RepliesOK
<1> QED
  BY <1>12, <1>13

OfType(type, row) == type \in {"", row.type}

\* The list for one id, by the rows it is made from.
LEMMA FilesListed ==
  ASSUME IsSeq(fileRows), NEW sid, sid # 0, NEW type
  PROVE  /\ \A f \in Range(GetFiles(sid, type)) :
              f.task_id = sid /\ \E r \in Range(fileRows) : /\ r.sid = sid /\ OfType(type, r)
                                                            /\ f.name = r.name
         /\ \A r \in Range(fileRows) : r.sid = sid /\ OfType(type, r) =>
              \E f \in Range(GetFiles(sid, type)) : f.task_id = sid /\ f.name = r.name
<1> DEFINE P == { i \in DOMAIN fileRows : sid \in {0, fileRows[i].sid} /\ type \in {"", fileRows[i].type} }
           rows == InOrder(fileRows, P)
           list == [i \in DOMAIN rows |-> [name |-> rows[i].name, type |-> rows[i].type, task_id |-> sid]]
<1>1. GetFiles(sid, type) = list
  BY DEF GetFiles
<1>2. Len(fileRows) \in Nat /\ DOMAIN fileRows = 1 .. Len(fileRows)
  BY SeqDomain
<1>3. P \subseteq 1 .. Len(fileRows)
  BY <1>2
<1>4. Range(rows) = { fileRows[i] : i \in P }
  <2> HIDE DEF P
  <2> QED
    BY <1>2, <1>3, InOrderRange
<1>5. ASSUME NEW r \in Range(rows) PROVE r \in Range(fileRows) /\ r.sid = sid /\ OfType(type, r)
  <2>1. PICK i \in P : r = fileRows[i]
    <3> HIDE DEF P, rows
    <3> QED
      BY <1>4
  <2> QED
    BY <2>1 DEF Range, OfType
<1>6. ASSUME NEW r \in Range(fileRows), r.sid = sid, OfType(type, r) PROVE r \in Range(rows)
  <2>1. PICK i \in DOMAIN fileRows : r = fileRows[i]
    BY DEF Range
  <2>2. i \in P
    BY <1>6, <2>1 DEF OfType
  <2> HIDE DEF P, rows
  <2> QED
    BY <1>4, <2>1, <2>2
<1> HIDE DEF rows
<1>7. ASSUME NEW f \in Range(list)
      PROVE  f.task_id = sid /\ \E r \in Range(fileRows) : /\ r.sid = sid /\ OfType(type, r)
                                                           /\ f.name = r.name
  <2>1. PICK i \in DOMAIN rows : f = [name |-> rows[i].name, type |-> rows[i].type, task_id |-> sid]
    BY DEF Range
  <2>2. PICK r : r = rows[i]
    OBVIOUS
  <2>3. r \in Range(rows)
    BY <2>2 DEF Range
  <2>4. f.task_id = sid /\ f.name = r.name
    BY <2>1, <2>2
  <2> QED
    BY <1>5, <2>3, <2>4
<1>8. ASSUME NEW r \in Range(fileRows), r.sid = sid, OfType(type, r)
      PROVE  \E f \in Range(list) : f.task_id = sid /\ f.name = r.name
  <2>1. r \in Range(rows)
    BY <1>6, <1>8
  <2>2. PICK i \in DOMAIN rows : rows[i] = r
    BY <2>1 DEF Range
  <2>3. list[i] \in Range(list) /\ list[i].task_id = sid /\ list[i].name = r.name
    BY <2>2 DEF Range
  <2> QED
    BY <2>3
<1> HIDE DEF list
<1> QED
  BY <1>1, <1>7, <1>8

LEMMA GetFilesReads ==
  ASSUME TasksInv, NEW sids, NEW type, GetFilesOf(sids, type)
  PROVE  RepliesOK'
<1>1. IsSeq(fileRows)
  BY DEF TasksInv, TaskTypes
<1>2. PICK of : of = [sids |-> sids, type |-> type]
  OBVIOUS
<1>3. PICK lists : lists = [i \in DOMAIN sids |-> GetFiles(sids[i], type)]
  OBVIOUS
<1>4. Reply("files", of, TRUE, lists) /\ fileRows' = fileRows
  BY <1>2, <1>3 DEF GetFilesOf, rowVars
<1>5. reply'.op = "files" /\ reply'.of = of /\ reply'.value = lists
  BY <1>4, Replied
<1>6. of.sids = sids /\ of.type = type
  BY <1>2
<1>7. TaskReadBack' /\ AllReadBack' /\ TriggersFollowed'
  BY <1>5 DEF TaskReadBack, AllReadBack, TriggersFollowed
<1>8. ASSUME 0 \notin Range(sids)
      PROVE  { << f.task_id, f.name >> : f \in UNION { Range(list) : list \in Range(lists) } }
              = { << f.sid, f.name >> : f \in { f \in Range(fileRows) : /\ f.sid \in Range(sids)
                                                                      /\ type \in {"", f.type} } }
  <2> DEFINE A == UNION { Range(list) : list \in Range(lists) }
             B == { f \in Range(fileRows) : f.sid \in Range(sids) /\ OfType(type, f) }
  <2>1. ASSUME NEW f \in A PROVE \E r \in B : r.sid = f.task_id /\ r.name = f.name
    <3>1. PICK list \in Range(lists) : f \in Range(list)
      OBVIOUS
    <3>2. PICK i \in DOMAIN sids : list = GetFiles(sids[i], type)
      BY <1>3, <3>1 DEF Range
    <3>3. PICK sid : sid = sids[i]
      OBVIOUS
    <3>4. sid \in Range(sids) /\ sid # 0
      BY <1>8, <3>3 DEF Range
    <3>5. f.task_id = sid /\ \E r \in Range(fileRows) : /\ r.sid = sid /\ OfType(type, r)
                                                       /\ f.name = r.name
      <4>1. \A g \in Range(GetFiles(sid, type)) :
              g.task_id = sid /\ \E r \in Range(fileRows) : /\ r.sid = sid /\ OfType(type, r)
                                                            /\ g.name = r.name
        BY <1>1, <3>4, FilesListed
      <4> QED
        BY <3>1, <3>2, <3>3, <4>1
    <3> QED
      BY <3>4, <3>5
  <2>2. ASSUME NEW r \in B PROVE \E f \in A : r.sid = f.task_id /\ r.name = f.name
    <3>1. PICK sid : sid = r.sid
      OBVIOUS
    <3>2. r \in Range(fileRows) /\ sid \in Range(sids) /\ OfType(type, r) /\ sid # 0
      BY <1>8, <3>1
    <3>3. PICK i \in DOMAIN sids : sids[i] = sid
      BY <3>2 DEF Range
    <3>4. PICK f \in Range(GetFiles(sid, type)) : f.task_id = sid /\ f.name = r.name
      <4>1. \A q \in Range(fileRows) : q.sid = sid /\ OfType(type, q) =>
              \E f \in Range(GetFiles(sid, type)) : f.task_id = sid /\ f.name = q.name
        BY <1>1, <3>2, FilesListed
      <4> QED
        BY <3>1, <3>2, <4>1
    <3>5. lists[i] = GetFiles(sid, type) /\ lists[i] \in Range(lists)
      BY <1>3, <3>3 DEF Range
    <3>6. f \in A
      BY <3>4, <3>5
    <3> QED
      BY <3>1, <3>4, <3>6
  <2> HIDE DEF A, B
  <2>3. { << f.task_id, f.name >> : f \in A } = { << f.sid, f.name >> : f \in B }
    BY <2>1, <2>2
  <2> QED
    BY <2>3 DEF A, B, OfType
<1>9. FilesReadBack'
  <2> SUFFICES ASSUME 0 \notin Range(sids)
               PROVE  FilesReadBack'
    BY <1>5, <1>6 DEF FilesReadBack
  <2>1. PICK A : A = { << f.task_id, f.name >> : f \in UNION { Range(list) : list \in Range(lists) } }
    OBVIOUS
  <2>2. { << f.task_id, f.name >> : f \in UNION { Range(list) : list \in Range(reply'.value) } } = A
    BY <1>5, <2>1
  <2>3. A = { << f.sid, f.name >> : f \in { f \in Range(fileRows') : /\ f.sid \in Range(reply'.of.sids)
                                                                  /\ reply'.of.type \in {"", f.type} } }
    BY <1>4, <1>5, <1>6, <1>8, <2>1
  <2> QED
    BY <2>2, <2>3 DEF FilesReadBack
<1> QED
  BY <1>7, <1>9 DEF RepliesOK

LEMMA RowAppended ==
  ASSUME TasksInv, NEW w, NEW task, ScheduleRow(w, task)
  PROVE  /\ \A i \in DOMAIN scheduleRows : i \in DOMAIN scheduleRows' /\ scheduleRows'[i] = scheduleRows[i]
         /\ \E new \in Range(scheduleRows') :
              new.mask = task.mask /\ new.flags = task.flags /\ new.env = task.env
<1>1. PICK row : row = [id |-> Len(scheduleRows) + 1, time |-> task.time, mask |-> task.mask,
              flags |-> task.flags, env |-> task.env, recurring |-> task.recurring,
              notify |-> task.notify, completed |-> 0]
  OBVIOUS
<1>2. scheduleRows' = Append(scheduleRows, row)
  BY <1>1 DEF ScheduleRow
<1>3. IsSeq(scheduleRows)
  BY DEF TasksInv, TaskTypes
<1>4. PICK n \in Nat : n = Len(scheduleRows) /\ DOMAIN scheduleRows = 1 .. n
  BY <1>3, SeqDomain
<1>5. /\ IsSeq(scheduleRows') /\ Len(scheduleRows') = n + 1
      /\ \A i \in DOMAIN scheduleRows : scheduleRows'[i] = scheduleRows[i]
      /\ scheduleRows'[n + 1] = row
  BY <1>2, <1>3, <1>4, AppendAny
<1>6. DOMAIN scheduleRows' = 1 .. (n + 1)
  BY <1>5, SeqDomain
<1>7. n + 1 \in DOMAIN scheduleRows' /\ \A i \in DOMAIN scheduleRows : i \in DOMAIN scheduleRows'
  BY <1>4, <1>6
<1>8. row \in Range(scheduleRows')
  BY <1>5, <1>7 DEF Range
<1>9. row.mask = task.mask /\ row.flags = task.flags /\ row.env = task.env
  BY <1>1
<1> QED
  BY <1>5, <1>7, <1>8, <1>9

LEMMA ProcessTriggersOK ==
  ASSUME TasksInv, NEW w \in Writers, NEW id, ProcessTriggers(w, id)
  PROVE  TasksInv' /\ RepliesOK'
<1>1. /\ id \in DOMAIN scheduleRows
      /\ scheduleRows[id].recurring # 0 => HasRecurring(id)
  BY DEF ProcessTriggers
<1>2. PICK row : row = scheduleRows[id]
  OBVIOUS
<1>3. PICK got : got = GetTriggers(row)
  OBVIOUS
<1>4. PICK task : task = TriggeredTask(row, Head(got.found))
  OBVIOUS
<1>5. \/ (~got.ok \/ got.found = <<>>) /\ Reply("triggers", id, got.ok, TRUE) /\ UNCHANGED rowVars
      \/ /\ got.ok /\ got.found # <<>>
         /\ \/ ScheduleRow(w, task) /\ Reply("triggers", id, TRUE, TRUE)
            \/ Reply("triggers", id, TRUE, FALSE) /\ UNCHANGED rowVars
  BY <1>2, <1>3, <1>4 DEF ProcessTriggers
<1>6. row.flags \in Seq(STRING) /\ FetchedTime(row) \in Int
  BY <1>1, <1>2, FetchedTimeType DEF TasksInv, TaskTypes, TaskRowOK
<1> DEFINE Fits(u) == u.mask = row.mask /\ Matches(row, u) /\ u.trigger_mask \in Apps
<1>7. got.ok =>
        \/ got.found = <<>> /\ \A u \in Range(TriggerRows) : ~Fits(u)
        \/ \E t \in Range(TriggerRows) :
             got.found = <<t>> /\ \A u \in Range(TriggerRows) : Fits(u) => u = t
  BY <1>3, TriggersFound
<1>8. \A of, ok, value : Reply("triggers", of, ok, value) => reply'.op = "triggers" /\ reply'.of = of
  BY DEF Reply
<1>9. reply'.op = "triggers" /\ reply'.of = id
  BY <1>5, <1>8
<1>10. TaskReadBack' /\ AllReadBack' /\ FilesReadBack'
  BY <1>9 DEF TaskReadBack, AllReadBack, FilesReadBack
<1>11. CASE ~got.ok /\ UNCHANGED rowVars /\ Reply("triggers", id, got.ok, TRUE)
  <2>1. ~reply'.ok
    BY <1>11 DEF Reply
  <2>2. TriggersFollowed'
    BY <2>1 DEF TriggersFollowed
  <2> QED
    BY <1>10, <1>11, <2>2, TasksInvSame DEF RepliesOK
<1>12. CASE got.ok /\ got.found = <<>> /\ UNCHANGED rowVars
  <2>1. \A u \in Range(TriggerRows) : ~Fits(u)
    BY <1>7, <1>12
  <2>2. scheduleRows'[reply'.of] = row
    BY <1>2, <1>9, <1>12 DEF rowVars
  <2>3. TriggersFollowed'
    BY <2>1, <2>2 DEF TriggersFollowed
  <2> QED
    BY <1>10, <1>12, <2>3, TasksInvSame DEF RepliesOK
<1>13. CASE Reply("triggers", id, TRUE, FALSE) /\ UNCHANGED rowVars
  <2>1. reply'.value = FALSE
    BY <1>13, Replied
  <2>2. TriggersFollowed'
    BY <2>1 DEF TriggersFollowed
  <2> QED
    BY <1>10, <1>13, <2>2, TasksInvSame DEF RepliesOK
<1>14. CASE got.ok /\ got.found # <<>> /\ ScheduleRow(w, task)
  <2>1. PICK t \in Range(TriggerRows) :
          got.found = <<t>> /\ \A u \in Range(TriggerRows) : Fits(u) => u = t
    BY <1>7, <1>14
  <2>2. task = TriggeredTask(row, t)
    <3>1. Head(got.found) = t
      BY <2>1
    <3> QED
      BY <1>4, <3>1
  <2>3. /\ task.flags \in Seq(STRING) /\ task.time = FetchedTime(row) /\ task.recurring = 0
        /\ task.mask = t.trigger_mask /\ HoldsTokens(task, row, t)
    BY <1>6, <2>2, TriggeredHas
  <2>4. TasksInv'
    <3>1. task.time \in Int /\ task.recurring \in {0} \cup DOMAIN Interval
      BY <1>6, <2>3
    <3> QED
      BY <1>14, <2>3, <3>1, ScheduleRowOK
  <2>5. scheduleRows'[reply'.of] = row
    BY <1>1, <1>2, <1>9, <1>14, RowAppended
  <2>6. PICK new \in Range(scheduleRows') :
          new.mask = task.mask /\ new.flags = task.flags /\ new.env = task.env
    BY <1>14, RowAppended
  <2>7. new.mask = t.trigger_mask /\ HoldsTokens(new, row, t)
    BY <2>3, <2>6 DEF HoldsTokens
  <2>8. TriggersFollowed'
    <3> SUFFICES ASSUME NEW u \in Range(TriggerRows), u.mask = row.mask, Matches(row, u),
                        u.trigger_mask \in Apps
                 PROVE  \E q \in Range(scheduleRows') :
                          q.mask = u.trigger_mask /\ HoldsTokens(q, row, u)
      BY <2>5 DEF TriggersFollowed, HoldsTokens
    <3>1. u = t
      BY <2>1
    <3> QED
      BY <2>7, <3>1
  <2> QED
    BY <1>10, <2>4, <2>8 DEF RepliesOK
<1> QED
  BY <1>5, <1>11, <1>12, <1>13, <1>14

-----------------------------------------------------------------------------
(* Every step.                                                             *)

LEMMA RepliesSame == RepliesOK /\ UNCHANGED taskVars => RepliesOK'
<1> SUFFICES ASSUME RepliesOK, UNCHANGED taskVars PROVE RepliesOK'
  OBVIOUS
<1>1. scheduleRows' = scheduleRows /\ fileRows' = fileRows /\ reply' = reply
  BY DEF taskVars
<1>2. TaskReadBack'
  BY <1>1 DEF RepliesOK, TaskReadBack, OwnFiles
<1>3. AllReadBack'
  BY <1>1 DEF RepliesOK, AllReadBack, OwnFiles, Named
<1>4. FilesReadBack'
  BY <1>1 DEF RepliesOK, FilesReadBack
<1>5. TriggersFollowed'
  BY <1>1 DEF RepliesOK, TriggersFollowed
<1> QED
  BY <1>2, <1>3, <1>4, <1>5 DEF RepliesOK

LEMMA QueryOK ==
  ASSUME TasksInv, Query
  PROVE  TasksInv' /\ RepliesOK'
<1>1. ASSUME NEW id \in 0 .. Len(scheduleRows), GetTask(id) PROVE TasksInv' /\ RepliesOK'
  <2>1. UNCHANGED rowVars
    BY <1>1 DEF GetTask
  <2> QED
    BY <1>1, <2>1, GetTaskReads, TasksInvSame
<1>2. ASSUME NEW id, GetTaskInt(id) PROVE TasksInv' /\ RepliesOK'
  <2>1. UNCHANGED rowVars /\ reply'.op = "task_int"
    BY <1>2 DEF GetTaskInt, Reply
  <2> QED
    BY <2>1, OtherReply, TasksInvSame
<1>3. ASSUME NEW id, UpdateEnvfile(id) PROVE TasksInv' /\ RepliesOK'
  <2>1. UNCHANGED rowVars /\ reply'.op = "envfile"
    BY <1>3 DEF UpdateEnvfile, Reply
  <2> QED
    BY <2>1, OtherReply, TasksInvSame
<1>4. CASE FetchAllTasks
  <2>1. UNCHANGED rowVars
    BY <1>4 DEF FetchAllTasks
  <2> QED
    BY <1>4, <2>1, FetchAllReads, TasksInvSame
<1>5. ASSUME NEW mask, NEW range, NEW count, FetchTasksIn(mask, range, count)
      PROVE  TasksInv' /\ RepliesOK'
  <2>1. UNCHANGED rowVars /\ reply'.op = "range"
    BY <1>5 DEF FetchTasksIn, Reply
  <2> QED
    BY <2>1, OtherReply, TasksInvSame
<1>6. ASSUME NEW sids, NEW type, GetFilesOf(sids, type) PROVE TasksInv' /\ RepliesOK'
  <2>1. UNCHANGED rowVars
    BY <1>6 DEF GetFilesOf
  <2> QED
    BY <1>6, <2>1, GetFilesReads, TasksInvSame
<1>7. ASSUME NEW mask, GetFlags(mask) PROVE TasksInv' /\ RepliesOK'
  <2>1. UNCHANGED rowVars /\ reply'.op = "flags"
    BY <1>7 DEF GetFlags, Reply
  <2> QED
    BY <2>1, OtherReply, TasksInvSame
<1>8. ASSUME NEW args, AddTrigger(args) PROVE TasksInv' /\ RepliesOK'
  <2>1. UNCHANGED rowVars /\ reply'.op = "add_trigger"
    BY <1>8 DEF AddTrigger, Reply
  <2> QED
    BY <2>1, OtherReply, TasksInvSame
<1> QED
  BY <1>1, <1>2, <1>3, <1>4, <1>5, <1>6, <1>7, <1>8, ProcessTriggersOK DEF Query

LEMMA TasksNextOK == TasksInv /\ RepliesOK /\ [TasksNext]_taskVars => TasksInv' /\ RepliesOK'
<1> SUFFICES ASSUME TasksInv, RepliesOK, [TasksNext]_taskVars PROVE TasksInv' /\ RepliesOK'
  OBVIOUS
<1>1. ASSUME NEW w \in Writers, NEW task \in TaskInputs, Schedule(w, task) PROVE TasksInv' /\ RepliesOK'
  <2>1. reply' = NoReply
    BY <1>1 DEF Schedule
  <2> QED
    BY <1>1, <2>1, ScheduleOK, NoReplyOther
<1>2. ASSUME NEW w \in Writers, ScheduleFile(w) PROVE TasksInv' /\ RepliesOK'
  <2>1. reply' = NoReply
    BY <1>2 DEF ScheduleFile
  <2> QED
    BY <1>2, <2>1, ScheduleFileOK, NoReplyOther
<1>3. ASSUME NEW w \in Writers, ScheduleRecurring(w) PROVE TasksInv' /\ RepliesOK'
  <2>1. reply' = NoReply
    BY <1>3 DEF ScheduleRecurring
  <2> QED
    BY <1>3, <2>1, ScheduleRecurringOK, NoReplyOther
<1>4. ASSUME NEW w \in Writers, ScheduleFails(w) PROVE TasksInv' /\ RepliesOK'
  <2>1. reply' = NoReply
    BY <1>4 DEF ScheduleFails
  <2> QED
    BY <1>4, <2>1, ScheduleFailsOK, NoReplyOther
<1>5. ASSUME NEW id, NEW completed, UpdateStatus(id, completed) PROVE TasksInv' /\ RepliesOK'
  <2>1. reply'.op = "status"
    BY <1>5 DEF UpdateStatus, Reply
  <2> QED
    BY <1>5, <2>1, UpdateStatusOK, OtherReply
<1>6. CASE UNCHANGED taskVars
  <2>1. UNCHANGED rowVars
    BY <1>6 DEF taskVars, rowVars
  <2> QED
    BY <1>6, <2>1, TasksInvSame, RepliesSame
<1> QED
  BY <1>1, <1>2, <1>3, <1>4, <1>5, <1>6, QueryOK DEF TasksNext

\* For any tasks, triggers and threads, and for behaviours of any length: a
\* query gives every task as it is stored, with the files recorded for it and
\* no other's, whatever the order of the rows and whatever other threads have
\* yet to record; a task that matched a trigger is followed by one with each
\* token that it maps; and a recurring task whose insertion did not fail has
\* its recurrence (scheduler.cpp schedule, parseTask, parseTasks, getFiles;
\* trigger.cpp process).
THEOREM TasksRead == TasksSpec => []TasksReadBack
<1>1. TasksInit => TasksInv /\ RepliesOK
  <2>1. TasksInit => RepliesOK
    BY DEF TasksInit, NoReply, RepliesOK, TaskReadBack, AllReadBack, FilesReadBack, TriggersFollowed
  <2> QED
    BY <2>1, TasksInitOK
<1>2. TasksInv /\ RepliesOK /\ [TasksNext]_taskVars => TasksInv' /\ RepliesOK'
  BY TasksNextOK
<1>3. TasksInv /\ RepliesOK => TasksReadBack
  BY DEF TasksInv, RepliesOK, TasksReadBack
<1> QED
  BY <1>1, <1>2, <1>3, PTL DEF TasksSpec
=============================================================================
