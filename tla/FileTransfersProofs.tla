------------------------ MODULE FileTransfersProofs ------------------------
(***************************************************************************)
(* Proofs about FileTransfers: its type invariant, that a file the client  *)
(* was told of is held, and that the one queue of downloads gives the      *)
(* files asked for in order and is never read when it is empty.            *)
(*                                                                         *)
(* The last is not inductive.  Whoever may still read the queue has a      *)
(* claim on a file of it: an Ack that a client owes or that is on its way, *)
(* metadata that a client will answer with Ready, and a second file that a *)
(* client expects and will Ack.  The queue has at least as many files as   *)
(* there are claims (ClaimsInv), although a file and the claim on it may   *)
(* be of different clients.                                                *)
(***************************************************************************)
EXTENDS FileTransfers, FiniteSetTheorems, SequenceTheorems, TLAPS

Bit(b) == IF b THEN 1 ELSE 0

\* The worker of the descriptor holds an Ack or a Ready
Asks(w) == w.pc = "handle" /\ w.packet.kind \in {"ack", "ready"}

\* The claims of one client, and of all
OwedBy(c, w) == Bit(c.owes) + c.metas + Bit(c.want > 1) + Bit(Asks(w))
Owed == [f \in Fds |-> OwedBy(client[f], worker[f])]
Claims(owed) == UNION {{f} \X (1..owed[f]) : f \in Fds}

ClaimsInv ==
  IsFiniteSet(Claims(Owed)) /\ Cardinality(Claims(Owed)) <= Len(m_outbound_files)

\* A handler has begun and is not done, or has not begun
Sound(h) == h = NoHandler \/ h.have < h.need
HandlersInv ==
  \A f \in Fds : Sound(m_file_handlers[f]) /\ Sound(m_message_handlers[f])

IInv == TypeOK /\ HandlersInv /\ AckedFileIsHeld /\ SentAsRequested /\ ClaimsInv

USE BoundAssumption
-----------------------------------------------------------------------------
(***************************************************************************)
(* Counting                                                                *)
(***************************************************************************)
\* Where the uploads of a descriptor and a second are in a list
Places(seq, f, t) == {i \in DOMAIN seq : seq[i].fd = f /\ seq[i].time = t}

LEMMA PlacesFinite ==
  ASSUME NEW seq \in Seq(Upload), NEW f, NEW t
  PROVE  /\ IsFiniteSet(Places(seq, f, t))
         /\ Cardinality(Places(seq, f, t)) \in Nat
         /\ Count(seq, f, t) = Cardinality(Places(seq, f, t))
  <1>1. IsFiniteSet(1..Len(seq))
    BY FS_Interval
  <1>2. Places(seq, f, t) \in SUBSET (1..Len(seq))
    BY DEF Places
  <1>3. IsFiniteSet(Places(seq, f, t))
    BY <1>1, <1>2, FS_Subset
  <1>4. Cardinality(Places(seq, f, t)) \in Nat
    BY <1>3, FS_CardinalityType
  <1> QED
    BY <1>3, <1>4 DEF Places, Count

\* What is appended counts once more, for its own descriptor and second.
LEMMA CountAppend ==
  ASSUME NEW seq \in Seq(Upload), NEW u \in Upload, NEW f, NEW t
  PROVE  Count(Append(seq, u), f, t) = Count(seq, f, t) + Bit(u.fd = f /\ u.time = t)
  <1> DEFINE new == Append(seq, u)
             n == Len(seq) + 1
             S == Places(seq, f, t)
             T == Places(new, f, t)
  <1>1. /\ new \in Seq(Upload) /\ Len(new) = n /\ new[n] = u
        /\ \A i \in 1..Len(seq) : new[i] = seq[i]
    OBVIOUS
  <1>2. /\ IsFiniteSet(S) /\ Cardinality(S) \in Nat
        /\ Count(seq, f, t) = Cardinality(S) /\ Count(new, f, t) = Cardinality(T)
    BY <1>1, PlacesFinite
  <1>3. n \notin S /\ DOMAIN seq = 1..Len(seq) /\ DOMAIN new = 1..n /\ Len(seq) \in Nat
    BY <1>1 DEF Places
  <1> HIDE DEF new
  <1>4. CASE u.fd = f /\ u.time = t
    <2>1. T = S \cup {n}
      BY <1>1, <1>3, <1>4 DEF Places
    <2>2. Cardinality(T) = Cardinality(S) + 1
      BY <1>2, <1>3, <2>1, FS_AddElement
    <2> QED
      BY <1>2, <1>4, <2>2 DEF Bit, new
  <1>5. CASE ~(u.fd = f /\ u.time = t)
    <2>1. T = S
      BY <1>1, <1>3, <1>5 DEF Places
    <2> QED
      BY <1>2, <1>5, <2>1 DEF Bit, new
  <1> QED
    BY <1>4, <1>5

\* What is removed counts once less, wherever it was.
LEMMA RemoveAtType ==
  ASSUME NEW seq \in Seq(Upload), NEW k \in DOMAIN seq
  PROVE  LET new == RemoveAt(seq, k)
         IN  /\ new \in Seq(Upload) /\ Len(new) = Len(seq) - 1
             /\ \A i \in 1..(Len(seq) - 1) : new[i] = seq[IF i < k THEN i ELSE i + 1]
  <1> DEFINE a == SubSeq(seq, 1, k - 1)
             b == SubSeq(seq, k + 1, Len(seq))
  <1>1. k \in 1..Len(seq) /\ Len(seq) \in Nat
    OBVIOUS
  <1>2. a \in Seq(Upload) /\ Len(a) = k - 1 /\ \A i \in 1..(k - 1) : a[i] = seq[i]
    BY <1>1
  <1>3. /\ b \in Seq(Upload) /\ Len(b) = Len(seq) - k
        /\ \A i \in 1..(Len(seq) - k) : b[i] = seq[i + k]
    BY <1>1
  <1> HIDE DEF a, b
  <1>4. a \o b \in Seq(Upload) /\ Len(a \o b) = Len(seq) - 1
    BY <1>1, <1>2, <1>3
  <1>5. ASSUME NEW i \in 1..(Len(seq) - 1)
        PROVE  (a \o b)[i] = seq[IF i < k THEN i ELSE i + 1]
    <2>1. CASE i < k
      <3>1. i \in 1..(k - 1)
        BY <1>1, <2>1
      <3>2. (a \o b)[i] = a[i]
        BY <1>1, <1>2, <1>3, <3>1
      <3> QED
        BY <1>2, <2>1, <3>1, <3>2
    <2>2. CASE ~(i < k)
      <3>1. (i - (k - 1)) \in 1..(Len(seq) - k) /\ (i - (k - 1)) + k = i + 1
        BY <1>1, <2>2
      <3>2. (a \o b)[i] = b[i - (k - 1)]
        BY <1>1, <1>2, <1>3, <2>2
      <3>3. b[i - (k - 1)] = seq[i + 1]
        BY <1>3, <3>1
      <3> QED
        BY <2>2, <3>2, <3>3
    <2> QED
      BY <2>1, <2>2
  <1>6. RemoveAt(seq, k) = a \o b
    BY DEF RemoveAt, a, b
  <1> QED
    BY <1>4, <1>5, <1>6

LEMMA CountRemove ==
  ASSUME NEW seq \in Seq(Upload), NEW k \in DOMAIN seq, NEW f, NEW t
  PROVE  Count(seq, f, t) = Count(RemoveAt(seq, k), f, t) + Bit(seq[k].fd = f /\ seq[k].time = t)
  <1> DEFINE new == RemoveAt(seq, k)
             S == Places(seq, f, t)
             T == Places(new, f, t)
             Was(i) == IF i < k THEN i ELSE i + 1
             m == [i \in T |-> Was(i)]
  <1>1. /\ new \in Seq(Upload) /\ Len(new) = Len(seq) - 1
        /\ \A i \in 1..(Len(seq) - 1) : new[i] = seq[Was(i)]
    BY RemoveAtType
  <1> HIDE DEF new
  <1>2. k \in 1..Len(seq) /\ Len(seq) \in Nat /\ DOMAIN seq = 1..Len(seq)
    OBVIOUS
  <1>3. DOMAIN new = 1..(Len(seq) - 1)
    BY <1>1, <1>2
  <1>4. /\ IsFiniteSet(S) /\ Cardinality(S) \in Nat /\ Count(seq, f, t) = Cardinality(S)
        /\ IsFiniteSet(T) /\ Cardinality(T) \in Nat /\ Count(new, f, t) = Cardinality(T)
    BY <1>1, PlacesFinite
  <1>5. \A i \in T : /\ i \in 1..(Len(seq) - 1) /\ Was(i) \in DOMAIN seq /\ Was(i) # k
                     /\ seq[Was(i)].fd = f /\ seq[Was(i)].time = t
    BY <1>1, <1>2, <1>3 DEF Places
  <1>6. m \in [T -> S \ {k}]
    BY <1>5 DEF Places
  <1>7. \A i, j \in T : Was(i) = Was(j) => i = j
    BY <1>2, <1>5
  <1>8. m \in Injection(T, S \ {k})
    BY <1>6, <1>7 DEF Injection, IsInjective
  <1>9. ASSUME NEW j \in S \ {k}
        PROVE  \E i \in T : m[i] = j
    <2> DEFINE i == IF j < k THEN j ELSE j - 1
    <2>1. j \in 1..Len(seq) /\ j # k /\ seq[j].fd = f /\ seq[j].time = t
      BY <1>2 DEF Places
    <2>2. i \in 1..(Len(seq) - 1) /\ Was(i) = j
      BY <1>2, <2>1
    <2>3. i \in T
      BY <1>1, <1>3, <2>1, <2>2 DEF Places
    <2> QED
      BY <2>2, <2>3
  <1>10. m \in Surjection(T, S \ {k})
    BY <1>6, <1>9 DEF Surjection
  <1> HIDE DEF m
  <1>11. ExistsBijection(T, S \ {k})
    BY <1>8, <1>10 DEF ExistsBijection, Bijection
  <1>12. Cardinality(S \ {k}) = Cardinality(T)
    BY <1>4, <1>11, FS_Bijection
  <1>13. CASE seq[k].fd = f /\ seq[k].time = t
    <2>1. k \in S
      BY <1>13 DEF Places
    <2>2. Cardinality(T) = Cardinality(S) - 1
      BY <1>4, <1>12, <2>1, FS_RemoveElement
    <2> QED
      BY <1>4, <1>13, <2>2 DEF Bit, new
  <1>14. CASE ~(seq[k].fd = f /\ seq[k].time = t)
    <2>1. k \notin S
      BY <1>14 DEF Places
    <2>2. Cardinality(T) = Cardinality(S)
      BY <1>4, <1>12, <2>1, FS_RemoveElement
    <2> QED
      BY <1>4, <1>14, <2>2 DEF Bit, new
  <1> QED
    BY <1>13, <1>14

-----------------------------------------------------------------------------
(***************************************************************************)
(* Claims                                                                  *)
(***************************************************************************)
LEMMA ClaimsHas ==
  ASSUME NEW g \in [Fds -> Nat], NEW p
  PROVE  p \in Claims(g) <=> \E f \in Fds : \E k \in 1..g[f] : p = <<f, k>>
  BY DEF Claims

\* Claims of no client grow: there are no more of them.
LEMMA ClaimsFewer ==
  ASSUME NEW g \in [Fds -> Nat], NEW h \in [Fds -> Nat], IsFiniteSet(Claims(g)),
         \A f \in Fds : h[f] <= g[f]
  PROVE  /\ IsFiniteSet(Claims(h)) /\ Cardinality(Claims(h)) \in Nat
         /\ Cardinality(Claims(g)) \in Nat
         /\ Cardinality(Claims(h)) <= Cardinality(Claims(g))
  <1>1. \A f \in Fds : 1..h[f] \subseteq 1..g[f]
    OBVIOUS
  <1>2. Claims(h) \subseteq Claims(g)
    BY <1>1, ClaimsHas
  <1> QED
    BY <1>2, FS_Subset, FS_CardinalityType

\* One client gives up a claim and no other's grow: there is one fewer.
LEMMA ClaimsOneFewer ==
  ASSUME NEW g \in [Fds -> Nat], NEW h \in [Fds -> Nat], IsFiniteSet(Claims(g)),
         \A f \in Fds : h[f] <= g[f],
         NEW e \in Fds, h[e] < g[e]
  PROVE  /\ IsFiniteSet(Claims(h)) /\ Cardinality(Claims(h)) \in Nat
         /\ Cardinality(Claims(g)) \in Nat
         /\ Cardinality(Claims(h)) + 1 <= Cardinality(Claims(g))
  <1> DEFINE p == <<e, g[e]>>
  <1>1. g[e] \in 1..g[e] /\ ~(g[e] \in 1..h[e])
    OBVIOUS
  <1>2. p \in Claims(g)
    BY <1>1, ClaimsHas
  <1>3. p \notin Claims(h)
    BY <1>1, ClaimsHas
  <1>4. \A f \in Fds : 1..h[f] \subseteq 1..g[f]
    OBVIOUS
  <1>5. Claims(h) \subseteq Claims(g) \ {p}
    <2>1. Claims(h) \subseteq Claims(g)
      BY <1>4, ClaimsHas
    <2> QED
      BY <1>3, <2>1
  <1>6. IsFiniteSet(Claims(g) \ {p}) /\ Cardinality(Claims(g) \ {p}) = Cardinality(Claims(g)) - 1
    BY <1>2, FS_RemoveElement
  <1>7. IsFiniteSet(Claims(h)) /\ Cardinality(Claims(h)) <= Cardinality(Claims(g) \ {p})
    BY <1>5, <1>6, FS_Subset
  <1>8. Cardinality(Claims(h)) \in Nat /\ Cardinality(Claims(g)) \in Nat
    BY <1>7, FS_CardinalityType
  <1> QED
    BY <1>6, <1>7, <1>8

\* One client makes one claim more and no other's grow: there is at most one
\* more.
LEMMA ClaimsOneMore ==
  ASSUME NEW g \in [Fds -> Nat], NEW h \in [Fds -> Nat], IsFiniteSet(Claims(g)),
         NEW e \in Fds, h[e] <= g[e] + 1,
         \A f \in Fds \ {e} : h[f] <= g[f]
  PROVE  /\ IsFiniteSet(Claims(h)) /\ Cardinality(Claims(h)) \in Nat
         /\ Cardinality(Claims(g)) \in Nat
         /\ Cardinality(Claims(h)) <= Cardinality(Claims(g)) + 1
  <1> DEFINE p == <<e, g[e] + 1>>
  <1>1. \A f \in Fds \ {e} : 1..h[f] \subseteq 1..g[f]
    OBVIOUS
  <1>2. 1..h[e] \subseteq (1..g[e]) \cup {g[e] + 1}
    OBVIOUS
  <1>3. Claims(h) \subseteq Claims(g) \cup {p}
    <2> SUFFICES ASSUME NEW q \in Claims(h), q # p
                 PROVE  q \in Claims(g)
      OBVIOUS
    <2>1. PICK f \in Fds : \E k \in 1..h[f] : q = <<f, k>>
      BY ClaimsHas
    <2>2. PICK k \in 1..h[f] : q = <<f, k>>
      BY <2>1
    <2>3. k \in 1..g[f]
      BY <1>1, <1>2, <2>2
    <2> QED
      BY <2>2, <2>3, ClaimsHas
  <1>4. /\ IsFiniteSet(Claims(g) \cup {p}) /\ Cardinality(Claims(g)) \in Nat
        /\ Cardinality(Claims(g) \cup {p}) <= Cardinality(Claims(g)) + 1
    <2>1. Cardinality(Claims(g)) \in Nat
      BY FS_CardinalityType
    <2>2. /\ IsFiniteSet(Claims(g) \cup {p})
          /\ Cardinality(Claims(g) \cup {p}) =
               IF p \in Claims(g) THEN Cardinality(Claims(g)) ELSE Cardinality(Claims(g)) + 1
      BY FS_AddElement
    <2> QED
      BY <2>1, <2>2
  <1>5. IsFiniteSet(Claims(h)) /\ Cardinality(Claims(h)) <= Cardinality(Claims(g) \cup {p})
    BY <1>3, <1>4, FS_Subset
  <1>6. Cardinality(Claims(h)) \in Nat /\ Cardinality(Claims(g) \cup {p}) \in Nat
    BY <1>4, <1>5, FS_CardinalityType
  <1> QED
    BY <1>4, <1>5, <1>6

\* A claim may pass from one client to another.
LEMMA ClaimPasses ==
  ASSUME NEW g \in [Fds -> Nat], NEW h \in [Fds -> Nat], IsFiniteSet(Claims(g)),
         NEW e \in Fds, g[e] > 0, NEW d \in Fds,
         \A f \in Fds : h[f] <= g[f] - Bit(f = e) + Bit(f = d)
  PROVE  IsFiniteSet(Claims(h)) /\ Cardinality(Claims(h)) <= Cardinality(Claims(g))
  <1> DEFINE m == [f \in Fds |-> g[f] - Bit(f = e)]
  <1>1. m \in [Fds -> Nat] /\ \A f \in Fds : m[f] <= g[f]
    BY DEF Bit
  <1>2. m[e] < g[e]
    BY DEF Bit
  <1>3. h[d] <= m[d] + 1 /\ \A f \in Fds \ {d} : h[f] <= m[f]
    BY DEF Bit
  <1> HIDE DEF m
  <1>4. /\ IsFiniteSet(Claims(m)) /\ Cardinality(Claims(m)) \in Nat /\ Cardinality(Claims(g)) \in Nat
        /\ Cardinality(Claims(m)) + 1 <= Cardinality(Claims(g))
    BY <1>1, <1>2, ClaimsOneFewer
  <1>5. /\ IsFiniteSet(Claims(h)) /\ Cardinality(Claims(h)) \in Nat
        /\ Cardinality(Claims(h)) <= Cardinality(Claims(m)) + 1
    BY <1>1, <1>3, <1>4, ClaimsOneMore
  <1> QED
    BY <1>4, <1>5

\* A claim is on a file: whoever has one finds the queue not empty.
LEMMA ClaimedIsQueued ==
  ASSUME NEW g \in [Fds -> Nat], IsFiniteSet(Claims(g)), NEW e \in Fds, g[e] > 0
  PROVE  Cardinality(Claims(g)) \in Nat \ {0}
  <1>1. <<e, 1>> \in Claims(g)
    BY ClaimsHas
  <1> QED
    BY <1>1, FS_EmptySet, FS_CardinalityType

-----------------------------------------------------------------------------
(***************************************************************************)
(* Types                                                                   *)
(***************************************************************************)
WorkerType == [pc : {"none", "recv", "revoked"}]
              \cup [pc : {"handle"}, packet : Part \cup Message, to : {"file", "message"}]

LEMMA BitType == \A b : Bit(b) \in 0..1
  BY DEF Bit

LEMMA OwedType == TypeOK => Owed \in [Fds -> Nat]
  <1> SUFFICES ASSUME TypeOK, NEW f \in Fds
               PROVE  OwedBy(client[f], worker[f]) \in Nat
    BY DEF Owed
  <1>1. client[f].metas \in Nat
    BY DEF TypeOK, Client
  <1> QED
    BY <1>1, BitType DEF OwedBy

LEMMA WorkerHolds ==
  ASSUME TypeOK, NEW f \in Fds, worker[f].pc = "handle"
  PROVE  worker[f].packet \in Part \cup Message
  BY DEF TypeOK

\* A message carries what its kind says (the arguments of an operation).
LEMMA MessageFields ==
  ASSUME NEW p \in Part \cup Message
  PROVE  /\ p.kind = "fetch" => p.fetch \in Requests
         /\ p.kind = "schedule" => p.files \in Seq(Times)
         /\ IsPart(p) => p.n \in 1..FileParts
  BY DEF Part, Message, IsPart

\* A handler that takes a packet starts over or is not done.
LEMMA HandlerStep ==
  ASSUME NEW h \in Handler, Sound(h), NEW p \in Part \cup Message,
         NEW new \in ProcessPacket(h, p)
  PROVE  StartOver(new) \in Handler /\ Sound(StartOver(new))
  <1>1. Announced(p) \subseteq 1..(FileParts + 1)
    BY DEF Announced
  <1>2. PICK n : new = [need |-> n, have |-> h.have + 1]
               /\ n \in IF h.have = 0 THEN Announced(p) ELSE {h.need}
    BY DEF ProcessPacket
  <1>3. h.have \in 0..FileParts /\ h.need \in 0..(FileParts + 1)
    BY DEF Handler
  <1>4. n \in 1..(FileParts + 1) /\ h.have + 1 <= n
    <2>1. CASE h.have = 0
      BY <1>1, <1>2, <2>1
    <2>2. CASE h.have # 0
      BY <1>2, <1>3, <2>2 DEF Sound, NoHandler
    <2> QED
      BY <2>1, <2>2
  <1>5. CASE Whole(new)
    BY <1>5 DEF StartOver, NoHandler, Handler, Sound
  <1>6. CASE ~Whole(new)
    <2>1. new.need = n /\ new.have = h.have + 1 /\ StartOver(new) = new
      BY <1>2, <1>6 DEF StartOver
    <2>2. new.have < new.need
      BY <1>3, <1>4, <1>6, <2>1 DEF Whole
    <2>3. new \in Handler
      BY <1>2, <1>3, <1>4, <2>1, <2>2 DEF Handler
    <2> QED
      BY <2>1, <2>2, <2>3 DEF Sound
  <1> QED
    BY <1>5, <1>6

LEMMA NoHandlerSound == NoHandler \in Handler /\ Sound(NoHandler)
  BY DEF NoHandler, Handler, Sound

\* What a client may send next is a packet; what it has then done is a
\* client, with no more claims than it had, the packet's included.
LEMMA Sends ==
  ASSUME TypeOK, NEW f \in Fds, NEW p \in MaySend(f)
  PROVE  p \in Part \cup Message
  <1> DEFINE c == client[f]
  <1>1. c \in Client /\ todo.fetches \in 0..MaxRequests
    BY DEF TypeOK
  <1>2. /\ c.sends \in 0..FileParts /\ c.metas \in Nat /\ c.want \in 0..2
        /\ c.times \in Seq(Times)
    BY <1>1 DEF Client
  <1> HIDE DEF c
  <1>3. \/ p \in {[kind |-> "login"], [kind |-> "ping"], [kind |-> "stop"],
                  [kind |-> "upload"], [kind |-> "ack"], [kind |-> "ready"]}
        \/ c.sends < FileParts /\ p = [kind |-> "part", n |-> c.sends + 1]
        \/ todo.fetches > 0 /\ p = [kind |-> "fetch", fetch |-> todo.fetches]
        \/ p = [kind |-> "schedule", files |-> c.times]
        \/ \E i \in DOMAIN c.times : p = [kind |-> "schedule", files |-> <<c.times[i]>>]
    BY DEF MaySend, Offer, c
  <1>4. \A i \in DOMAIN c.times : <<c.times[i]>> \in Seq(Times)
    BY <1>2
  <1>5. CASE c.sends < FileParts /\ p = [kind |-> "part", n |-> c.sends + 1]
    BY <1>2, <1>5 DEF Part
  <1>6. CASE todo.fetches > 0 /\ p = [kind |-> "fetch", fetch |-> todo.fetches]
    BY <1>1, <1>6 DEF Message, Requests
  <1>7. CASE \E i \in DOMAIN c.times : p = [kind |-> "schedule", files |-> <<c.times[i]>>]
    BY <1>4, <1>7 DEF Message
  <1>8. CASE p = [kind |-> "schedule", files |-> c.times]
    BY <1>2, <1>8 DEF Message
  <1>9. CASE p \in {[kind |-> "login"], [kind |-> "ping"], [kind |-> "stop"],
                   [kind |-> "upload"], [kind |-> "ack"], [kind |-> "ready"]}
    BY <1>9 DEF Message
  <1> QED
    BY <1>3, <1>5, <1>6, <1>7, <1>8, <1>9

LEMMA AfterSends ==
  ASSUME TypeOK, NEW f \in Fds, NEW p \in MaySend(f)
  PROVE  LET c == client[f]
             d == AfterSending(c, p)
         IN  /\ d \in Client /\ d.want = c.want
             /\ Bit(d.owes) + d.metas + Bit(p.kind \in {"ack", "ready"})
                  = Bit(c.owes) + c.metas
  <1> DEFINE c == client[f]
             d == AfterSending(c, p)
  <1>1. c \in Client
    BY DEF TypeOK
  <1>2. /\ c.sends \in 0..FileParts /\ c.metas \in Nat /\ c.want \in 0..2
        /\ c.times \in Seq(Times) /\ c.owes \in BOOLEAN
    BY <1>1 DEF Client
  <1>3. /\ p.kind = "part" => c.sends < FileParts
        /\ p.kind = "ack" => c.owes
        /\ p.kind = "ready" => c.metas > 0
    BY DEF MaySend, Offer
  <1> HIDE DEF c
  <1> SUFFICES /\ d \in Client /\ d.want = c.want
               /\ Bit(d.owes) + d.metas + Bit(p.kind \in {"ack", "ready"})
                    = Bit(c.owes) + c.metas
    BY DEF c
  <1>4. CASE p.kind = "login"
    <2>1. d = [c EXCEPT !.in = TRUE]
      BY <1>4 DEF AfterSending
    <2>2. /\ d \in Client /\ d.want = c.want
          /\ d.owes = c.owes /\ d.metas = c.metas
      BY <1>1, <2>1 DEF Client
    <2> QED
      <3> HIDE DEF d
      <3> QED
        BY <1>2, <1>4, <2>2 DEF Bit
  <1>5. CASE p.kind = "upload"
    <2>1. d = [c EXCEPT !.up = "asked", !.sends = 0] /\ 0 \in 0..FileParts
      BY <1>5 DEF AfterSending
    <2>2. /\ d \in Client /\ d.want = c.want
          /\ d.owes = c.owes /\ d.metas = c.metas
      BY <1>1, <2>1 DEF Client
    <2> QED
      <3> HIDE DEF d
      <3> QED
        BY <1>2, <1>5, <2>2 DEF Bit
  <1>6. CASE p.kind = "part"
    <2>1. d = [c EXCEPT !.sends = c.sends + 1] /\ c.sends + 1 \in 0..FileParts
      BY <1>2, <1>3, <1>6 DEF AfterSending
    <2>2. /\ d \in Client /\ d.want = c.want
          /\ d.owes = c.owes /\ d.metas = c.metas
      BY <1>1, <2>1 DEF Client
    <2> QED
      <3> HIDE DEF d
      <3> QED
        BY <1>2, <1>6, <2>2 DEF Bit
  <1>7. CASE p.kind = "ack"
    <2>1. d = [c EXCEPT !.owes = FALSE]
      BY <1>7 DEF AfterSending
    <2>2. /\ d \in Client /\ d.want = c.want
          /\ d.owes = FALSE /\ d.metas = c.metas
      BY <1>1, <2>1 DEF Client
    <2> QED
      <3> HIDE DEF d
      <3> QED
        BY <1>2, <1>3, <1>7, <2>2 DEF Bit
  <1>8. CASE p.kind = "ready"
    <2>1. d = [c EXCEPT !.metas = c.metas - 1] /\ c.metas - 1 \in Nat
      BY <1>2, <1>3, <1>8 DEF AfterSending
    <2>2. /\ d \in Client /\ d.want = c.want
          /\ d.owes = c.owes /\ d.metas = c.metas - 1
      BY <1>1, <2>1 DEF Client
    <2> QED
      <3> HIDE DEF d
      <3> QED
        BY <1>2, <1>8, <2>2 DEF Bit
  <1>9. CASE p.kind \notin {"login", "upload", "part", "ack", "ready"}
    <2>1. d = c
      BY <1>9 DEF AfterSending
    <2>2. /\ d \in Client /\ d.want = c.want
          /\ d.owes = c.owes /\ d.metas = c.metas
      BY <1>1, <2>1 DEF Client
    <2> QED
      <3> HIDE DEF d
      <3> QED
        BY <1>2, <1>9, <2>2 DEF Bit
  <1> QED
    BY <1>4, <1>5, <1>6, <1>7, <1>8, <1>9

-----------------------------------------------------------------------------
(***************************************************************************)
(* Steps that leave the lists of files alone                               *)
(***************************************************************************)
LEMMA OwedTypes ==
  ASSUME TypeOK, TypeOK'
  PROVE  /\ Owed \in [Fds -> Nat] /\ Owed' \in [Fds -> Nat]
         /\ Claims(Owed)' = Claims(Owed')
  <1>1. (TypeOK => Owed \in [Fds -> Nat])'
    BY OwedType, PTL
  <1>2. Claims(Owed)' = Claims(Owed')
    BY DEF Claims
  <1> QED
    BY <1>1, <1>2, OwedType

LEMMA ClaimsKeep ==
  ASSUME IInv, TypeOK', m_outbound_files' = m_outbound_files,
         \A f \in Fds : Owed'[f] <= Owed[f]
  PROVE  ClaimsInv'
  <1>1. /\ Owed \in [Fds -> Nat] /\ Owed' \in [Fds -> Nat]
        /\ Claims(Owed)' = Claims(Owed')
    BY OwedTypes DEF IInv
  <1>2. /\ IsFiniteSet(Claims(Owed')) /\ Cardinality(Claims(Owed')) \in Nat
        /\ Cardinality(Claims(Owed)) \in Nat
        /\ Cardinality(Claims(Owed')) <= Cardinality(Claims(Owed))
    BY <1>1, ClaimsFewer DEF IInv, ClaimsInv
  <1>3. Len(m_outbound_files) \in Nat
    BY DEF IInv, TypeOK
  <1> QED
    BY <1>1, <1>2, <1>3 DEF IInv, ClaimsInv

LEMMA HeldKeep ==
  ASSUME IInv, UNCHANGED <<m_received_files, saved, acks>>
  PROVE  AckedFileIsHeld'
  <1>1. acks' = acks /\ m_received_files' = m_received_files /\ saved' = saved
    OBVIOUS
  <1>2. \A f \in Fds, t \in Times :
          Count(acks, f, t) = Count(m_received_files, f, t) + Count(saved, f, t)
    BY DEF IInv, AckedFileIsHeld
  <1> QED
    BY <1>1, <1>2 DEF AckedFileIsHeld

LEMMA QuietKeeps ==
  ASSUME IInv, TypeOK', HandlersInv',
         UNCHANGED downVars, UNCHANGED <<m_received_files, saved, acks>>,
         \A f \in Fds : Owed'[f] <= Owed[f]
  PROVE  IInv'
  <1>1. ClaimsInv'
    BY ClaimsKeep DEF downVars
  <1>2. SentAsRequested'
    BY DEF IInv, SentAsRequested, downVars
  <1> QED
    BY <1>1, <1>2, HeldKeep DEF IInv

\* Claims of a client, by what they are made of.
LEMMA OwedAt ==
  ASSUME NEW f \in Fds
  PROVE  /\ Owed[f] = OwedBy(client[f], worker[f])
         /\ Owed'[f] = OwedBy(client'[f], worker'[f])
  BY DEF Owed, OwedBy, Bit, Asks

LEMMA AcceptKeeps ==
  ASSUME IInv, NEW f \in Fds, Accept(f)
  PROVE  IInv'
  <1>1. TypeOK'
    BY DEF IInv, TypeOK, Accept, uploadVars, downVars
  <1>2. HandlersInv'
    BY DEF IInv, HandlersInv, Accept, uploadVars
  <1>3. ASSUME NEW g \in Fds
        PROVE  Owed'[g] <= Owed[g]
    <2>1. client'[g] = client[g] /\ client[g].metas \in Nat
      BY DEF Accept, IInv, TypeOK, Client
    <2>2. ~Asks(worker'[g]) \/ worker'[g] = worker[g]
      BY DEF Accept, IInv, TypeOK, Asks
    <2> QED
      BY <2>1, <2>2, OwedAt DEF OwedBy, Bit
  <1> QED
    BY <1>1, <1>2, <1>3, QuietKeeps DEF Accept, uploadVars, downVars

\* The client of a descriptor that is closed claims nothing.
LEMMA CloseOwed ==
  ASSUME IInv, NEW f \in Fds, Close(f), NEW g \in Fds
  PROVE  Owed'[g] <= Owed[g]
  <1>1. Owed \in [Fds -> Nat]
    BY OwedType DEF IInv
  <1>2. CASE g = f
    <2>1. ~Asks(worker'[f]) /\ client'[f] = NewClient
      BY DEF Close, IInv, TypeOK, Asks
    <2>2. Owed'[f] = 0
      BY <2>1, OwedAt DEF OwedBy, Bit, NewClient
    <2> QED
      BY <1>1, <1>2, <2>2
  <1>3. CASE g # f
    <2>1. client'[g] = client[g] /\ worker'[g] = worker[g]
      BY <1>3 DEF Close, IInv, TypeOK
    <2> QED
      BY <1>1, <2>1, OwedAt
  <1> QED
    BY <1>2, <1>3

LEMMA NewClientType == NewClient \in Client
  <1>1. <<>> \in Seq(Times) /\ 0 \in 0..FileParts /\ 0 \in 0..2 /\ 0 \in Nat
    OBVIOUS
  <1> QED
    BY <1>1 DEF NewClient, Client

LEMMA CloseType ==
  ASSUME TypeOK, NEW f \in Fds, Close(f)
  PROVE  /\ open' \in [Fds -> BOOLEAN] /\ gone' \in [Fds -> BOOLEAN]
         /\ client' \in [Fds -> Client] /\ worker' \in [Fds -> WorkerType]
  BY NewClientType DEF TypeOK, Close, WorkerType

LEMMA CloseRevokedKeeps ==
  ASSUME IInv, NEW f \in Fds, CloseRevoked(f)
  PROVE  IInv'
  <1>1. TypeOK'
    BY CloseType DEF IInv, TypeOK, CloseRevoked, uploadVars, downVars, endVars, WorkerType
  <1>2. HandlersInv'
    BY DEF IInv, HandlersInv, CloseRevoked, uploadVars
  <1>3. \A g \in Fds : Owed'[g] <= Owed[g]
    BY CloseOwed DEF CloseRevoked
  <1> QED
    BY <1>1, <1>2, <1>3, QuietKeeps DEF CloseRevoked, uploadVars, downVars

LEMMA EndSessionType ==
  ASSUME TypeOK, NEW f \in Fds, EndSession(f)
  PROVE  m_file_pending_fd' \in Fds \cup {NoFd} /\ m_fds' \in [Fds -> BOOLEAN]
  BY DEF TypeOK, EndSession, SetFileNotPending

LEMMA RecvClosedKeeps ==
  ASSUME IInv, NEW f \in Fds, RecvClosed(f)
  PROVE  IInv'
  <1>1. /\ m_message_handlers' \in [Fds -> Handler]
        /\ m_file_handlers' \in [Fds -> Handler]
    BY NoHandlerSound DEF RecvClosed, OnClientExit, IInv, TypeOK
  <1>2. TypeOK'
    BY <1>1, CloseType, EndSessionType
       DEF IInv, TypeOK, RecvClosed, downVars, WorkerType
  <1>3. HandlersInv'
    BY NoHandlerSound DEF IInv, HandlersInv, TypeOK, RecvClosed, OnClientExit
  <1>4. \A g \in Fds : Owed'[g] <= Owed[g]
    BY CloseOwed DEF RecvClosed
  <1> QED
    BY <1>2, <1>3, <1>4, QuietKeeps DEF RecvClosed

LEMMA UnaskedKeeps ==
  ASSUME IInv, NEW f \in Fds, Hangup(f) \/ Expire(f) \/ Sweep(f)
  PROVE  IInv'
  <1>1. client' = client /\ worker' = worker
    BY DEF Hangup, Expire, Sweep
  <1>2. \A g \in Fds : Owed'[g] <= Owed[g]
    <2>1. Owed' = Owed /\ Owed \in [Fds -> Nat]
      BY <1>1, OwedType DEF IInv, Owed
    <2> QED
      BY <2>1
  <1>3. CASE Hangup(f)
    <2>1. TypeOK'
      BY <1>3 DEF IInv, TypeOK, Hangup, endVars, uploadVars, downVars
    <2>2. HandlersInv'
      BY <1>3 DEF IInv, HandlersInv, Hangup, uploadVars
    <2> QED
      BY <1>2, <1>3, <2>1, <2>2, QuietKeeps DEF Hangup, uploadVars
  <1>4. CASE Expire(f)
    <2>1. TypeOK'
      BY <1>4 DEF IInv, TypeOK, Expire, netVars, uploadVars, downVars
    <2>2. HandlersInv'
      BY <1>4 DEF IInv, HandlersInv, Expire, uploadVars
    <2> QED
      BY <1>2, <1>4, <2>1, <2>2, QuietKeeps DEF Expire, uploadVars
  <1>5. CASE Sweep(f)
    <2>1. TypeOK'
      BY <1>5, EndSessionType DEF IInv, TypeOK, Sweep, netVars, downVars
    <2>2. HandlersInv'
      BY <1>5 DEF IInv, HandlersInv, Sweep
    <2> QED
      BY <1>2, <1>5, <2>1, <2>2, QuietKeeps DEF Sweep
  <1> QED
    BY <1>3, <1>4, <1>5

\* A client that sends an Ack or a Ready gives up the claim that the packet
\* now is.
LEMMA RecvDataKeeps ==
  ASSUME IInv, NEW f \in Fds, RecvData(f)
  PROVE  IInv'
  <1>1. PICK p \in MaySend(f) :
          /\ client' = [client EXCEPT ![f] = AfterSending(@, p)]
          /\ todo' = CASE p.kind = "upload" -> [todo EXCEPT !.uploads = @ - 1]
                       [] p.kind = "fetch"  -> [todo EXCEPT !.fetches = @ - 1]
                       [] OTHER             -> todo
          /\ worker' = [worker EXCEPT ![f] =
                          [pc |-> "handle", packet |-> p,
                           to |-> IF m_file_pending_fd # NoFd THEN "file" ELSE "message"]]
    BY DEF RecvData
  <1> DEFINE c == client[f]
             d == AfterSending(c, p)
  <1>2. TypeOK /\ p \in Part \cup Message
    BY Sends DEF IInv
  <1>3. /\ d \in Client /\ d.want = c.want
        /\ Bit(d.owes) + d.metas + Bit(p.kind \in {"ack", "ready"}) = Bit(c.owes) + c.metas
    BY <1>2, AfterSends
  <1>4. client' = [client EXCEPT ![f] = d]
    BY <1>1
  <1>5. c \in Client /\ c.metas \in Nat /\ worker[f].pc = "recv"
    BY DEF IInv, TypeOK, Client, RecvData
  <1> HIDE DEF d
  <1>6. client' \in [Fds -> Client]
    BY <1>2, <1>3, <1>4 DEF TypeOK
  <1>7. worker' \in [Fds -> WorkerType]
    <2>1. [pc |-> "handle", packet |-> p,
           to |-> IF m_file_pending_fd # NoFd THEN "file" ELSE "message"] \in WorkerType
      BY <1>2 DEF WorkerType
    <2> QED
      BY <1>1, <1>2, <2>1 DEF TypeOK, WorkerType
  <1>8. todo' \in [uploads : 0..MaxRequests, fetches : 0..MaxRequests]
    <2>1. /\ p.kind = "upload" => todo.uploads > 0
          /\ p.kind = "fetch" => todo.fetches > 0
      BY DEF MaySend, Offer
    <2>2. todo \in [uploads : 0..MaxRequests, fetches : 0..MaxRequests]
      BY <1>2 DEF TypeOK
    <2>3. CASE p.kind = "upload"
      BY <1>1, <2>1, <2>2, <2>3
    <2>4. CASE p.kind = "fetch"
      BY <1>1, <2>1, <2>2, <2>4
    <2>5. CASE p.kind \notin {"upload", "fetch"}
      BY <1>1, <2>2, <2>5
    <2> QED
      BY <2>3, <2>4, <2>5
  <1>9. TypeOK'
    BY <1>2, <1>6, <1>7, <1>8
       DEF TypeOK, RecvData, netVars, endVars, uploadVars, downVars, WorkerType
  <1>10. HandlersInv'
    BY DEF IInv, HandlersInv, RecvData, uploadVars
  <1>11. ASSUME NEW g \in Fds
         PROVE  Owed'[g] <= Owed[g]
    <2>1. CASE g # f
      <3>1. client'[g] = client[g] /\ worker'[g] = worker[g]
        BY <1>1, <1>2, <1>4, <2>1 DEF TypeOK
      <3>2. Owed[g] \in Nat
        BY <1>2, OwedType
      <3> QED
        BY <3>1, <3>2, OwedAt
    <2>2. CASE g = f
      <3>1. client'[f] = d /\ ~Asks(worker[f])
            /\ (Asks(worker'[f]) <=> p.kind \in {"ack", "ready"})
        BY <1>1, <1>2, <1>4, <1>5 DEF TypeOK, Asks
      <3>2. Bit(Asks(worker'[f])) = Bit(p.kind \in {"ack", "ready"}) /\ Bit(Asks(worker[f])) = 0
        BY <3>1 DEF Bit
      <3>3. Owed[f] = Bit(c.owes) + c.metas + Bit(c.want > 1) + 0
        BY <3>2, OwedAt DEF OwedBy
      <3>4. Owed'[f] = Bit(d.owes) + d.metas + Bit(c.want > 1) + Bit(p.kind \in {"ack", "ready"})
        BY <1>3, <3>1, <3>2, OwedAt DEF OwedBy
      <3>5. /\ d.metas \in Nat /\ Bit(d.owes) \in Int /\ Bit(c.owes) \in Int
            /\ Bit(c.want > 1) \in Int /\ Bit(p.kind \in {"ack", "ready"}) \in Int
        BY <1>3, BitType DEF Client
      <3> HIDE DEF c
      <3> QED
        BY <1>3, <1>5, <2>2, <3>3, <3>4, <3>5
    <2> QED
      BY <2>1, <2>2
  <1> QED
    BY <1>9, <1>10, <1>11, QuietKeeps DEF RecvData, uploadVars

-----------------------------------------------------------------------------
(***************************************************************************)
(* A worker's handler                                                      *)
(***************************************************************************)
\* What every handler leaves alone and what its worker does after it
Handles(f) ==
  /\ worker[f].pc = "handle"
  /\ worker' = [worker EXCEPT ![f] = [pc |-> IF m_fds'[f] THEN "recv" ELSE "revoked"]]
  /\ UNCHANGED <<netVars, todo>>

LEMMA HandlesType ==
  ASSUME TypeOK, NEW f \in Fds, Handles(f)
  PROVE  /\ accepted' \in 0..MaxConns /\ open' \in [Fds -> BOOLEAN]
         /\ gone' \in [Fds -> BOOLEAN] /\ worker' \in [Fds -> WorkerType]
         /\ todo' \in [uploads : 0..MaxRequests, fetches : 0..MaxRequests]
         /\ ~Asks(worker'[f]) /\ \A g \in Fds \ {f} : worker'[g] = worker[g]
  BY DEF TypeOK, Handles, netVars, WorkerType, Asks

\* The claim of a packet that was handled is gone.
LEMMA HandlesOwed ==
  ASSUME TypeOK, NEW f \in Fds, Handles(f), NEW g \in Fds,
         client'[g].owes = client[g].owes, client'[g].want = client[g].want,
         client'[g].metas = client[g].metas
  PROVE  /\ Owed'[g] <= Owed[g]
         /\ g = f => Owed'[g] = Owed[g] - Bit(Asks(worker[f]))
  <1>1. client[g].metas \in Nat
    BY DEF TypeOK, Client
  <1>2. ~Asks(worker'[f]) /\ (g # f => worker'[g] = worker[g])
    BY HandlesType
  <1>3. CASE g = f
    BY <1>1, <1>2, <1>3, OwedAt DEF OwedBy, Bit
  <1>4. CASE g # f
    BY <1>1, <1>2, <1>4, OwedAt DEF OwedBy, Bit
  <1> QED
    BY <1>3, <1>4

\* ReceiveMessage's own handler takes the packet, whatever becomes of it.
LEMMA MessageHandlers ==
  ASSUME IInv, NEW f \in Fds, worker[f].pc = "handle",
         NEW handler \in ProcessPacket(m_message_handlers[f], worker[f].packet),
         m_message_handlers' = [m_message_handlers EXCEPT ![f] = StartOver(handler)]
  PROVE  /\ m_message_handlers' \in [Fds -> Handler]
         /\ \A g \in Fds : Sound(m_message_handlers'[g])
  <1>1. m_message_handlers[f] \in Handler /\ Sound(m_message_handlers[f])
    BY DEF IInv, TypeOK, HandlersInv
  <1>2. worker[f].packet \in Part \cup Message
    BY WorkerHolds DEF IInv
  <1>3. StartOver(handler) \in Handler /\ Sound(StartOver(handler))
    BY <1>1, <1>2, HandlerStep
  <1> QED
    BY <1>3 DEF IInv, TypeOK, HandlersInv

\* The handlers that change no list of files: login, ping, stop and what
\* cannot be decoded.
LEMMA PlainKeeps ==
  ASSUME IInv, NEW f \in Fds, Handles(f),
         m_message_handlers' \in [Fds -> Handler],
         \A g \in Fds : Sound(m_message_handlers'[g]),
         Login(f) \/ SendPong(f) \/ Stop(f) \/ Undecodable
  PROVE  IInv'
  <1>1. /\ client' = client /\ UNCHANGED m_file_handlers
        /\ UNCHANGED <<m_received_files, saved, acks, now>> /\ UNCHANGED downVars
    BY DEF Login, SendPong, Stop, Undecodable
  <1>2. /\ m_fds' \in [Fds -> BOOLEAN] /\ m_file_pending_fd' \in Fds \cup {NoFd}
        /\ m_sessions' \in [Fds -> {"none", "live", "expired"}]
    <2>1. TypeOK
      BY DEF IInv
    <2>2. CASE Login(f)
      BY <2>1, <2>2 DEF TypeOK, Login
    <2>3. CASE SendPong(f)
      BY <2>1, <2>3 DEF TypeOK, SendPong
    <2>4. CASE Stop(f)
      BY <2>1, <2>4, EndSessionType DEF TypeOK, Stop
    <2>5. CASE Undecodable
      BY <2>1, <2>5 DEF TypeOK, Undecodable, endVars
    <2> QED
      BY <2>2, <2>3, <2>4, <2>5
  <1>3. TypeOK'
    BY <1>1, <1>2, HandlesType DEF IInv, TypeOK, downVars, WorkerType
  <1>4. HandlersInv'
    BY <1>1 DEF IInv, HandlersInv
  <1>5. \A g \in Fds : Owed'[g] <= Owed[g]
    BY <1>1, HandlesOwed DEF IInv
  <1> QED
    BY <1>1, <1>3, <1>4, <1>5, QuietKeeps

LEMMA WaitForFileKeeps ==
  ASSUME IInv, NEW f \in Fds, Handles(f),
         m_message_handlers' \in [Fds -> Handler],
         \A g \in Fds : Sound(m_message_handlers'[g]),
         WaitForFile(f)
  PROVE  IInv'
  <1>1. /\ client' \in [Fds -> Client]
        /\ \A g \in Fds : /\ client'[g].owes = client[g].owes
                          /\ client'[g].want = client[g].want
                          /\ client'[g].metas = client[g].metas
    <2> DEFINE c == client[f]
               d == [c EXCEPT !.up = IF @ = "asked" THEN "ready" ELSE @]
    <2>1. client' = [client EXCEPT ![f] = d] /\ client \in [Fds -> Client]
      BY DEF WaitForFile, IInv, TypeOK
    <2> HIDE DEF c
    <2>2. c \in Client
      BY <2>1 DEF c
    <2>3. d \in Client /\ d.owes = c.owes /\ d.want = c.want /\ d.metas = c.metas
      BY <2>2 DEF Client
    <2> HIDE DEF d
    <2> QED
      BY <2>1, <2>3 DEF c
  <1>2. TypeOK'
    BY <1>1, HandlesType DEF IInv, TypeOK, WaitForFile, SetFilePending, endVars, downVars, WorkerType
  <1>3. HandlersInv'
    BY DEF IInv, HandlersInv, WaitForFile
  <1>4. \A g \in Fds : Owed'[g] <= Owed[g]
    BY <1>1, HandlesOwed DEF IInv
  <1> QED
    BY <1>2, <1>3, <1>4, QuietKeeps DEF WaitForFile

\* A file that arrives is kept and acknowledged in one step.
LEMMA FileArrivedKeeps ==
  ASSUME IInv, NEW f \in Fds, FileArrived(f)
  PROVE  /\ client' \in [Fds -> Client]
         /\ \A g \in Fds : /\ client'[g].owes = client[g].owes
                           /\ client'[g].want = client[g].want
                           /\ client'[g].metas = client[g].metas
         /\ m_received_files' \in Seq(Upload) /\ acks' \in Seq(Upload) /\ now' \in Times
         /\ m_file_pending_fd' \in Fds \cup {NoFd}
         /\ saved' = saved => AckedFileIsHeld'
  <1>1. PICK t \in now..MaxTime :
          /\ now' = t
          /\ Add([fd |-> f, time |-> t])
          /\ acks' = Append(acks, [fd |-> f, time |-> t])
          /\ client' = [client EXCEPT ![f].up = "none", ![f].times = Append(@, t)]
    BY DEF FileArrived
  <1> DEFINE u == [fd |-> f, time |-> t]
             c == client[f]
             d == [c EXCEPT !.up = "none", !.times = Append(@, t)]
  <1>2. TypeOK
    BY DEF IInv
  <1>3. t \in Times /\ u \in Upload
    BY <1>2 DEF TypeOK, Times, Upload
  <1>4. m_received_files' = Append(m_received_files, u) /\ acks' = Append(acks, u)
    BY <1>1 DEF Add
  <1>5. /\ client' \in [Fds -> Client]
        /\ \A g \in Fds : /\ client'[g].owes = client[g].owes
                          /\ client'[g].want = client[g].want
                          /\ client'[g].metas = client[g].metas
    <2>1. client' = [client EXCEPT ![f] = d] /\ client \in [Fds -> Client]
      BY <1>1, <1>2 DEF TypeOK
    <2> HIDE DEF c
    <2>2. c \in Client
      BY <2>1 DEF c
    <2>3. Append(c.times, t) \in Seq(Times)
      BY <1>3, <2>2 DEF Client
    <2>4. d \in Client /\ d.owes = c.owes /\ d.want = c.want /\ d.metas = c.metas
      BY <2>2, <2>3 DEF Client
    <2> HIDE DEF d
    <2> QED
      BY <2>1, <2>4 DEF c
  <1> HIDE DEF u
  <1>6. m_received_files' \in Seq(Upload) /\ acks' \in Seq(Upload) /\ now' \in Times
    BY <1>1, <1>2, <1>3, <1>4 DEF TypeOK
  <1>7. m_file_pending_fd' \in Fds \cup {NoFd}
    BY <1>2 DEF FileArrived, SetFileNotPending, TypeOK
  <1>8. ASSUME saved' = saved
        PROVE  AckedFileIsHeld'
    <2>1. ASSUME NEW g \in Fds, NEW s \in Times
          PROVE  Count(acks', g, s) = Count(m_received_files', g, s) + Count(saved', g, s)
      <3> DEFINE n == Bit(u.fd = g /\ u.time = s)
      <3>1. Count(acks', g, s) = Count(acks, g, s) + n
        BY <1>2, <1>3, <1>4, CountAppend DEF TypeOK
      <3>2. Count(m_received_files', g, s) = Count(m_received_files, g, s) + n
        BY <1>2, <1>3, <1>4, CountAppend DEF TypeOK
      <3>3. Count(acks, g, s) = Count(m_received_files, g, s) + Count(saved, g, s)
        BY DEF IInv, AckedFileIsHeld
      <3>4. Count(m_received_files, g, s) \in Nat /\ Count(saved, g, s) \in Nat /\ n \in Int
        BY <1>2, PlacesFinite, BitType DEF TypeOK
      <3> HIDE DEF n
      <3> QED
        BY <1>8, <3>1, <3>2, <3>3, <3>4
    <2> QED
      BY <2>1 DEF AckedFileIsHeld
  <1> QED
    BY <1>5, <1>6, <1>7, <1>8

LEMMA ReceiveFileDataKeeps ==
  ASSUME IInv, NEW f \in Fds, Handles(f), ReceiveFileData(f, worker[f].packet)
  PROVE  IInv'
  <1>1. TypeOK /\ worker[f].packet \in Part \cup Message
    BY WorkerHolds DEF IInv, Handles
  <1>2. PICK handler \in ProcessPacket(m_file_handlers[f], worker[f].packet) :
          /\ m_file_handlers' = [m_file_handlers EXCEPT ![f] = StartOver(handler)]
          /\ IF Whole(handler) THEN OnFileHandled(f)
             ELSE UNCHANGED <<m_received_files, acks, now, client, m_file_pending_fd>>
    BY DEF ReceiveFileData
  <1>3. UNCHANGED <<endVars, m_message_handlers, saved, downVars>>
    BY DEF ReceiveFileData
  <1>4. m_file_handlers[f] \in Handler /\ Sound(m_file_handlers[f])
    BY DEF IInv, TypeOK, HandlersInv
  <1>5. StartOver(handler) \in Handler /\ Sound(StartOver(handler))
    BY <1>1, <1>4, HandlerStep
  <1>6. m_file_handlers' \in [Fds -> Handler] /\ HandlersInv'
    BY <1>1, <1>2, <1>3, <1>5 DEF TypeOK, IInv, HandlersInv
  <1>7. \/ FileArrived(f)
        \/ UNCHANGED <<m_received_files, acks, now, client, m_file_pending_fd>>
    BY <1>2 DEF OnFileHandled
  <1>8. /\ client' \in [Fds -> Client]
        /\ \A g \in Fds : /\ client'[g].owes = client[g].owes
                          /\ client'[g].want = client[g].want
                          /\ client'[g].metas = client[g].metas
        /\ m_received_files' \in Seq(Upload) /\ acks' \in Seq(Upload) /\ now' \in Times
        /\ m_file_pending_fd' \in Fds \cup {NoFd}
        /\ AckedFileIsHeld'
    <2>1. CASE FileArrived(f)
      BY <1>3, <2>1, FileArrivedKeeps
    <2>2. CASE UNCHANGED <<m_received_files, acks, now, client, m_file_pending_fd>>
      BY <1>1, <1>3, <2>2, HeldKeep DEF TypeOK
    <2> QED
      BY <1>7, <2>1, <2>2
  <1>9. TypeOK'
    BY <1>1, <1>3, <1>6, <1>8, HandlesType DEF TypeOK, endVars, downVars, WorkerType
  <1>10. \A g \in Fds : Owed'[g] <= Owed[g]
    BY <1>1, <1>8, HandlesOwed
  <1>11. ClaimsInv'
    BY <1>3, <1>9, <1>10, ClaimsKeep DEF downVars
  <1>12. SentAsRequested'
    BY <1>3 DEF IInv, SentAsRequested, downVars
  <1> QED
    BY <1>6, <1>8, <1>9, <1>11, <1>12 DEF IInv

\* A file that is saved leaves the list.
LEMMA SaveReceivedKeeps ==
  ASSUME IInv, NEW i \in DOMAIN m_received_files, SaveReceived(i), acks' = acks
  PROVE  m_received_files' \in Seq(Upload) /\ saved' \in Seq(Upload) /\ AckedFileIsHeld'
  <1> DEFINE u == m_received_files[i]
  <1>1. /\ m_received_files \in Seq(Upload) /\ saved \in Seq(Upload) /\ u \in Upload
    BY DEF IInv, TypeOK
  <1>2. saved' = Append(saved, u) /\ m_received_files' = RemoveAt(m_received_files, i)
    BY DEF SaveReceived
  <1>3. m_received_files' \in Seq(Upload) /\ saved' \in Seq(Upload)
    BY <1>1, <1>2, RemoveAtType
  <1>4. ASSUME NEW g \in Fds, NEW s \in Times
        PROVE  Count(acks', g, s) = Count(m_received_files', g, s) + Count(saved', g, s)
    <2> DEFINE n == Bit(u.fd = g /\ u.time = s)
    <2>1. Count(saved', g, s) = Count(saved, g, s) + n
      BY <1>1, <1>2, CountAppend
    <2>2. Count(m_received_files, g, s) = Count(m_received_files', g, s) + n
      BY <1>1, <1>2, CountRemove
    <2>3. Count(acks, g, s) = Count(m_received_files, g, s) + Count(saved, g, s)
      BY DEF IInv, AckedFileIsHeld
    <2>4. Count(m_received_files', g, s) \in Nat /\ Count(saved, g, s) \in Nat /\ n \in Int
      BY <1>1, <1>3, PlacesFinite, BitType
    <2> HIDE DEF n
    <2> QED
      BY <2>1, <2>2, <2>3, <2>4
  <1> QED
    BY <1>3, <1>4 DEF AckedFileIsHeld

LEMMA ScheduleKeeps ==
  ASSUME IInv, NEW f \in Fds, Handles(f), NEW times \in Seq(Times),
         m_message_handlers' \in [Fds -> Handler],
         \A g \in Fds : Sound(m_message_handlers'[g]),
         ScheduleRequest(f, times)
  PROVE  IInv'
  <1>1. UNCHANGED <<client, endVars, m_file_pending_fd, acks, now, downVars>> /\ TypeOK
    BY DEF ScheduleRequest, IInv
  <1>2. /\ m_received_files' \in Seq(Upload) /\ saved' \in Seq(Upload) /\ AckedFileIsHeld'
        /\ \/ m_file_handlers' = m_file_handlers
           \/ m_file_handlers' = [m_file_handlers EXCEPT ![f] = NoHandler]
    <2>1. CASE \E k \in DOMAIN times : \E i \in FindReceived(f, times[k]) :
                 /\ SaveReceived(i)
                 /\ m_file_handlers' = IF Len(times) = 1
                                       THEN [m_file_handlers EXCEPT ![f] = NoHandler]
                                       ELSE m_file_handlers
      <3>1. PICK k \in DOMAIN times : \E i \in FindReceived(f, times[k]) : SaveReceived(i)
        BY <2>1
      <3>2. PICK i \in FindReceived(f, times[k]) : SaveReceived(i)
        BY <3>1
      <3>3. i \in DOMAIN m_received_files
        BY DEF FindReceived
      <3>4. m_received_files' \in Seq(Upload) /\ saved' \in Seq(Upload) /\ AckedFileIsHeld'
        BY <1>1, <3>2, <3>3, SaveReceivedKeeps
      <3> QED
        BY <2>1, <3>4
    <2>2. CASE UNCHANGED <<saved, m_received_files, m_file_handlers>>
      BY <1>1, <2>2, HeldKeep DEF TypeOK
    <2> QED
      BY <2>1, <2>2 DEF ScheduleRequest
  <1>3. m_file_handlers' \in [Fds -> Handler] /\ HandlersInv'
    BY <1>1, <1>2, NoHandlerSound DEF TypeOK, IInv, HandlersInv
  <1>4. TypeOK'
    BY <1>1, <1>2, <1>3, HandlesType DEF TypeOK, endVars, downVars, WorkerType
  <1>5. \A g \in Fds : Owed'[g] <= Owed[g]
    BY <1>1, HandlesOwed
  <1>6. ClaimsInv'
    BY <1>1, <1>4, <1>5, ClaimsKeep DEF downVars
  <1>7. SentAsRequested'
    BY <1>1 DEF IInv, SentAsRequested, downVars
  <1> QED
    BY <1>2, <1>3, <1>4, <1>6, <1>7 DEF IInv

-----------------------------------------------------------------------------
(***************************************************************************)
(* Downloads                                                               *)
(***************************************************************************)
\* The files of a request are one or two, and each is a file.
LEMMA FilesOfType ==
  ASSUME NEW fetch \in Requests, NEW files \in FilesOf(fetch)
  PROVE  files \in Seq(Files) /\ Len(files) \in 1..2
  <1>1. 2 * fetch - 1 \in Files /\ 2 * fetch \in Files
    BY DEF Requests, Files
  <1>2. CASE files = <<2 * fetch - 1>>
    BY <1>1, <1>2
  <1>3. CASE files = <<2 * fetch - 1, 2 * fetch>>
    BY <1>1, <1>3
  <1> QED
    BY <1>2, <1>3 DEF FilesOf

\* As many files are queued as claims are made: the first Ack, and a second.
LEMMA EnqueueKeeps ==
  ASSUME IInv, NEW f \in Fds, Handles(f), NEW files \in Seq(Files), Len(files) \in 1..2,
         m_message_handlers' \in [Fds -> Handler],
         \A g \in Fds : Sound(m_message_handlers'[g]),
         EnqueueOutbound(f, files)
  PROVE  IInv'
  <1> DEFINE n == Len(files)
             queued == [i \in DOMAIN files |-> [fd |-> f, file |-> files[i]]]
             c == client[f]
             d == [c EXCEPT !.want = n, !.owes = TRUE]
  <1>1. /\ m_outbound_files' = m_outbound_files \o queued
        /\ requested' = requested \o queued
        /\ client' = [client EXCEPT ![f] = d]
        /\ UNCHANGED <<endVars, m_file_pending_fd, m_file_handlers, m_received_files,
                       saved, acks, now, sent, emptyFront>>
    BY DEF EnqueueOutbound
  <1>2. TypeOK
    BY DEF IInv
  <1>3. queued \in Seq(Outbound) /\ Len(queued) = n /\ n \in 1..2
    <2>1. DOMAIN files = 1..n /\ n \in Nat
      OBVIOUS
    <2>2. \A i \in 1..n : [fd |-> f, file |-> files[i]] \in Outbound
      BY <2>1 DEF Outbound
    <2>3. queued \in [1..n -> Outbound]
      BY <2>1, <2>2
    <2> HIDE DEF queued
    <2> QED
      BY <2>1, <2>3
  <1> HIDE DEF queued, n
  <1>4. /\ m_outbound_files \in Seq(Outbound) /\ requested \in Seq(Outbound)
        /\ sent \in Seq(Outbound) /\ client \in [Fds -> Client]
    BY <1>2 DEF TypeOK
  <1>5. c \in Client /\ c.metas \in Nat
    BY <1>4 DEF Client
  <1>6. d \in Client /\ d.owes = TRUE /\ d.want = n /\ d.metas = c.metas
    <2>1. n \in 0..2 /\ TRUE \in BOOLEAN
      BY <1>3
    <2> HIDE DEF c
    <2> QED
      BY <1>5, <2>1 DEF Client
  <1> HIDE DEF d
  <1>7. client' \in [Fds -> Client] /\ client'[f] = d /\ \A g \in Fds \ {f} : client'[g] = client[g]
    BY <1>1, <1>4, <1>6
  <1>8. /\ m_outbound_files' \in Seq(Outbound) /\ requested' \in Seq(Outbound)
        /\ Len(m_outbound_files') = Len(m_outbound_files) + n
    BY <1>1, <1>3, <1>4, ConcatProperties
  <1>9. TypeOK'
    BY <1>1, <1>2, <1>7, <1>8, HandlesType DEF TypeOK, endVars, WorkerType
  <1>10. HandlersInv'
    BY <1>1 DEF IInv, HandlersInv
  <1>11. SentAsRequested'
    <2>1. (sent \o m_outbound_files) \o queued = sent \o (m_outbound_files \o queued)
      BY <1>3, <1>4, ConcatAssociative
    <2>2. sent \o m_outbound_files = requested /\ ~emptyFront
      BY DEF IInv, SentAsRequested
    <2> QED
      BY <1>1, <2>1, <2>2 DEF SentAsRequested
  <1>12. /\ Owed \in [Fds -> Nat] /\ Owed' \in [Fds -> Nat]
         /\ Claims(Owed)' = Claims(Owed')
    BY <1>2, <1>9, OwedTypes
  <1>13. Owed'[f] <= Owed[f] + n
    <2>1. ~Asks(worker'[f])
      BY <1>2, HandlesType
    <2>2. Owed'[f] = 1 + c.metas + Bit(n > 1)
      BY <1>3, <1>5, <1>6, <1>7, <2>1, OwedAt DEF OwedBy, Bit
    <2>3. c.metas <= Owed[f]
      BY <1>5, OwedAt DEF OwedBy, Bit
    <2> HIDE DEF c
    <2> QED
      BY <1>3, <1>5, <1>12, <2>2, <2>3 DEF Bit
  <1>14. \A g \in Fds \ {f} : Owed'[g] <= Owed[g]
    <2> TAKE g \in Fds \ {f}
    <2>1. client'[g] = client[g]
      BY <1>7
    <2> QED
      BY <1>2, <2>1, HandlesOwed
  <1> DEFINE m == [Owed EXCEPT ![f] = @ + 1]
  <1>15. /\ m \in [Fds -> Nat] /\ m[f] = Owed[f] + 1
         /\ \A g \in Fds \ {f} : m[g] = Owed[g] /\ m[g] <= Owed[g]
    BY <1>12
  <1> HIDE DEF m
  <1>16. IsFiniteSet(Claims(Owed)) /\ Cardinality(Claims(Owed)) <= Len(m_outbound_files)
    BY DEF IInv, ClaimsInv
  <1>17. IsFiniteSet(Claims(Owed')) /\ Cardinality(Claims(Owed')) <= Len(m_outbound_files')
    <2>1. CASE n = 1
      <3>1. /\ IsFiniteSet(Claims(Owed')) /\ Cardinality(Claims(Owed')) \in Nat
            /\ Cardinality(Claims(Owed)) \in Nat
            /\ Cardinality(Claims(Owed')) <= Cardinality(Claims(Owed)) + 1
        BY <1>12, <1>13, <1>14, <1>16, <2>1, ClaimsOneMore
      <3> QED
        BY <1>4, <1>8, <1>16, <2>1, <3>1
    <2>2. CASE n = 2
      <3>1. m[f] <= Owed[f] + 1 /\ \A g \in Fds \ {f} : m[g] <= Owed[g]
        BY <1>12, <1>15
      <3>2. /\ IsFiniteSet(Claims(m)) /\ Cardinality(Claims(m)) \in Nat
            /\ Cardinality(Claims(Owed)) \in Nat
            /\ Cardinality(Claims(m)) <= Cardinality(Claims(Owed)) + 1
        BY <1>12, <1>15, <1>16, <3>1, ClaimsOneMore
      <3>3. Owed'[f] <= m[f] + 1 /\ \A g \in Fds \ {f} : Owed'[g] <= m[g]
        BY <1>12, <1>13, <1>14, <1>15, <2>2
      <3>4. /\ IsFiniteSet(Claims(Owed')) /\ Cardinality(Claims(Owed')) \in Nat
            /\ Cardinality(Claims(Owed')) <= Cardinality(Claims(m)) + 1
        BY <1>12, <1>15, <3>2, <3>3, ClaimsOneMore
      <3> QED
        BY <1>4, <1>8, <1>16, <2>2, <3>2, <3>4
    <2> QED
      BY <1>3, <2>1, <2>2
  <1>18. ClaimsInv'
    BY <1>12, <1>17 DEF ClaimsInv
  <1>19. AckedFileIsHeld'
    BY <1>1, HeldKeep
  <1> QED
    BY <1>9, <1>10, <1>11, <1>18, <1>19 DEF IInv

\* Whoever sent an Ack or a Ready that is handled finds a file queued.
LEMMA QueueNotEmpty ==
  ASSUME IInv, NEW f \in Fds, Asks(worker[f])
  PROVE  /\ m_outbound_files # <<>> /\ Owed[f] > 0
         /\ OutboundNext \in Outbound /\ OutboundNext.fd \in Fds
  <1>1. Owed \in [Fds -> Nat] /\ m_outbound_files \in Seq(Outbound)
    BY OwedType DEF IInv, TypeOK
  <1>2. Owed[f] > 0
    <2>1. client[f].metas \in Nat
      BY DEF IInv, TypeOK, Client
    <2> QED
      BY <2>1, OwedAt DEF OwedBy, Bit
  <1>3. Cardinality(Claims(Owed)) \in Nat \ {0}
    BY <1>1, <1>2, ClaimedIsQueued DEF IInv, ClaimsInv
  <1>4. m_outbound_files # <<>>
    BY <1>1, <1>3 DEF IInv, ClaimsInv
  <1>5. OutboundNext \in Outbound
    BY <1>1, <1>4, HeadTailProperties DEF OutboundNext
  <1>6. OutboundNext.fd \in Fds
    BY <1>5 DEF Outbound
  <1> QED
    BY <1>2, <1>4, <1>5, <1>6

\* The metadata answers an Ack, maybe another client's: the claim passes.
LEMMA SendMetaKeeps ==
  ASSUME IInv, NEW f \in Fds, Handles(f), Asks(worker[f]),
         m_message_handlers' \in [Fds -> Handler],
         \A g \in Fds : Sound(m_message_handlers'[g]),
         SendMeta(f)
  PROVE  IInv'
  <1> DEFINE to == OutboundNext.fd
             d == [client[to] EXCEPT !.metas = IF open[to] THEN @ + 1 ELSE @]
  <1>1. /\ m_outbound_files # <<>> /\ Owed[f] > 0 /\ to \in Fds
    BY QueueNotEmpty
  <1>2. /\ client' = [client EXCEPT ![to] = d] /\ UNCHANGED emptyFront
        /\ UNCHANGED <<endVars, m_file_pending_fd, m_file_handlers, m_received_files,
                       saved, acks, now, m_outbound_files, requested, sent>>
    BY <1>1 DEF SendMeta
  <1>3. TypeOK /\ client[to] \in Client /\ client[to].metas \in Nat
    BY <1>1 DEF IInv, TypeOK, Client
  <1> HIDE DEF to
  <1>4. /\ d \in Client /\ d.owes = client[to].owes /\ d.want = client[to].want
        /\ d.metas \in {client[to].metas, client[to].metas + 1}
    <2> DEFINE c == client[to]
               k == IF open[to] THEN c.metas + 1 ELSE c.metas
    <2>1. c \in Client /\ k \in Nat /\ k \in {c.metas, c.metas + 1}
      BY <1>3
    <2>2. d = [c EXCEPT !.metas = k]
      OBVIOUS
    <2> HIDE DEF c, d, k
    <2>3. d \in Client /\ d.owes = c.owes /\ d.want = c.want /\ d.metas = k
      BY <2>1, <2>2 DEF Client
    <2> QED
      BY <2>1, <2>3 DEF c
  <1> HIDE DEF d
  <1>5. client' \in [Fds -> Client] /\ client'[to] = d /\ \A g \in Fds \ {to} : client'[g] = client[g]
    BY <1>1, <1>2, <1>3, <1>4 DEF TypeOK
  <1>6. TypeOK'
    BY <1>2, <1>3, <1>5, HandlesType DEF TypeOK, endVars, WorkerType
  <1>7. HandlersInv'
    BY <1>2 DEF IInv, HandlersInv
  <1>8. SentAsRequested'
    BY <1>2 DEF IInv, SentAsRequested
  <1>9. /\ Owed \in [Fds -> Nat] /\ Owed' \in [Fds -> Nat]
        /\ Claims(Owed)' = Claims(Owed')
    BY <1>3, <1>6, OwedTypes
  <1>10. \A g \in Fds : Owed'[g] <= Owed[g] - Bit(g = f) + Bit(g = to)
    <2> TAKE g \in Fds
    <2>1. ~Asks(worker'[f]) /\ (g # f => worker'[g] = worker[g])
      BY <1>3, HandlesType
    <2>2. Bit(Asks(worker'[g])) = Bit(Asks(worker[g])) - Bit(g = f)
      BY <2>1 DEF Bit
    <2>3. /\ client[g].metas \in Nat /\ client'[g].metas \in Nat
          /\ client'[g].owes = client[g].owes /\ client'[g].want = client[g].want
          /\ client'[g].metas <= client[g].metas + Bit(g = to)
      <3>1. CASE g = to
        BY <1>3, <1>4, <1>5, <3>1 DEF Bit
      <3>2. CASE g # to
        <4>1. client[g].metas \in Nat /\ client'[g] = client[g]
          BY <1>3, <1>5, <3>2 DEF TypeOK, Client
        <4> QED
          BY <3>2, <4>1 DEF Bit
      <3> QED
        BY <3>1, <3>2
    <2>4. Owed[g] = Bit(client[g].owes) + client[g].metas + Bit(client[g].want > 1) + Bit(Asks(worker[g]))
      BY OwedAt DEF OwedBy
    <2>5. Owed'[g] = Bit(client[g].owes) + client'[g].metas + Bit(client[g].want > 1)
                     + (Bit(Asks(worker[g])) - Bit(g = f))
      BY <2>2, <2>3, OwedAt DEF OwedBy
    <2>6. /\ Bit(client[g].owes) \in Int /\ Bit(client[g].want > 1) \in Int
          /\ Bit(Asks(worker[g])) \in Int /\ Bit(g = f) \in Int /\ Bit(g = to) \in Int
      BY BitType
    <2> QED
      BY <2>3, <2>4, <2>5, <2>6
  <1>11. /\ IsFiniteSet(Claims(Owed'))
         /\ Cardinality(Claims(Owed')) <= Cardinality(Claims(Owed))
    BY <1>1, <1>9, <1>10, ClaimPasses DEF IInv, ClaimsInv
  <1>12. Cardinality(Claims(Owed')) \in Nat /\ Cardinality(Claims(Owed)) \in Nat
         /\ Len(m_outbound_files) \in Nat
    BY <1>3, <1>11, FS_CardinalityType DEF IInv, ClaimsInv, TypeOK
  <1>13. ClaimsInv'
    BY <1>2, <1>9, <1>11, <1>12 DEF IInv, ClaimsInv
  <1>14. AckedFileIsHeld'
    BY <1>2, HeldKeep
  <1> QED
    BY <1>6, <1>7, <1>8, <1>13, <1>14 DEF IInv

\* A Ready takes a file from the queue and its claim with it; the client that
\* gets the file turns its second claim into the Ack it now owes.
LEMMA SendFileKeeps ==
  ASSUME IInv, NEW f \in Fds, Handles(f), Asks(worker[f]),
         m_message_handlers' \in [Fds -> Handler],
         \A g \in Fds : Sound(m_message_handlers'[g]),
         SendFile(f)
  PROVE  IInv'
  <1> DEFINE o == OutboundNext
             to == o.fd
             left == client[to].want - 1
             d == [client[to] EXCEPT !.want = left, !.owes = left > 0]
  <1>1. /\ m_outbound_files # <<>> /\ Owed[f] > 0 /\ o \in Outbound /\ to \in Fds
    BY QueueNotEmpty
  <1>2. /\ m_outbound_files' = Tail(m_outbound_files)
        /\ sent' = Append(sent, o)
        /\ client' = IF open[to] /\ client[to].want > 0
                     THEN [client EXCEPT ![to] = d] ELSE client
        /\ UNCHANGED emptyFront
        /\ UNCHANGED <<endVars, m_file_pending_fd, m_file_handlers, m_received_files,
                       saved, acks, now, requested>>
    BY <1>1 DEF SendFile, Dequeue
  <1>3. /\ TypeOK /\ client[to] \in Client /\ client[to].want \in 0..2
        /\ m_outbound_files \in Seq(Outbound) /\ sent \in Seq(Outbound)
    BY <1>1 DEF IInv, TypeOK, Client
  <1>4. o = Head(m_outbound_files)
    BY DEF OutboundNext
  <1> HIDE DEF o
  <1>5. client[to].want > 0 =>
          d \in Client /\ d.want = left /\ d.owes = (left > 0) /\ d.metas = client[to].metas
    <2> DEFINE c == client[to]
               more == left > 0
    <2>1. c \in Client /\ more \in BOOLEAN /\ (c.want > 0 => left \in 0..2)
      BY <1>3
    <2> HIDE DEF c, more
    <2>2. /\ d = [c EXCEPT !.want = left, !.owes = more]
      BY DEF c, more
    <2>3. c.want > 0 => d \in Client /\ d.want = left /\ d.owes = more /\ d.metas = c.metas
      <3> HIDE DEF left
      <3> QED
        BY <2>1, <2>2 DEF Client
    <2> QED
      BY <2>3 DEF c, more
  <1> HIDE DEF d
  <1>6. /\ client' \in [Fds -> Client]
        /\ \A g \in Fds : \/ client'[g] = client[g]
                          \/ /\ client[g].want > 0 /\ client'[g].want = client[g].want - 1
                             /\ client'[g].owes = (client[g].want - 1 > 0)
                             /\ client'[g].metas = client[g].metas
    <2>1. CASE open[to] /\ client[to].want > 0
      <3>1. /\ client' \in [Fds -> Client] /\ client'[to] = d
            /\ \A g \in Fds \ {to} : client'[g] = client[g]
        BY <1>1, <1>2, <1>3, <1>5, <2>1 DEF TypeOK
      <3> QED
        BY <1>5, <2>1, <3>1
    <2>2. CASE ~(open[to] /\ client[to].want > 0)
      BY <1>2, <1>3, <2>2 DEF TypeOK
    <2> QED
      BY <2>1, <2>2
  <1>7. /\ m_outbound_files' \in Seq(Outbound) /\ sent' \in Seq(Outbound)
        /\ Len(m_outbound_files') = Len(m_outbound_files) - 1
    BY <1>1, <1>2, <1>3
  <1>8. TypeOK'
    BY <1>2, <1>3, <1>6, <1>7, HandlesType DEF TypeOK, endVars, WorkerType
  <1>9. HandlersInv'
    BY <1>2 DEF IInv, HandlersInv
  <1>10. SentAsRequested'
    <2>1. m_outbound_files = <<o>> \o Tail(m_outbound_files)
      BY <1>1, <1>3, <1>4
    <2>2. <<o>> \in Seq(Outbound) /\ Tail(m_outbound_files) \in Seq(Outbound)
      BY <1>1, <1>2, <1>7
    <2>3. Append(sent, o) = sent \o <<o>>
      BY <1>1, <1>3, AppendIsConcat
    <2>4. (sent \o <<o>>) \o Tail(m_outbound_files) = sent \o (<<o>> \o Tail(m_outbound_files))
      BY <1>3, <2>2, ConcatAssociative
    <2>5. sent' \o m_outbound_files' = sent \o m_outbound_files
      BY <1>2, <2>1, <2>3, <2>4
    <2> QED
      BY <1>2, <2>5 DEF IInv, SentAsRequested
  <1>11. /\ Owed \in [Fds -> Nat] /\ Owed' \in [Fds -> Nat]
         /\ Claims(Owed)' = Claims(Owed')
    BY <1>3, <1>8, OwedTypes
  <1>12. \A g \in Fds : Owed'[g] <= Owed[g] - Bit(g = f)
    <2> TAKE g \in Fds
    <2>1. ~Asks(worker'[f]) /\ (g # f => worker'[g] = worker[g])
      BY <1>3, HandlesType
    <2>2. Bit(Asks(worker'[g])) = Bit(Asks(worker[g])) - Bit(g = f)
      BY <2>1 DEF Bit
    <2> DEFINE a == Bit(client[g].owes) + Bit(client[g].want > 1)
               b == Bit(client'[g].owes) + Bit(client'[g].want > 1)
    <2>3. client[g].metas \in Nat /\ client'[g].metas = client[g].metas /\ client[g].want \in 0..2
      BY <1>3, <1>6 DEF TypeOK, Client
    <2>4. a \in Int /\ b \in Int /\ b <= a
      <3>1. CASE client'[g] = client[g]
        BY <3>1 DEF Bit
      <3>2. CASE /\ client[g].want > 0 /\ client'[g].want = client[g].want - 1
                 /\ client'[g].owes = (client[g].want - 1 > 0)
        <4>1. CASE client[g].want = 1
          <5>1. ~client'[g].owes /\ ~(client'[g].want > 1)
            <6> DEFINE more == client[g].want - 1 > 0
            <6>1. ~more /\ ~(client'[g].want > 1)
              BY <3>2, <4>1
            <6>2. client'[g].owes = more
              BY <3>2
            <6> HIDE DEF more
            <6> QED
              BY <6>1, <6>2, Zenon
          <5>2. Bit(client'[g].owes) = 0 /\ Bit(client'[g].want > 1) = 0
            BY <5>1 DEF Bit
          <5> QED
            BY <5>2, BitType
        <4>2. CASE client[g].want = 2
          <5>1. ~(client'[g].want > 1) /\ client[g].want > 1
            BY <3>2, <4>2
          <5>2. Bit(client'[g].want > 1) = 0 /\ Bit(client[g].want > 1) = 1
            BY <5>1 DEF Bit
          <5> QED
            BY <5>2, BitType
        <4> QED
          BY <2>3, <3>2, <4>1, <4>2
      <3> QED
        BY <1>6, <3>1, <3>2
    <2>5. /\ Bit(client[g].owes) \in Int /\ Bit(client[g].want > 1) \in Int
          /\ Bit(client'[g].owes) \in Int /\ Bit(client'[g].want > 1) \in Int
          /\ Bit(Asks(worker[g])) \in Int /\ Bit(g = f) \in Int
      BY BitType
    <2>6. Owed[g] = a + client[g].metas + Bit(Asks(worker[g]))
      BY <2>3, <2>5, OwedAt DEF OwedBy
    <2>7. Owed'[g] = b + client[g].metas + (Bit(Asks(worker[g])) - Bit(g = f))
      BY <2>2, <2>3, <2>5, OwedAt DEF OwedBy
    <2> HIDE DEF a, b
    <2> QED
      BY <2>3, <2>4, <2>5, <2>6, <2>7
  <1>13. Owed'[f] < Owed[f] /\ \A g \in Fds : Owed'[g] <= Owed[g]
    BY <1>11, <1>12 DEF Bit
  <1>14. /\ IsFiniteSet(Claims(Owed')) /\ Cardinality(Claims(Owed')) \in Nat
         /\ Cardinality(Claims(Owed)) \in Nat
         /\ Cardinality(Claims(Owed')) + 1 <= Cardinality(Claims(Owed))
    BY <1>11, <1>13, ClaimsOneFewer DEF IInv, ClaimsInv
  <1>15. ClaimsInv'
    <2>1. Cardinality(Claims(Owed)) <= Len(m_outbound_files) /\ Len(m_outbound_files) \in Nat
      BY <1>3 DEF IInv, ClaimsInv
    <2> QED
      BY <1>7, <1>11, <1>14, <2>1 DEF ClaimsInv
  <1>16. AckedFileIsHeld'
    BY <1>2, HeldKeep
  <1> QED
    BY <1>8, <1>9, <1>10, <1>15, <1>16 DEF IInv

-----------------------------------------------------------------------------
(***************************************************************************)
(* The invariant is inductive                                              *)
(***************************************************************************)
LEMMA OnMessageReceivedKeeps ==
  ASSUME IInv, NEW f \in Fds, OnMessageReceived(f)
  PROVE  IInv'
  <1> DEFINE p == worker[f].packet
  <1>1. Handles(f) /\ worker[f].pc = "handle"
    BY DEF OnMessageReceived, Handles
  <1>2. p \in Part \cup Message
    BY <1>1, WorkerHolds DEF IInv
  <1>3. CASE ReceiveFileData(f, p)
    BY <1>1, <1>3, ReceiveFileDataKeeps
  <1>4. CASE ReceiveMessage(f, p)
    <2>1. PICK handler \in ProcessPacket(m_message_handlers[f], p) :
            /\ m_message_handlers' = [m_message_handlers EXCEPT ![f] = StartOver(handler)]
            /\ ProcessMessage(f, p) \/ Undecodable
      BY <1>4 DEF ReceiveMessage
    <2>2. /\ m_message_handlers' \in [Fds -> Handler]
          /\ \A g \in Fds : Sound(m_message_handlers'[g])
      BY <1>1, <2>1, MessageHandlers
    <2>3. CASE Login(f) \/ SendPong(f) \/ Stop(f) \/ Undecodable
      BY <1>1, <2>2, <2>3, PlainKeeps
    <2>4. CASE WaitForFile(f)
      BY <1>1, <2>2, <2>4, WaitForFileKeeps
    <2>5. CASE p.kind = "schedule" /\ ScheduleRequest(f, p.files)
      <3>1. p.files \in Seq(Times)
        BY <1>2, <2>5, MessageFields
      <3> QED
        BY <1>1, <2>2, <2>5, <3>1, ScheduleKeeps
    <2>6. CASE p.kind = "fetch" /\ \E files \in FilesOf(p.fetch) : EnqueueOutbound(f, files)
      <3>1. PICK files \in FilesOf(p.fetch) : EnqueueOutbound(f, files)
        BY <2>6
      <3>2. p.fetch \in Requests
        BY <1>2, <2>6, MessageFields
      <3>3. files \in Seq(Files) /\ Len(files) \in 1..2
        BY <3>2, FilesOfType
      <3> QED
        BY <1>1, <2>2, <3>1, <3>3, EnqueueKeeps
    <2>7. CASE p.kind = "ack" /\ SendMeta(f)
      <3>1. Asks(worker[f])
        BY <1>1, <2>7 DEF Asks
      <3> QED
        BY <1>1, <2>2, <2>7, <3>1, SendMetaKeeps
    <2>8. CASE p.kind = "ready" /\ SendFile(f)
      <3>1. Asks(worker[f])
        BY <1>1, <2>8 DEF Asks
      <3> QED
        BY <1>1, <2>2, <2>8, <3>1, SendFileKeeps
    <2> HIDE DEF p
    <2> QED
      BY <2>1, <2>3, <2>4, <2>5, <2>6, <2>7, <2>8 DEF ProcessMessage
  <1> QED
    BY <1>3, <1>4 DEF OnMessageReceived

LEMMA InitHolds == Init => IInv
  <1> SUFFICES ASSUME Init
               PROVE  IInv
    OBVIOUS
  <1>1. TypeOK
    <2>1. <<>> \in Seq(Upload) /\ <<>> \in Seq(Outbound) /\ 0 \in 0..MaxConns /\ 1 \in Times
      BY DEF Times
    <2>2. todo \in [uploads : 0..MaxRequests, fetches : 0..MaxRequests]
      BY DEF Init
    <2> QED
      BY <2>1, <2>2, NewClientType, NoHandlerSound DEF Init, TypeOK
  <1>2. HandlersInv
    BY NoHandlerSound DEF Init, HandlersInv
  <1>3. AckedFileIsHeld
    <2>1. \A f, t : Places(<<>>, f, t) = {}
      BY DEF Places
    <2>2. <<>> \in Seq(Upload)
      OBVIOUS
    <2>3. \A f, t : Count(<<>>, f, t) = 0
      BY <2>1, <2>2, PlacesFinite, FS_EmptySet
    <2> QED
      BY <2>3 DEF Init, AckedFileIsHeld
  <1>4. SentAsRequested
    BY DEF Init, SentAsRequested
  <1>5. ClaimsInv
    <2>1. Owed \in [Fds -> Nat] /\ \A f \in Fds : Owed[f] = 0
      <3>1. \A f \in Fds : ~Asks(worker[f]) /\ client[f] = NewClient
        BY DEF Init, Asks
      <3> QED
        BY <1>1, <3>1, OwedType, OwedAt DEF OwedBy, Bit, NewClient
    <2>2. Claims(Owed) = {}
      BY <2>1, ClaimsHas
    <2>3. Len(m_outbound_files) = 0
      BY DEF Init
    <2> QED
      BY <2>2, <2>3, FS_EmptySet DEF ClaimsInv
  <1> QED
    BY <1>1, <1>2, <1>3, <1>4, <1>5 DEF IInv

LEMMA NextKeeps == IInv /\ [Next]_vars => IInv'
  <1> SUFFICES ASSUME IInv, [Next]_vars
               PROVE  IInv'
    OBVIOUS
  <1>1. ASSUME NEW f \in Fds, Accept(f) PROVE IInv'
    BY <1>1, AcceptKeeps
  <1>2. ASSUME NEW f \in Fds, WorkerStep(f) PROVE IInv'
    BY <1>2, CloseRevokedKeeps, RecvDataKeeps, OnMessageReceivedKeeps, RecvClosedKeeps
       DEF WorkerStep
  <1>3. ASSUME NEW f \in Fds, Hangup(f) \/ Expire(f) \/ Sweep(f) PROVE IInv'
    BY <1>3, UnaskedKeeps
  <1>4. CASE UNCHANGED vars
    <2>1. /\ UNCHANGED <<netVars, client, endVars, worker, uploadVars, downVars, todo>>
      BY <1>4 DEF vars
    <2>2. TypeOK'
      BY <2>1 DEF IInv, TypeOK, netVars, endVars, uploadVars, downVars
    <2>3. HandlersInv'
      BY <2>1 DEF IInv, HandlersInv, uploadVars
    <2>4. \A g \in Fds : Owed'[g] <= Owed[g]
      <3>1. Owed' = Owed /\ Owed \in [Fds -> Nat]
        BY <2>1, OwedType DEF IInv, Owed
      <3> QED
        BY <3>1
    <2> QED
      BY <2>1, <2>2, <2>3, <2>4, QuietKeeps DEF uploadVars
  <1> QED
    BY <1>1, <1>2, <1>3, <1>4 DEF Next

LEMMA Inductive == Spec => []IInv
  BY InitHolds, NextKeeps, PTL DEF Spec

\* The variables keep their types, through every handler and for any number
\* of descriptors, packets of a file, requests and seconds.
THEOREM TypeCorrect == Spec => []TypeOK
  <1>1. IInv => TypeOK
    BY DEF IInv
  <1> QED
    BY <1>1, Inductive, PTL

\* A file the client was told of is kept or saved, as often as it was told
\* (OnFileHandled, on_file_update): whatever the other workers do between.
THEOREM AckedFileIsHeldCorrect == Spec => []AckedFileIsHeld
  <1>1. IInv => AckedFileIsHeld
    BY DEF IInv
  <1> QED
    BY <1>1, Inductive, PTL

\* The one queue of downloads gives every file once and in order to the
\* descriptor that asked, and on_files_send_ack and on_files_send_ready never
\* use the front of an empty queue, as long as clients follow the protocol.
THEOREM SentAsRequestedCorrect == Spec => []SentAsRequested
  <1>1. IInv => SentAsRequested
    BY DEF IInv
  <1> QED
    BY <1>1, Inductive, PTL

=============================================================================
