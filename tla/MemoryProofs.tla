--------------------------- MODULE MemoryProofs ---------------------------
(***************************************************************************)
(* The memory of documents and of their output.                            *)
(*                                                                         *)
(* That no two blocks of a pool share a byte, for every alignment, header, *)
(* capacity, size and choice of addresses.  BlocksApart is not inductive:  *)
(* that a block which ends where the newest chunk is free lies in that     *)
(* chunk, and not in another that happens to end there, follows from the   *)
(* chunks lying apart, each behind a header (Good).                        *)
(*                                                                         *)
(* That the buffer holds the output and nothing but it below its top, for  *)
(* every initial capacity, set of symbols and length of the output.  What  *)
(* BufferHoldsOutput says of the taken cells is inductive once the cells   *)
(* and the output are known to be sequences (BufferInv); what it says of   *)
(* GetString follows, since pushing the zero is one more push.             *)
(***************************************************************************)
EXTENDS MemoryPool, OutputBuffer, TLAPS

-----------------------------------------------------------------------------
(* The output buffer.                                                      *)

BufferCells == Symbols \cup {Garbage, Zero}

BufferInv ==
  /\ cells \in Seq(BufferCells)
  /\ output \in Seq(Symbols)
  /\ top = Len(output) /\ top <= Len(cells)
  /\ \A i \in 1 .. top : cells[i] = output[i]

USE BufferAssumption

\* Realloc gives as many cells as asked for and keeps those it had.
LEMMA ReallocKeeps ==
  ASSUME NEW old \in Seq(BufferCells), NEW capacity \in Nat
  PROVE  LET new == CrtRealloc(old, capacity)
         IN  /\ new \in Seq(BufferCells) /\ Len(new) = capacity
             /\ \A i \in 1 .. capacity : i <= Len(old) => new[i] = old[i]
  <1> DEFINE new == CrtRealloc(old, capacity)
  <1>1. new = [i \in 1 .. capacity |-> IF i <= Len(old) THEN old[i] ELSE Garbage]
    BY DEF CrtRealloc
  <1>2. \A i \in 1 .. capacity :
          (IF i <= Len(old) THEN old[i] ELSE Garbage) \in BufferCells
    BY DEF BufferCells
  <1>3. new \in [1 .. capacity -> BufferCells]
    BY <1>1, <1>2
  <1>4. new \in Seq(BufferCells) /\ Len(new) = capacity
    BY <1>3
  <1>5. \A i \in 1 .. capacity : i <= Len(old) => new[i] = old[i]
    BY <1>1
  <1> QED
    BY <1>4, <1>5

\* Reserve makes room and loses nothing: half as many cells again may be too
\* few, and what is needed may be fewer than there are.
LEMMA ReserveKeeps ==
  ASSUME BufferInv, NEW count \in Nat
  PROVE  LET room == Reserved(count)
         IN  /\ room \in Seq(BufferCells) /\ Len(room) >= top + count
             /\ \A i \in 1 .. top : room[i] = cells[i]
  <1> DEFINE room == Reserved(count)
             grown == IF cells = <<>> THEN InitialCapacity
                      ELSE Len(cells) + ((Len(cells) + 1) \div 2)
             capacity == IF grown < top + count THEN top + count ELSE grown
  <1>1. Len(cells) \in Nat /\ top \in Nat /\ cells \in Seq(BufferCells) /\ top <= Len(cells)
    BY DEF BufferInv
  <1>2. CASE count > Len(cells) - top
    <2>1. grown \in Nat
      BY <1>1
    <2>2. capacity \in Nat /\ capacity >= top + count
      BY <1>1, <2>1
    <2>3. room = CrtRealloc(cells, capacity)
      BY <1>2 DEF Reserved, Expanded
    <2>4. /\ room \in Seq(BufferCells) /\ Len(room) = capacity
          /\ \A i \in 1 .. capacity : i <= Len(cells) => room[i] = cells[i]
      <3> HIDE DEF capacity, room
      <3> QED
        BY <1>1, <2>2, <2>3, ReallocKeeps
    <2> QED
      <3> HIDE DEF capacity
      <3> QED
        BY <1>1, <2>2, <2>4
  <1>3. CASE ~(count > Len(cells) - top)
    BY <1>1, <1>3 DEF Reserved
  <1> QED
    BY <1>2, <1>3

\* A push keeps what is below the top and puts what is pushed above it.
LEMMA PushKeeps ==
  ASSUME BufferInv, NEW symbols \in Seq(BufferCells)
  PROVE  LET new == Pushed(symbols)
             n   == Len(symbols)
         IN  /\ new \in Seq(BufferCells) /\ Len(new) >= top + n
             /\ \A i \in 1 .. top : new[i] = output[i]
             /\ \A i \in 1 .. n : new[top + i] = symbols[i]
  <1> DEFINE n == Len(symbols)
             room == Reserved(n)
             new == Pushed(symbols)
  <1>1. top \in Nat /\ n \in Nat
    BY DEF BufferInv
  <1>2. /\ room \in Seq(BufferCells) /\ Len(room) >= top + n
        /\ \A i \in 1 .. top : room[i] = cells[i]
    BY <1>1, ReserveKeeps
  <1>3. new = [i \in DOMAIN room |->
                 IF i > top /\ i <= top + n THEN symbols[i - top] ELSE room[i]]
    BY DEF Pushed
  <1> HIDE DEF room, new
  <1>4. DOMAIN room = 1 .. Len(room) /\ Len(room) \in Nat
    BY <1>2
  <1>5. \A i \in 1 .. Len(room) :
          (IF i > top /\ i <= top + n THEN symbols[i - top] ELSE room[i]) \in BufferCells
    BY <1>1, <1>2, <1>4
  <1>6. new \in [1 .. Len(room) -> BufferCells]
    BY <1>3, <1>4, <1>5
  <1>7. new \in Seq(BufferCells) /\ Len(new) = Len(room)
    BY <1>4, <1>6
  <1>8. \A i \in 1 .. top : new[i] = output[i]
    BY <1>1, <1>2, <1>3, <1>4 DEF BufferInv
  <1>9. \A i \in 1 .. n : new[top + i] = symbols[i]
    BY <1>1, <1>2, <1>3, <1>4
  <1> QED
    BY <1>2, <1>7, <1>8, <1>9 DEF new

\* The zero that ends a string is one more symbol above the top.
LEMMA ZeroPushed ==
  ASSUME BufferInv
  PROVE  LET new == Pushed(<< Zero >>)
         IN  /\ new \in Seq(BufferCells) /\ Len(new) >= top + 1
             /\ \A i \in 1 .. top : new[i] = output[i]
             /\ new[top + 1] = Zero
  <1>1. << Zero >> \in Seq(BufferCells) /\ Len(<< Zero >>) = 1 /\ << Zero >>[1] = Zero
    BY DEF BufferCells
  <1> DEFINE zero == << Zero >>
  <1> HIDE DEF zero
  <1>2. zero \in Seq(BufferCells) /\ Len(zero) = 1 /\ zero[1] = Zero
    BY <1>1 DEF zero
  <1>3. /\ Pushed(zero) \in Seq(BufferCells) /\ Len(Pushed(zero)) >= top + 1
        /\ \A i \in 1 .. top : Pushed(zero)[i] = output[i]
        /\ \A i \in 1 .. 1 : Pushed(zero)[top + i] = zero[i]
    BY <1>2, PushKeeps
  <1> QED
    BY <1>2, <1>3 DEF zero

\* Put and the writer's strings: what is put follows what was there.
LEMMA PutKeeps ==
  ASSUME BufferInv, NEW symbols \in Seq(Symbols), PutAll(symbols)
  PROVE  BufferInv'
  <1>1. symbols \in Seq(BufferCells)
    BY DEF BufferCells
  <1> DEFINE new == Pushed(symbols)
             n == Len(symbols)
  <1>2. /\ new \in Seq(BufferCells) /\ Len(new) >= top + n
        /\ \A i \in 1 .. top : new[i] = output[i]
        /\ \A i \in 1 .. n : new[top + i] = symbols[i]
    BY <1>1, PushKeeps
  <1> HIDE DEF new
  <1>3. cells' = new /\ top' = top + n /\ output' = output \o symbols
    BY DEF PutAll, new
  <1>4. top = Len(output) /\ top \in Nat /\ n \in Nat /\ output \in Seq(Symbols)
    BY DEF BufferInv
  <1>5. output' \in Seq(Symbols) /\ Len(output') = top + n
    BY <1>3, <1>4
  <1>6. ASSUME NEW i \in 1 .. top'
        PROVE  cells'[i] = output'[i]
    <2>1. CASE i <= top
      <3>1. output'[i] = output[i]
        BY <1>3, <1>4, <2>1
      <3> QED
        BY <1>2, <1>3, <1>4, <2>1, <3>1
    <2>2. CASE i > top
      <3>1. output'[i] = symbols[i - top]
        BY <1>3, <1>4, <2>2
      <3>2. i - top \in 1 .. n /\ top + (i - top) = i
        BY <1>3, <1>4, <2>2
      <3>3. new[top + (i - top)] = symbols[i - top]
        BY <1>2, <3>2
      <3> QED
        BY <1>3, <3>1, <3>2, <3>3
    <2> QED
      BY <1>3, <1>4, <2>1, <2>2
  <1> QED
    BY <1>2, <1>3, <1>5, <1>6 DEF BufferInv

\* Pop forgets the newest symbols; the cells they were in stay.
LEMMA PopKeeps ==
  ASSUME BufferInv, NEW count \in Nat, PopOff(count)
  PROVE  BufferInv'
  <1> DEFINE m == top - count
  <1>1. /\ top = Len(output) /\ top \in Nat /\ m \in Nat /\ m <= top
        /\ cells' = cells /\ top' = m /\ output' = SubSeq(output, 1, m)
    BY DEF BufferInv, PopOff
  <1>2. output \in Seq(Symbols) /\ cells \in Seq(BufferCells) /\ Len(cells) \in Nat
    BY DEF BufferInv
  <1> HIDE DEF m
  <1>3. output' \in Seq(Symbols) /\ Len(output') = m
    BY <1>1, <1>2
  <1>4. \A i \in 1 .. m : output'[i] = output[i]
    BY <1>1, <1>2
  <1> QED
    BY <1>1, <1>2, <1>3, <1>4 DEF BufferInv

\* Shrinking keeps the cells up to the zero, which is above the top.
LEMMA FitKeeps ==
  ASSUME BufferInv, ShrinkToFit
  PROVE  BufferInv'
  <1> DEFINE new == Pushed(<< Zero >>)
  <1>1. /\ new \in Seq(BufferCells) /\ Len(new) >= top + 1
        /\ \A i \in 1 .. top : new[i] = output[i]
    BY ZeroPushed
  <1> HIDE DEF new
  <1>2. cells' = SubSeq(new, 1, top + 1) /\ top' = top /\ output' = output
    BY DEF ShrinkToFit, new
  <1>3. top \in Nat /\ output \in Seq(Symbols) /\ top = Len(output)
    BY DEF BufferInv
  <1>4. cells' \in Seq(BufferCells) /\ Len(cells') = top + 1
    BY <1>1, <1>2, <1>3
  <1>5. \A i \in 1 .. top : cells'[i] = new[i]
    BY <1>1, <1>2, <1>3
  <1> QED
    BY <1>1, <1>2, <1>3, <1>4, <1>5 DEF BufferInv

LEMMA BufferStepKeeps == BufferInv /\ [BufferNext]_bufferVars => BufferInv'
  <1> SUFFICES ASSUME BufferInv, [BufferNext]_bufferVars
               PROVE  BufferInv'
    OBVIOUS
  <1>1. ASSUME NEW s \in Symbols, PutAll(<< s >>) \/ PutAll(<< s, s, s >>)
        PROVE  BufferInv'
    <2>1. << s >> \in Seq(Symbols) /\ << s, s, s >> \in Seq(Symbols)
      OBVIOUS
    <2> QED
      BY <1>1, <2>1, PutKeeps
  <1>2. ASSUME NEW n \in 1 .. MaxOutput, Reserve(n)
        PROVE  BufferInv'
    <2>1. n \in Nat /\ top \in Nat
      BY DEF BufferInv
    <2>2. /\ Reserved(n) \in Seq(BufferCells) /\ Len(Reserved(n)) >= top + n
          /\ \A i \in 1 .. top : Reserved(n)[i] = cells[i]
      BY <2>1, ReserveKeeps
    <2>3. cells' = Reserved(n) /\ top' = top /\ output' = output
      BY <1>2 DEF Reserve
    <2> QED
      BY <2>1, <2>2, <2>3 DEF BufferInv
  <1>3. ASSUME NEW n \in 1 .. 2, PopOff(n)
        PROVE  BufferInv'
    BY <1>3, PopKeeps
  <1>4. CASE ClearBuffer
    BY <1>4 DEF ClearBuffer, BufferInv
  <1>5. CASE ShrinkToFit
    BY <1>5, FitKeeps
  <1>6. CASE EndString
    BY <1>6, ZeroPushed DEF EndString, BufferInv
  <1>7. CASE UNCHANGED bufferVars
    BY <1>7 DEF bufferVars, BufferInv
  <1> QED
    BY <1>1, <1>2, <1>3, <1>4, <1>5, <1>6, <1>7 DEF BufferNext

\* What the invariant says of the cells, as the property states it.
LEMMA HoldsOutput == BufferInv => BufferHoldsOutput
  <1> SUFFICES ASSUME BufferInv
               PROVE  BufferHoldsOutput
    OBVIOUS
  <1> DEFINE new == Pushed(<< Zero >>)
  <1>1. /\ new \in Seq(BufferCells) /\ Len(new) >= top + 1
        /\ \A i \in 1 .. top : new[i] = output[i]
        /\ new[top + 1] = Zero
    BY ZeroPushed
  <1>2. /\ top = Len(output) /\ top \in Nat /\ top <= Len(cells)
        /\ output \in Seq(Symbols) /\ cells \in Seq(BufferCells)
        /\ \A i \in 1 .. top : cells[i] = output[i]
    BY DEF BufferInv
  <1>3. SubSeq(cells, 1, top) = output
    <2> DEFINE taken == SubSeq(cells, 1, top)
    <2>1. /\ taken \in Seq(BufferCells) /\ Len(taken) = top
          /\ \A i \in 1 .. top : taken[i] = output[i]
      BY <1>2
    <2>2. output \in Seq(BufferCells)
      BY <1>2 DEF BufferCells
    <2> HIDE DEF taken
    <2>3. taken = output
      BY <1>2, <2>1, <2>2
    <2> QED
      BY <2>3 DEF taken
  <1>4. GetString = Append(output, Zero)
    <2> HIDE DEF new
    <2> DEFINE str == SubSeq(new, 1, top + 1)
               end == Append(output, Zero)
    <2>1. GetString = str
      BY DEF GetString, new
    <2>2. str \in Seq(BufferCells) /\ Len(str) = top + 1
      BY <1>1, <1>2
    <2>3. output \in Seq(BufferCells) /\ Zero \in BufferCells
      BY <1>2 DEF BufferCells
    <2>4. end \in Seq(BufferCells) /\ Len(end) = top + 1
      BY <1>2, <2>3
    <2>5. \A i \in 1 .. top + 1 : str[i] = end[i]
      BY <1>1, <1>2, <2>3
    <2> HIDE DEF str, end
    <2>6. str = end
      BY <1>2, <2>2, <2>4, <2>5
    <2> QED
      BY <2>1, <2>6 DEF end
  <1> QED
    BY <1>2, <1>3, <1>4 DEF BufferHoldsOutput

\* Whatever is written, popped, reserved, shrunk and read, the buffer holds
\* the output, and GetString returns it with its end (internal/stack.h,
\* stringbuffer.h), for every initial capacity, alphabet and length.
THEOREM BufferSafe == BufferSpec => []BufferHoldsOutput
  <1>1. BufferInit => BufferInv
    BY DEF BufferInit, BufferInv
  <1>2. BufferInv /\ [BufferNext]_bufferVars => BufferInv'
    BY BufferStepKeeps
  <1>3. BufferInv => BufferHoldsOutput
    BY HoldsOutput
  <1> QED
    BY <1>1, <1>2, <1>3, PTL DEF BufferSpec

-----------------------------------------------------------------------------
(* The pool.                                                               *)

\* The two halves of the inductive invariant, of any list of chunks and set
\* of blocks.
Good(cs) ==
  /\ cs \in Seq(Chunks) /\ cs # <<>>
  /\ \A i \in DOMAIN cs : cs[i].size <= cs[i].capacity
  /\ \A i, j \in DOMAIN cs : i # j =>
       Apart(cs[i].base - Header, cs[i].base + cs[i].capacity,
             cs[j].base - Header, cs[j].base + cs[j].capacity)

Held(bs, cs) ==
  /\ bs \subseteq Blocks
  /\ \A b \in bs : b.size # 0
  /\ \A b \in bs : \E i \in DOMAIN cs : InChunk(b, cs[i])
  /\ \A b, c \in bs : b # c => Apart(b.ptr, BlockEnd(b), c.ptr, BlockEnd(c))

PoolInv == Good(chunks) /\ Held(blocks, chunks)

USE AlignmentAssumption, HeaderAssumption, CapacityAssumption

\* Rounding up loses no byte (RAPIDJSON_ALIGN).
LEMMA AlignUp ==
  ASSUME NEW n \in Nat
  PROVE  Align(n) \in Nat /\ Align(n) >= n
  <1> DEFINE q == (n + Alignment - 1) \div Alignment
  <1>1. n + Alignment - 1 = q * Alignment + ((n + Alignment - 1) % Alignment)
    OBVIOUS
  <1>2. q \in Nat /\ (n + Alignment - 1) % Alignment \in 0 .. Alignment - 1
    OBVIOUS
  <1>3. q * Alignment \in Nat
    BY <1>2
  <1>4. q * Alignment >= n
    BY <1>1, <1>2, <1>3
  <1> QED
    BY <1>3, <1>4 DEF Align

\* The fields of a chunk are numbers (ChunkHeader).
LEMMA ChunkFields ==
  ASSUME NEW c \in Chunks
  PROVE  c.base \in Nat /\ c.capacity \in Nat /\ c.size \in Nat
  BY DEF Chunks

\* Malloc moves the end of what is taken and nothing else of a chunk.
LEMMA ChunkTaken ==
  ASSUME NEW c \in Chunks, NEW size \in Nat
  PROVE  /\ Fuller(c, size) \in Chunks
         /\ Fuller(c, size).base = c.base /\ Fuller(c, size).capacity = c.capacity
         /\ Fuller(c, size).size = c.size + size
  BY DEF Chunks, Fuller

\* What Malloc does to the newest chunk: it takes some of its free bytes and
\* nothing else changes.
LEMMA TakeGood ==
  ASSUME Good(chunks), NEW size \in Nat, Fits(size)
  PROVE  LET L == Len(chunks)
             ds == Taken(size)
         IN  /\ Good(ds) /\ DOMAIN ds = DOMAIN chunks /\ L \in DOMAIN chunks
             /\ \A i \in DOMAIN chunks : ds[i].base = chunks[i].base /\ ds[i].size >= chunks[i].size
             /\ ds[L].size = chunks[L].size + size
  <1> DEFINE cs == chunks
             ds == Taken(size)
             L == Len(cs)
  <1>1. cs \in Seq(Chunks) /\ L \in Nat /\ L # 0 /\ L \in DOMAIN cs
    BY DEF Good
  <1>2. \A i \in DOMAIN cs : /\ cs[i] \in Chunks /\ cs[i].base \in Nat
                             /\ cs[i].capacity \in Nat /\ cs[i].size \in Nat
    <2>1. \A i \in DOMAIN cs : cs[i] \in Chunks
      BY <1>1
    <2> QED
      BY <2>1, ChunkFields
  <1>3. DOMAIN ds = DOMAIN cs /\ Len(ds) = L
    BY <1>1 DEF Taken
  <1>4. ds[L] = Fuller(cs[L], size) /\ \A i \in DOMAIN cs : i # L => ds[i] = cs[i]
    BY <1>1 DEF Taken
  <1>5. /\ ds[L].base = cs[L].base /\ ds[L].capacity = cs[L].capacity
        /\ ds[L].size = cs[L].size + size /\ ds[L] \in Chunks
    <2>1. cs[L] \in Chunks /\ ds[L] = Fuller(cs[L], size)
      BY <1>1, <1>2, <1>4
    <2>2. /\ Fuller(cs[L], size) \in Chunks
          /\ Fuller(cs[L], size).base = cs[L].base /\ Fuller(cs[L], size).capacity = cs[L].capacity
          /\ Fuller(cs[L], size).size = cs[L].size + size
      BY <2>1, ChunkTaken
    <2> QED
      BY <2>1, <2>2
  <1>7. \A i \in DOMAIN cs : /\ ds[i].base = cs[i].base
                             /\ ds[i].capacity = cs[i].capacity
                             /\ ds[i].size >= cs[i].size
                             /\ ds[i].size <= ds[i].capacity
    BY <1>1, <1>2, <1>4, <1>5 DEF Good, Fits, HeadChunk
  <1>8. ds \in Seq(Chunks) /\ ds # <<>>
    BY <1>1, <1>2, <1>3, <1>4, <1>5 DEF Taken
  <1>9. \A i, j \in DOMAIN ds : i # j =>
          Apart(ds[i].base - Header, ds[i].base + ds[i].capacity,
                ds[j].base - Header, ds[j].base + ds[j].capacity)
    BY <1>3, <1>7 DEF Good
  <1> QED
    BY <1>1, <1>3, <1>5, <1>7, <1>8, <1>9 DEF Good

\* What AddChunk does to the list.
LEMMA AppendGood ==
  ASSUME NEW cs, Good(cs), NEW c \in Chunks, c.size <= c.capacity,
         \A i \in DOMAIN cs : Apart(c.base - Header, c.base + c.capacity,
                                    cs[i].base - Header, cs[i].base + cs[i].capacity)
  PROVE  Good(Append(cs, c))
  <1> DEFINE ds == Append(cs, c)
  <1>1. cs \in Seq(Chunks) /\ Len(cs) \in Nat /\ DOMAIN cs = 1 .. Len(cs)
    BY DEF Good
  <1>2. /\ ds \in Seq(Chunks) /\ ds # <<>> /\ DOMAIN ds = 1 .. Len(cs) + 1
        /\ ds[Len(cs) + 1] = c /\ \A i \in DOMAIN cs : ds[i] = cs[i]
    BY <1>1
  <1>3. \A i \in DOMAIN ds : i = Len(cs) + 1 \/ i \in DOMAIN cs
    BY <1>1, <1>2
  <1>4. \A i \in DOMAIN ds : ds[i].size <= ds[i].capacity
    BY <1>2, <1>3 DEF Good
  <1>5. ASSUME NEW i \in DOMAIN ds, NEW j \in DOMAIN ds, i # j
        PROVE  Apart(ds[i].base - Header, ds[i].base + ds[i].capacity,
                     ds[j].base - Header, ds[j].base + ds[j].capacity)
    BY <1>2, <1>3, <1>5 DEF Good, Apart
  <1> QED
    BY <1>2, <1>4, <1>5 DEF Good

\* Blocks that are no longer used leave the others as they were.
LEMMA HeldSubset ==
  ASSUME NEW bs, NEW cs, Held(bs, cs), NEW rest, rest \subseteq bs
  PROVE  Held(rest, cs)
  BY DEF Held

\* Chunks that are fuller, or more, hold the blocks they held.
LEMMA HeldMore ==
  ASSUME NEW bs, NEW cs, Good(cs), Held(bs, cs), NEW ds, Good(ds),
         \A i \in DOMAIN cs : i \in DOMAIN ds /\ ds[i].base = cs[i].base /\ ds[i].size >= cs[i].size
  PROVE  Held(bs, ds)
  <1>1. ASSUME NEW b \in bs
        PROVE  \E i \in DOMAIN ds : InChunk(b, ds[i])
    <2>1. PICK i \in DOMAIN cs : InChunk(b, cs[i])
      BY DEF Held
    <2>2. b.ptr \in Nat /\ b.size \in Nat
      BY DEF Held, Blocks
    <2>3. BlockEnd(b) \in Nat
      BY <2>2, AlignUp DEF BlockEnd
    <2>4. cs[i].base \in Nat /\ cs[i].size \in Nat /\ ds[i].base \in Nat /\ ds[i].size \in Nat
      <3>1. cs[i] \in Chunks /\ ds[i] \in Chunks
        BY DEF Good
      <3> QED
        BY <3>1 DEF Chunks
    <2> QED
      BY <2>1, <2>2, <2>3, <2>4 DEF InChunk
  <1> QED
    BY <1>1 DEF Held

\* A block is added that lies in a chunk and apart from the others.
LEMMA HeldWith ==
  ASSUME NEW bs, NEW cs, Held(bs, cs), NEW b \in Blocks, b.size # 0,
         \E i \in DOMAIN cs : InChunk(b, cs[i]),
         \A c \in bs : c # b => Apart(b.ptr, BlockEnd(b), c.ptr, BlockEnd(c))
  PROVE  Held(bs \cup {b}, cs)
  BY DEF Held, Apart

\* The ends of a block.
LEMMA BlockEnds ==
  ASSUME NEW b \in Blocks
  PROVE  /\ b.ptr \in Nat /\ b.size \in Nat /\ BlockEnd(b) \in Nat
         /\ BlockEnd(b) >= b.ptr /\ (b.size # 0 => BlockEnd(b) > b.ptr)
  <1>1. b.ptr \in Nat /\ b.size \in Nat
    BY DEF Blocks
  <1> QED
    BY <1>1, AlignUp DEF BlockEnd

\* The numbers of a list of chunks.
LEMMA GoodFields ==
  ASSUME NEW cs, Good(cs)
  PROVE  /\ Len(cs) \in Nat /\ Len(cs) \in DOMAIN cs /\ DOMAIN cs = 1 .. Len(cs)
         /\ \A i \in DOMAIN cs : /\ cs[i] \in Chunks /\ cs[i].base \in Nat
                                 /\ cs[i].capacity \in Nat /\ cs[i].size \in Nat
                                 /\ cs[i].size <= cs[i].capacity
  <1>1. cs \in Seq(Chunks) /\ cs # <<>>
    BY DEF Good
  <1>2. Len(cs) \in Nat /\ Len(cs) \in DOMAIN cs /\ DOMAIN cs = 1 .. Len(cs)
    BY <1>1
  <1>3. \A i \in DOMAIN cs : cs[i] \in Chunks
    BY <1>1
  <1> QED
    BY <1>2, <1>3, ChunkFields DEF Good

\* Blocks in different chunks are apart.
LEMMA OtherChunk ==
  ASSUME NEW cs, Good(cs), NEW i \in DOMAIN cs, NEW j \in DOMAIN cs, i # j,
         NEW b \in Blocks, NEW c \in Blocks, InChunk(b, cs[i]), InChunk(c, cs[j])
  PROVE  Apart(b.ptr, BlockEnd(b), c.ptr, BlockEnd(c))
  <1>1. /\ cs[i].base \in Nat /\ cs[i].capacity \in Nat /\ cs[i].size \in Nat
        /\ cs[i].size <= cs[i].capacity
        /\ cs[j].base \in Nat /\ cs[j].capacity \in Nat /\ cs[j].size \in Nat
        /\ cs[j].size <= cs[j].capacity
    BY GoodFields
  <1>2. Apart(cs[i].base - Header, cs[i].base + cs[i].capacity,
              cs[j].base - Header, cs[j].base + cs[j].capacity)
    BY DEF Good
  <1>3. /\ b.ptr \in Nat /\ BlockEnd(b) \in Nat /\ c.ptr \in Nat /\ BlockEnd(c) \in Nat
    BY BlockEnds
  <1> QED
    BY <1>1, <1>2, <1>3 DEF Apart, InChunk

\* Malloc from the newest chunk.
LEMMA TakeKeeps ==
  ASSUME PoolInv, NEW n \in Nat, n # 0, Fits(Align(n)), chunks' = Taken(Align(n)),
         NEW old, NEW b, b = [ptr |-> HeadChunk.base + HeadChunk.size, size |-> n]
  PROVE  Good(chunks') /\ Held((blocks \ old) \cup {b}, chunks')
  <1> DEFINE L == Len(chunks)
  <1>1. Good(chunks) /\ Held(blocks, chunks)
    BY DEF PoolInv
  <1>2. Align(n) \in Nat
    BY AlignUp
  <1>3. /\ Good(chunks') /\ DOMAIN chunks' = DOMAIN chunks /\ L \in DOMAIN chunks
        /\ \A i \in DOMAIN chunks : chunks'[i].base = chunks[i].base /\ chunks'[i].size >= chunks[i].size
        /\ chunks'[L].size = chunks[L].size + Align(n)
    BY <1>1, <1>2, TakeGood
  <1>4. Held(blocks, chunks')
    BY <1>1, <1>3, HeldMore
  <1>5. Held(blocks \ old, chunks')
    BY <1>4, HeldSubset
  <1>6. /\ chunks[L].base \in Nat /\ chunks[L].size \in Nat
    BY <1>1, <1>3, GoodFields
  <1>7. b \in Blocks /\ b.size # 0 /\ b.ptr = chunks[L].base + chunks[L].size
    BY <1>6 DEF Blocks, HeadChunk
  <1>8. BlockEnd(b) = chunks[L].base + chunks[L].size + Align(n)
    BY <1>6 DEF BlockEnd, HeadChunk
  <1>9. InChunk(b, chunks'[L])
    BY <1>2, <1>3, <1>6, <1>7, <1>8 DEF InChunk
  <1>10. ASSUME NEW c \in blocks \ old
         PROVE  Apart(b.ptr, BlockEnd(b), c.ptr, BlockEnd(c))
    <2>1. c \in Blocks
      BY <1>1 DEF Held
    <2>2. PICK i \in DOMAIN chunks : InChunk(c, chunks[i])
      BY <1>1 DEF Held
    <2>3. CASE i = L
      BY <1>6, <1>7, <2>1, <2>2, <2>3, BlockEnds DEF Apart, InChunk
    <2>4. CASE i # L
      <3>1. /\ chunks[i].base \in Nat /\ chunks[i].size \in Nat
            /\ chunks'[i].base = chunks[i].base /\ chunks'[i].size \in Nat
            /\ chunks'[i].size >= chunks[i].size
        BY <1>1, <1>3, GoodFields
      <3>2. InChunk(c, chunks'[i])
        BY <2>1, <2>2, <3>1, BlockEnds DEF InChunk
      <3> QED
        BY <1>3, <1>7, <1>9, <2>1, <2>4, <3>2, OtherChunk
    <2> QED
      BY <2>3, <2>4
  <1> QED
    BY <1>3, <1>5, <1>7, <1>9, <1>10, HeldWith

\* Malloc from a new chunk.
LEMMA AddKeeps ==
  ASSUME PoolInv, NEW n \in Nat, n # 0, NEW base \in Nat, FreeFor(base, NewCapacity(Align(n))),
         chunks' = Append(chunks, [base |-> base, capacity |-> NewCapacity(Align(n)), size |-> Align(n)]),
         NEW old, NEW b, b = [ptr |-> base, size |-> n]
  PROVE  Good(chunks') /\ Held((blocks \ old) \cup {b}, chunks')
  <1> DEFINE L == Len(chunks)
             c == [base |-> base, capacity |-> NewCapacity(Align(n)), size |-> Align(n)]
  <1>1. Good(chunks) /\ Held(blocks, chunks)
    BY DEF PoolInv
  <1>2. Align(n) \in Nat /\ NewCapacity(Align(n)) \in Nat /\ NewCapacity(Align(n)) >= Align(n)
    <2>1. Align(n) \in Nat
      BY AlignUp
    <2> QED
      BY <2>1 DEF NewCapacity
  <1>3. /\ c \in Chunks /\ c.base = base /\ c.capacity = NewCapacity(Align(n)) /\ c.size = Align(n)
    BY <1>2 DEF Chunks
  <1>4. Good(chunks')
    BY <1>1, <1>2, <1>3, AppendGood DEF FreeFor
  <1>5. /\ L \in Nat /\ DOMAIN chunks = 1 .. L /\ DOMAIN chunks' = 1 .. L + 1
        /\ chunks'[L + 1] = c /\ \A i \in DOMAIN chunks : chunks'[i] = chunks[i]
    <2>1. chunks \in Seq(Chunks)
      BY <1>1 DEF Good
    <2> QED
      BY <1>3, <2>1
  <1>6. Held(blocks, chunks')
    <2>1. \A i \in DOMAIN chunks : chunks[i].size \in Nat
      BY <1>1, GoodFields
    <2>2. \A i \in DOMAIN chunks : i \in DOMAIN chunks' /\ chunks'[i].base = chunks[i].base
                                   /\ chunks'[i].size >= chunks[i].size
      BY <1>5, <2>1
    <2> QED
      BY <1>1, <1>4, <2>2, HeldMore
  <1>7. Held(blocks \ old, chunks')
    BY <1>6, HeldSubset
  <1>8. b \in Blocks /\ b.size # 0 /\ b.ptr = base /\ BlockEnd(b) = base + Align(n)
    BY DEF Blocks, BlockEnd
  <1>9. InChunk(b, chunks'[L + 1]) /\ L + 1 \in DOMAIN chunks'
    BY <1>2, <1>3, <1>5, <1>8 DEF InChunk
  <1>10. ASSUME NEW d \in blocks \ old
         PROVE  Apart(b.ptr, BlockEnd(b), d.ptr, BlockEnd(d))
    <2>1. d \in Blocks
      BY <1>1 DEF Held
    <2>2. PICK i \in DOMAIN chunks : InChunk(d, chunks[i])
      BY <1>1 DEF Held
    <2>3. i \in DOMAIN chunks' /\ i # L + 1 /\ InChunk(d, chunks'[i])
      BY <1>5, <2>2
    <2> QED
      BY <1>4, <1>8, <1>9, <2>1, <2>3, OtherChunk
  <1> QED
    BY <1>4, <1>7, <1>8, <1>9, <1>10, HeldWith

\* Malloc keeps the blocks apart, whatever block is given up for the new one.
LEMMA AllocateKeeps ==
  ASSUME PoolInv, NEW n \in Nat, n # 0, NEW old, Allocate(n, old)
  PROVE  PoolInv'
  <1>1. CASE /\ Fits(Align(n))
             /\ chunks' = Taken(Align(n))
             /\ blocks' = (blocks \ old) \cup {[ptr |-> HeadChunk.base + HeadChunk.size, size |-> n]}
    BY <1>1, TakeKeeps DEF PoolInv
  <1>2. ASSUME NEW base \in Addresses, FreeFor(base, NewCapacity(Align(n))),
               chunks' = Append(chunks, [base |-> base, capacity |-> NewCapacity(Align(n)), size |-> Align(n)]),
               blocks' = (blocks \ old) \cup {[ptr |-> base, size |-> n]}
        PROVE  PoolInv'
    <2>1. base \in Nat
      BY AddressesAssumption
    <2> QED
      BY <1>2, <2>1, AddKeeps DEF PoolInv
  <1> QED
    BY <1>1, <1>2 DEF Allocate

\* Realloc of a block that is large enough leaves it where it is.
LEMMA ShrinkKeeps ==
  ASSUME PoolInv, NEW b \in blocks, NEW n \in Nat, n # 0, Align(b.size) >= Align(n),
         blocks' = (blocks \ {b}) \cup {[ptr |-> b.ptr, size |-> n]}, UNCHANGED chunks
  PROVE  PoolInv'
  <1> DEFINE d == [ptr |-> b.ptr, size |-> n]
  <1>1. Good(chunks) /\ Held(blocks, chunks)
    BY DEF PoolInv
  <1>2. b \in Blocks
    BY <1>1 DEF Held
  <1>3. d \in Blocks /\ d.size # 0 /\ d.ptr = b.ptr
    BY <1>2, BlockEnds DEF Blocks
  <1>4. BlockEnd(d) <= BlockEnd(b)
    BY <1>2, BlockEnds, AlignUp DEF BlockEnd
  <1>5. PICK i \in DOMAIN chunks : InChunk(b, chunks[i])
    BY <1>1 DEF Held
  <1>6. chunks[i].base \in Nat /\ chunks[i].size \in Nat
    BY <1>1, GoodFields
  <1>7. InChunk(d, chunks[i])
    BY <1>2, <1>3, <1>4, <1>5, <1>6, BlockEnds DEF InChunk
  <1>8. ASSUME NEW c \in blocks \ {b}
        PROVE  Apart(d.ptr, BlockEnd(d), c.ptr, BlockEnd(c))
    <2>1. c \in Blocks
      BY <1>1 DEF Held
    <2>2. Apart(b.ptr, BlockEnd(b), c.ptr, BlockEnd(c))
      BY <1>1 DEF Held
    <2> QED
      BY <1>2, <1>3, <1>4, <2>1, <2>2, BlockEnds DEF Apart
  <1>9. Held(blocks \ {b}, chunks)
    BY <1>1, HeldSubset
  <1>10. Held((blocks \ {b}) \cup {d}, chunks)
    BY <1>3, <1>7, <1>8, <1>9, HeldWith
  <1> QED
    BY <1>1, <1>10 DEF PoolInv

\* Two stretches behind headers that are apart do not end in one place, if the
\* second holds what ends there.
LEMMA EndsInOne ==
  ASSUME NEW p \in Nat, NEW e \in Nat, p < e, NEW b1 \in Nat, NEW c1 \in Nat, NEW s1 \in Nat,
         NEW b2 \in Nat, NEW c2 \in Nat, NEW s2 \in Nat, s1 <= c1, s2 <= c2,
         b1 <= p, e <= b1 + s1, e = b2 + s2
  PROVE  ~Apart(b1 - Header, b1 + c1, b2 - Header, b2 + c2)
  BY DEF Apart

\* A block that ends where the newest chunk is free lies in that chunk: its
\* header keeps it apart from a chunk that ends just before it (Realloc).
LEMMA LastInHead ==
  ASSUME NEW cs, Good(cs), NEW b \in Blocks, b.size # 0,
         NEW i \in DOMAIN cs, InChunk(b, cs[i]),
         BlockEnd(b) = cs[Len(cs)].base + cs[Len(cs)].size
  PROVE  i = Len(cs)
  <1> DEFINE L == Len(cs)
  <1> SUFFICES ASSUME i # L
               PROVE  FALSE
    OBVIOUS
  <1>1. L \in DOMAIN cs
    BY GoodFields
  <1>2. /\ cs[i].base \in Nat /\ cs[i].capacity \in Nat /\ cs[i].size \in Nat
        /\ cs[i].size <= cs[i].capacity
        /\ cs[L].base \in Nat /\ cs[L].capacity \in Nat /\ cs[L].size \in Nat
        /\ cs[L].size <= cs[L].capacity
    BY <1>1, GoodFields
  <1>3. Apart(cs[i].base - Header, cs[i].base + cs[i].capacity,
              cs[L].base - Header, cs[L].base + cs[L].capacity)
    BY <1>1 DEF Good
  <1>4. b.ptr \in Nat /\ BlockEnd(b) \in Nat /\ BlockEnd(b) > b.ptr
    BY BlockEnds
  <1>5. cs[i].base <= b.ptr /\ BlockEnd(b) <= cs[i].base + cs[i].size
    BY DEF InChunk
  <1> QED
    BY <1>2, <1>3, <1>4, <1>5, EndsInOne

\* Realloc of the last block, in place.
LEMMA GrowKeeps ==
  ASSUME PoolInv, NEW b \in blocks, NEW n \in Nat, n # 0, Align(b.size) < Align(n),
         IsLast(b), Fits(Increment(b, n)), chunks' = Taken(Increment(b, n)),
         blocks' = (blocks \ {b}) \cup {[ptr |-> b.ptr, size |-> n]}
  PROVE  PoolInv'
  <1> DEFINE L == Len(chunks)
             d == [ptr |-> b.ptr, size |-> n]
             more == Increment(b, n)
  <1>1. Good(chunks) /\ Held(blocks, chunks)
    BY DEF PoolInv
  <1>2. b \in Blocks /\ b.size # 0
    BY <1>1 DEF Held
  <1>3. b.ptr \in Nat /\ b.size \in Nat /\ Align(b.size) \in Nat /\ Align(n) \in Nat
    BY <1>2, BlockEnds, AlignUp
  <1>4. more \in Nat /\ Align(n) = Align(b.size) + more
    BY <1>3 DEF Increment
  <1>5. /\ Good(chunks') /\ DOMAIN chunks' = DOMAIN chunks /\ L \in DOMAIN chunks
        /\ \A i \in DOMAIN chunks : chunks'[i].base = chunks[i].base /\ chunks'[i].size >= chunks[i].size
        /\ chunks'[L].size = chunks[L].size + more
    BY <1>1, <1>4, TakeGood
  <1>6. chunks[L].base \in Nat /\ chunks[L].size \in Nat
    BY <1>1, <1>5, GoodFields
  <1>7. BlockEnd(b) = chunks[L].base + chunks[L].size
    <2> DEFINE p == b.ptr
               x == chunks[L].base
               y == chunks[L].size
               z == Align(b.size)
    <2>1. p = x + y - z
      BY DEF IsLast, HeadChunk
    <2>2. p \in Nat /\ x \in Nat /\ y \in Nat /\ z \in Nat
      BY <1>3, <1>6
    <2>3. p + z = x + y
      <3> HIDE DEF p, x, y, z
      <3> QED
        BY <2>1, <2>2
    <2> QED
      BY <2>3 DEF BlockEnd
  <1>8. InChunk(b, chunks[L])
    <2>1. PICK i \in DOMAIN chunks : InChunk(b, chunks[i])
      BY <1>1 DEF Held
    <2>2. i = L
      BY <1>1, <1>2, <1>7, <2>1, LastInHead
    <2> QED
      BY <2>1, <2>2
  <1>9. d \in Blocks /\ d.size # 0 /\ d.ptr = b.ptr
    BY <1>3 DEF Blocks
  <1>10. BlockEnd(d) = chunks[L].base + chunks[L].size + more
    BY <1>3, <1>4, <1>6, <1>7 DEF BlockEnd
  <1>11. InChunk(d, chunks'[L])
    <2>1. chunks'[L].base = chunks[L].base /\ chunks'[L].size = chunks[L].size + more
      BY <1>5
    <2> QED
      BY <1>4, <1>6, <1>8, <1>9, <1>10, <2>1 DEF InChunk
  <1>12. ASSUME NEW c \in blocks \ {b}
         PROVE  Apart(d.ptr, BlockEnd(d), c.ptr, BlockEnd(c))
    <2>1. c \in Blocks /\ c.size # 0
      BY <1>1 DEF Held
    <2>2. c.ptr \in Nat /\ BlockEnd(c) \in Nat /\ BlockEnd(c) > c.ptr
      BY <2>1, BlockEnds
    <2>3. PICK i \in DOMAIN chunks : InChunk(c, chunks[i])
      BY <1>1 DEF Held
    <2>4. CASE i = L
      <3>1. Apart(b.ptr, BlockEnd(b), c.ptr, BlockEnd(c))
        BY <1>1 DEF Held
      <3> QED
        BY <1>3, <1>6, <1>7, <1>9, <2>2, <2>3, <2>4, <3>1 DEF Apart, InChunk
    <2>5. CASE i # L
      <3>1. /\ chunks[i].base \in Nat /\ chunks[i].size \in Nat
            /\ chunks'[i].base = chunks[i].base /\ chunks'[i].size \in Nat
            /\ chunks'[i].size >= chunks[i].size
        BY <1>1, <1>5, GoodFields
      <3>2. InChunk(c, chunks'[i])
        BY <2>2, <2>3, <3>1 DEF InChunk
      <3> QED
        BY <1>5, <1>9, <1>11, <2>1, <2>5, <3>2, OtherChunk
    <2> QED
      BY <2>4, <2>5
  <1>13. Held(blocks \ {b}, chunks')
    <2>1. Held(blocks, chunks')
      BY <1>1, <1>5, HeldMore
    <2> QED
      BY <2>1, HeldSubset
  <1>14. Held((blocks \ {b}) \cup {d}, chunks')
    BY <1>5, <1>9, <1>11, <1>12, <1>13, HeldWith
  <1> QED
    BY <1>5, <1>14 DEF PoolInv

\* A list of one empty chunk, as the constructor and Clear leave it.
LEMMA OneChunk ==
  ASSUME NEW base \in Nat, NEW capacity \in Nat
  PROVE  Good(<< [base |-> base, capacity |-> capacity, size |-> 0] >>)
  <1> DEFINE c == [base |-> base, capacity |-> capacity, size |-> 0]
             cs == << c >>
  <1>1. c \in Chunks /\ c.size = 0 /\ c.capacity = capacity
    BY DEF Chunks
  <1>2. cs \in Seq(Chunks) /\ cs # <<>> /\ DOMAIN cs = {1} /\ cs[1] = c
    BY <1>1
  <1>3. \A i \in DOMAIN cs : cs[i].size <= cs[i].capacity
    BY <1>1, <1>2
  <1>4. \A i, j \in DOMAIN cs : i = j
    BY <1>2
  <1> QED
    BY <1>2, <1>3, <1>4 DEF Good

\* Nothing has to be held for no block.
LEMMA NoneHeld ==
  ASSUME NEW cs
  PROVE  Held({}, cs)
  BY DEF Held

\* What Clear leaves.
LEMMA ClearKeeps ==
  ASSUME PoolInv, chunks' = Cleared, blocks' = {}
  PROVE  PoolInv'
  <1>1. Good(chunks)
    BY DEF PoolInv
  <1>2. 1 \in DOMAIN chunks
    BY <1>1, GoodFields
  <1>3. chunks[1].base \in Nat /\ chunks[1].capacity \in Nat
    BY <1>1, <1>2, GoodFields
  <1>4. Good(chunks')
    BY <1>3, OneChunk DEF Cleared
  <1> QED
    BY <1>4, NoneHeld DEF PoolInv

\* A new pool.
LEMMA InitKeeps ==
  ASSUME PoolInit
  PROVE  PoolInv
  <1>1. PICK base \in Addresses : chunks = << [base |-> base, capacity |-> FirstCapacity, size |-> 0] >>
    BY DEF PoolInit
  <1>2. base \in Nat
    BY AddressesAssumption
  <1>3. Good(chunks)
    BY <1>1, <1>2, OneChunk
  <1>4. blocks = {}
    BY DEF PoolInit
  <1> QED
    BY <1>3, <1>4, NoneHeld DEF PoolInv

\* Every operation of the allocator keeps the invariant.
LEMMA StepKeeps ==
  ASSUME PoolInv, [PoolNext]_poolVars
  PROVE  PoolInv'
  <1>1. ASSUME NEW n \in Sizes, Malloc(n)
        PROVE  PoolInv'
    <2>1. n \in Nat /\ n # 0 /\ Allocate(n, {})
      BY <1>1, SizesAssumption DEF Malloc
    <2> QED
      BY <2>1, AllocateKeeps
  <1>2. ASSUME NEW b \in blocks, NEW n \in Sizes, Realloc(b, n)
        PROVE  PoolInv'
    <2>1. n \in Nat /\ n # 0
      BY <1>2, SizesAssumption DEF Realloc
    <2>2. CASE /\ Align(b.size) >= Align(n)
               /\ blocks' = (blocks \ {b}) \cup {[ptr |-> b.ptr, size |-> n]}
               /\ UNCHANGED chunks
      BY <2>1, <2>2, ShrinkKeeps
    <2>3. CASE /\ Align(b.size) < Align(n)
               /\ IsLast(b) /\ Fits(Increment(b, n))
               /\ chunks' = Taken(Increment(b, n))
               /\ blocks' = (blocks \ {b}) \cup {[ptr |-> b.ptr, size |-> n]}
      BY <2>1, <2>3, GrowKeeps
    <2>4. CASE Allocate(n, {b})
      BY <2>1, <2>4, AllocateKeeps
    <2> QED
      BY <1>2, <2>2, <2>3, <2>4 DEF Realloc
  <1>3. ASSUME NEW b \in blocks, Free(b)
        PROVE  PoolInv'
    <2>1. Held(blocks \ {b}, chunks)
      BY HeldSubset DEF PoolInv
    <2> QED
      BY <1>3, <2>1 DEF PoolInv, Free
  <1>4. CASE Clear
    BY <1>4, ClearKeeps DEF Clear
  <1>5. ASSUME UNCHANGED <<chunks, blocks>>
        PROVE  PoolInv'
    BY <1>5 DEF PoolInv
  <1>6. ASSUME NEW h \in Handles, Destroy(h)
        PROVE  PoolInv'
    BY <1>5, <1>6, ClearKeeps DEF Destroy
  <1>7. ASSUME NEW h \in Handles, NEW g \in Handles, Copy(h, g) \/ Move(h, g)
        PROVE  PoolInv'
    BY <1>5, <1>7 DEF Copy, Move
  <1>8. CASE UNCHANGED poolVars
    BY <1>5, <1>8 DEF poolVars
  <1> QED
    BY <1>1, <1>2, <1>3, <1>4, <1>6, <1>7, <1>8 DEF PoolNext

\* Every block of a pool that is in use lies in one of its chunks and shares no
\* byte with another, whatever Malloc, Realloc, Free, Clear and the copies of
\* the allocator do (allocators.h MemoryPoolAllocator).
THEOREM PoolSafe == PoolSpec => []BlocksApart
  <1>1. PoolInit => PoolInv
    BY InitKeeps
  <1>2. PoolInv /\ [PoolNext]_poolVars => PoolInv'
    BY StepKeeps
  <1>3. PoolInv => BlocksApart
    BY DEF PoolInv, Held, BlocksApart
  <1> QED
    BY <1>1, <1>2, <1>3, PTL DEF PoolSpec
=============================================================================
