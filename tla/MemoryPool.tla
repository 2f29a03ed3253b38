----------------------------- MODULE MemoryPool -----------------------------
(***************************************************************************)
(* The memory of JSON documents: MemoryPoolAllocator                       *)
(* (codec/rapidjson/allocators.h).  Blocks are cut from the newest of a    *)
(* list of chunks and never given back one by one; the last block grows in *)
(* place.  Addresses are numbers, so that the comparison of pointers by    *)
(* which Realloc finds the last block is the one the code makes: where the *)
(* base allocator puts a chunk is its choice, as long as it is free.       *)
(***************************************************************************)
EXTENDS Integers, Sequences, FiniteSets

CONSTANTS Alignment,      \* RAPIDJSON_ALIGN, 8
          Header,         \* SIZEOF_CHUNK_HEADER
          ChunkCapacity,  \* chunk_capacity_
          FirstCapacity,  \* of the first chunk: 0, or what a user's buffer holds
          Sizes,          \* what is asked for
          Addresses,      \* where a chunk may begin
          Handles,        \* allocator objects
          MaxBlocks       \* bound: the blocks that are in use

ASSUME AlignmentAssumption == Alignment \in Nat \ {0}
ASSUME HeaderAssumption == Header \in Nat \ {0}
ASSUME CapacityAssumption == ChunkCapacity \in Nat /\ FirstCapacity \in Nat
ASSUME SizesAssumption == Sizes \subseteq Nat
ASSUME AddressesAssumption == Addresses \subseteq Nat

VARIABLES chunks,    \* the list of chunks, the first one first: chunkHead is the last
          blocks,    \* the blocks whose owner still uses them, and their sizes
          holders    \* the allocator objects that share the chunks

poolVars == <<chunks, blocks, holders>>

Align(n) == ((n + Alignment - 1) \div Alignment) * Alignment

\* A chunk lies behind its header; its buffer begins at base.
Chunks == [base : Nat, capacity : Nat, size : Nat]
Blocks == [ptr : Nat, size : Nat]

Apart(from, to, from2, to2) == to <= from2 \/ to2 <= from

FreeFor(base, capacity) ==
  \A i \in DOMAIN chunks :
    Apart(base - Header, base + capacity, chunks[i].base - Header, chunks[i].base + chunks[i].capacity)

HeadChunk == chunks[Len(chunks)]

-----------------------------------------------------------------------------

PoolInit ==
  /\ \E base \in Addresses : chunks = << [base |-> base, capacity |-> FirstCapacity, size |-> 0] >>
  /\ blocks = {}
  /\ \E h \in Handles : holders = {h}

\* The chunk Malloc adds when a block of an aligned size does not fit.
NewCapacity(size) == IF ChunkCapacity > size THEN ChunkCapacity ELSE size

\* The list with the block taken from its last chunk, and where the block is.
Fits(size) == HeadChunk.size + size <= HeadChunk.capacity
Fuller(c, size) == [base |-> c.base, capacity |-> c.capacity, size |-> c.size + size]
Taken(size) == [chunks EXCEPT ![Len(chunks)] = Fuller(@, size)]

\* Malloc of a size, from the last chunk or from a new one, in exchange for a
\* block its owner no longer uses, if any.
Allocate(n, old) ==
  \/ /\ Fits(Align(n))
     /\ chunks' = Taken(Align(n))
     /\ blocks' = (blocks \ old) \cup {[ptr |-> HeadChunk.base + HeadChunk.size, size |-> n]}
  \/ /\ ~Fits(Align(n))
     /\ \E base \in Addresses :
          /\ FreeFor(base, NewCapacity(Align(n)))
          /\ chunks' = Append(chunks, [base |-> base, capacity |-> NewCapacity(Align(n)), size |-> Align(n)])
          /\ blocks' = (blocks \ old) \cup {[ptr |-> base, size |-> n]}

\* No block for nothing, and none when the base allocator has no memory.
Malloc(n) ==
  /\ holders # {} /\ n # 0
  /\ Allocate(n, {})
  /\ UNCHANGED holders

IsLast(b) == b.ptr = HeadChunk.base + HeadChunk.size - Align(b.size)
Increment(b, n) == Align(n) - Align(b.size)

\* Slip: the room of the last chunk is not looked at.
ReallocBeyond(b, n) ==
  /\ holders # {} /\ n # 0
  /\ IsLast(b) /\ Align(b.size) < Align(n)
  /\ chunks' = Taken(Increment(b, n))
  /\ blocks' = (blocks \ {b}) \cup {[ptr |-> b.ptr, size |-> n]}
  /\ UNCHANGED holders

\* The block stays where it is when it is large enough or can grow; otherwise
\* its bytes are copied to a new one.
Realloc(b, n) ==
  /\ holders # {} /\ n # 0
  /\ \/ /\ Align(b.size) >= Align(n)
        /\ blocks' = (blocks \ {b}) \cup {[ptr |-> b.ptr, size |-> n]}
        /\ UNCHANGED chunks
     \/ /\ Align(b.size) < Align(n)
        /\ IsLast(b) /\ Fits(Increment(b, n))
        /\ chunks' = Taken(Increment(b, n))
        /\ blocks' = (blocks \ {b}) \cup {[ptr |-> b.ptr, size |-> n]}
     \/ /\ Align(b.size) < Align(n)
        /\ ~(IsLast(b) /\ Fits(Increment(b, n)))
        /\ Allocate(n, {b})
  /\ UNCHANGED holders

\* Free does nothing: the owner just stops using the block.
Free(b) ==
  /\ blocks' = blocks \ {b}
  /\ UNCHANGED <<chunks, holders>>

\* All chunks but the first go, and the first is empty.
Cleared == << [base |-> chunks[1].base, capacity |-> chunks[1].capacity, size |-> 0] >>

\* Clear and what the caller owes it: no block of the pool is in use after it.
Clear ==
  /\ holders # {}
  /\ chunks' = Cleared
  /\ blocks' = {}
  /\ UNCHANGED holders

\* The copy of an allocator shares its chunks, and the last one to be
\* destroyed clears them.
Copy(h, g) ==
  /\ h \in holders /\ g \notin holders
  /\ holders' = holders \cup {g}
  /\ UNCHANGED <<chunks, blocks>>

Move(h, g) ==
  /\ h \in holders /\ g \notin holders
  /\ holders' = (holders \ {h}) \cup {g}
  /\ UNCHANGED <<chunks, blocks>>

Destroy(h) ==
  /\ h \in holders
  /\ holders' = holders \ {h}
  /\ IF holders = {h} THEN chunks' = Cleared /\ blocks' = {}
     ELSE UNCHANGED <<chunks, blocks>>

PoolNext ==
  \/ \E n \in Sizes : Cardinality(blocks) < MaxBlocks /\ Malloc(n)
  \/ \E b \in blocks, n \in Sizes : Realloc(b, n)
  \/ \E b \in blocks : Free(b)
  \/ Clear
  \/ \E h, g \in Handles : Copy(h, g) \/ Move(h, g)
  \/ \E h \in Handles : Destroy(h)

PoolSpec == PoolInit /\ [][PoolNext]_poolVars

-----------------------------------------------------------------------------

BlockEnd(b) == b.ptr + Align(b.size)

\* A block in use lies in a chunk, behind its header and before what is free.
InChunk(b, c) == c.base <= b.ptr /\ BlockEnd(b) <= c.base + c.size

\* Every block in use lies in one of the chunks, and no two of them share a
\* byte: not even when one has grown in place (allocators.h Malloc, Realloc).
BlocksApart ==
  /\ \A b \in blocks : \E i \in DOMAIN chunks : InChunk(b, chunks[i])
  /\ \A b, c \in blocks : b # c => Apart(b.ptr, BlockEnd(b), c.ptr, BlockEnd(c))

=============================================================================
