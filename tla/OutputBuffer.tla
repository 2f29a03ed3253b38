---------------------------- MODULE OutputBuffer ----------------------------
(***************************************************************************)
(* The stack of bytes behind the parser's values and the writer's output   *)
(* (codec/rapidjson/internal/stack.h, stringbuffer.h), on memory that is   *)
(* moved as it grows (allocators.h CrtAllocator).  A stack is the cells it *)
(* owns and how many of them are taken; a cell nobody wrote holds Garbage. *)
(***************************************************************************)
EXTENDS Integers, Sequences

CONSTANTS InitialCapacity,  \* kDefaultCapacity
          Symbols,          \* what is written
          MaxOutput         \* bound: the symbols of the output

ASSUME BufferAssumption == InitialCapacity \in Nat /\ MaxOutput \in Nat

VARIABLES cells, top,
          output            \* what was put and not popped or cleared

bufferVars == <<cells, top, output>>

Garbage == "garbage"
Zero    == "\\0"

BufferInit == cells = <<>> /\ top = 0 /\ output = <<>>

\* CrtAllocator::Realloc: as many cells as are asked for, the old ones first.
CrtRealloc(old, capacity) ==
  [i \in 1 .. capacity |-> IF i <= Len(old) THEN old[i] ELSE Garbage]

\* Slip: half as many again, whatever is needed
ExpandedByHalf(count) ==
  CrtRealloc(cells, IF cells = <<>> THEN InitialCapacity
                    ELSE Len(cells) + ((Len(cells) + 1) \div 2))

\* The cells once there is room for count more: half as many again, or what
\* is needed if that is more.
Expanded(count) ==
  LET grown == IF cells = <<>> THEN InitialCapacity
               ELSE Len(cells) + ((Len(cells) + 1) \div 2)
  IN CrtRealloc(cells, IF grown < top + count THEN top + count ELSE grown)

Reserved(count) == IF count > Len(cells) - top THEN Expanded(count) ELSE cells

\* What was pushed is written above the top.
Pushed(symbols) ==
  LET room == Reserved(Len(symbols))
  IN [i \in DOMAIN room |-> IF i > top /\ i <= top + Len(symbols) THEN symbols[i - top] ELSE room[i]]

PutAll(symbols) ==
  /\ Len(output) + Len(symbols) <= MaxOutput
  /\ cells' = Pushed(symbols)
  /\ top' = top + Len(symbols)
  /\ output' = output \o symbols

Reserve(count) ==
  /\ cells' = Reserved(count)
  /\ UNCHANGED <<top, output>>

PopOff(count) ==
  /\ top >= count
  /\ top' = top - count
  /\ output' = SubSeq(output, 1, Len(output) - count)
  /\ UNCHANGED cells

ClearBuffer ==
  /\ top' = 0
  /\ output' = <<>>
  /\ UNCHANGED cells

\* ShrinkToFit of the buffer: a zero is pushed, the cells beyond it go, and it
\* is popped.
ShrinkToFit ==
  /\ cells' = SubSeq(Pushed(<< Zero >>), 1, top + 1)
  /\ UNCHANGED <<top, output>>

\* GetString pushes and pops the zero that ends what it returns.
EndString ==
  /\ cells' = Pushed(<< Zero >>)
  /\ UNCHANGED <<top, output>>

GetString == SubSeq(Pushed(<< Zero >>), 1, top + 1)

BufferNext ==
  \/ \E s \in Symbols : PutAll(<< s >>) \/ PutAll(<< s, s, s >>)
  \/ \E n \in 1 .. MaxOutput : Reserve(n) /\ Len(Reserved(n)) <= 3 * MaxOutput
  \/ \E n \in 1 .. 2 : PopOff(n)
  \/ ClearBuffer
  \/ ShrinkToFit
  \/ EndString /\ Len(Pushed(<< Zero >>)) <= 3 * MaxOutput

BufferSpec == BufferInit /\ [][BufferNext]_bufferVars

\* Whatever is put, popped and cleared, and however the cells move, the
\* buffer holds exactly the output, GetString ends it with a zero, and the
\* top stays inside the cells (stack.h Expand, Resize; stringbuffer.h).
BufferHoldsOutput ==
  /\ top = Len(output) /\ top <= Len(cells)
  /\ SubSeq(cells, 1, top) = output
  /\ GetString = Append(output, Zero)

=============================================================================
