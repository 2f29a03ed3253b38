-------------------------------- MODULE Uuid --------------------------------
(***************************************************************************)
(* The identifiers of sessions and tasks (codec/uuid.h): their texts, the  *)
(* generators and the hash of the name generator.  An identifier is the    *)
(* sequence of its 16 bytes; a text is a sequence of symbols.              *)
(***************************************************************************)
EXTENDS Integers, Sequences, SequencesExt, FiniteSetsExt, Bitwise

-----------------------------------------------------------------------------
(* Texts.                                                                  *)

LowerHex == << "0", "1", "2", "3", "4", "5", "6", "7", "8", "9", "a", "b", "c", "d", "e", "f" >>
UpperHex == << "0", "1", "2", "3", "4", "5", "6", "7", "8", "9", "A", "B", "C", "D", "E", "F" >>

IsHex(ch) == ch \in Range(LowerHex) \cup Range(UpperHex)

Hex2Char(ch) == (CHOOSE i \in 1 .. 16 : LowerHex[i] = ch \/ UpperHex[i] = ch) - 1

HexPair2Char(a, b) == 16 * Hex2Char(a) + Hex2Char(b)

\* What lies between the braces, if there are any; a text with a left brace
\* and no right one at its end is none.
Braced(str) == str[1] = "{"
WellBraced(str) == str # <<>> /\ (Braced(str) => Last(str) = "}")
Body(str) == IF Braced(str) THEN SubSeq(str, 2, Len(str) - 1) ELSE str

\* The scan of the symbols.  A seventeenth byte ends it, and so does a symbol
\* that is no digit; dashes are passed over wherever they are.
ScanUuid(str) ==
  FoldLeft(LAMBDA s, ch :
             CASE ~s.ok \/ ch = "-" -> s
               [] s.ok /\ ch # "-" /\ (Len(s.data) >= 16 \/ ~IsHex(ch)) -> [s EXCEPT !.ok = FALSE]
               [] OTHER ->
                    IF s.firstDigit THEN [s EXCEPT !.digit = ch, !.firstDigit = FALSE]
                    ELSE [s EXCEPT !.data = Append(@, HexPair2Char(s.digit, ch)),
                                   !.firstDigit = TRUE],
           [ok |-> TRUE, firstDigit |-> TRUE, digit |-> "0", data |-> <<>>], Body(str))

IsValidUuid(str) ==
  /\ WellBraced(str)
  /\ LET s == ScanUuid(str) IN s.ok /\ Len(s.data) >= 16

\* An identifier, or nothing.
NoUuid == <<>>
FromString(str) ==
  IF ~WellBraced(str) THEN NoUuid
  ELSE LET s == ScanUuid(str) IN IF s.ok /\ Len(s.data) >= 16 THEN s.data ELSE NoUuid

ToString2(byte) == << LowerHex[(byte \div 16) + 1], LowerHex[(byte % 16) + 1] >>

UuidToString(id) ==
  FlattenSeq([i \in 1 .. 16 |->
    (IF i \in {5, 7, 9, 11} THEN <<"-">> ELSE <<>>) \o ToString2(id[i])])

-----------------------------------------------------------------------------
(* Identifiers.                                                            *)

Variant(id) ==
  CASE id[9] & 128 = 0   -> "ncs"
    [] id[9] & 192 = 128 -> "rfc"
    [] id[9] & 224 = 192 -> "microsoft"
    [] OTHER -> "reserved"

Version(id) ==
  LET v == id[7] \div 16 IN IF v \in 1 .. 5 THEN v ELSE 0

IsNil(id) == \A i \in 1 .. 16 : id[i] = 0

\* The order of identifiers, that of their bytes.
Less(id, other) ==
  \E i \in 1 .. 16 : id[i] < other[i] /\ \A j \in 1 .. i - 1 : id[j] = other[j]

\* The bits of the variant, and those of a version.
Mark(bytes, mask, version) ==
  [bytes EXCEPT ![9] = (@ & 191) | 128, ![7] = (@ & mask) | version]

\* The bytes of libuuid, as they are.
SystemGenerator(bytes) == bytes

RandomGenerator(bytes) == Mark(bytes, 79, 64)

\* No device address is read on Linux: the identifier is nil.
TimeGenerator(device, time, clock) ==
  IF device = <<>> THEN [i \in 1 .. 16 |-> 0]
  ELSE Mark(SubSeq(time, 5, 8) \o SubSeq(time, 3, 4) \o << time[1] & 15, time[2] >>
              \o << clock[1], clock[2] & 63 >> \o device, 95, 16)

-----------------------------------------------------------------------------
(* The hash of the name generator.  Its digest is the sequence of the      *)
(* blocks it was computed from.                                            *)

BlockBytes == 64
ProcessBlock(digest, block) == Append(digest, block)

Reset == [digest |-> <<>>, block |-> <<>>, byteCount |-> 0]

ProcessByte(h, octet) ==
  LET block == Append(h.block, octet)
  IN IF Len(block) = BlockBytes
     THEN [digest |-> ProcessBlock(h.digest, block), block |-> <<>>, byteCount |-> h.byteCount + 1]
     ELSE [h EXCEPT !.block = block, !.byteCount = @ + 1]

ProcessBytes(h, bytes) == FoldLeft(ProcessByte, h, bytes)

ZeroBytes(n) == [i \in 1 .. n |-> 0]

\* Slip: a block with room for just the count is taken to have none.
GetDigestFrom56(h) ==
  LET marked == ProcessByte(h, 128)
      room   == IF Len(marked.block) >= 56
                THEN ProcessBytes(marked, ZeroBytes(BlockBytes - Len(marked.block))) ELSE marked
      filled == ProcessBytes(room, ZeroBytes(56 - Len(room.block)))
      bits   == h.byteCount * 8
      count  == ZeroBytes(4) \o << (bits \div 2^24) % 256, (bits \div 2^16) % 256,
                                   (bits \div 2^8) % 256, bits % 256 >>
  IN ProcessBytes(filled, count).digest

\* The padding: zeros to the end of a block that has no room for the count,
\* then zeros up to the count of bits, whose low 32 bits are written.
GetDigest(h) ==
  LET marked == ProcessByte(h, 128)
      room   == IF Len(marked.block) > 56
                THEN ProcessBytes(marked, ZeroBytes(BlockBytes - Len(marked.block))) ELSE marked
      filled == ProcessBytes(room, ZeroBytes(56 - Len(room.block)))
      bits   == h.byteCount * 8
      count  == ZeroBytes(4) \o << (bits \div 2^24) % 256, (bits \div 2^16) % 256,
                                   (bits \div 2^8) % 256, bits % 256 >>
  IN ProcessBytes(filled, count).digest

\* The hasher of a name, from the beginning.
HashName(nsuuid, name) == ProcessBytes(ProcessBytes(Reset, nsuuid), name)

\* The identifier made of the first bytes of a digest.
MakeUuid(digest) == Mark(SubSeq(digest, 1, 16), 95, 80)

=============================================================================
