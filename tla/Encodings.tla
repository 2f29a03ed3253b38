----------------------------- MODULE Encodings -----------------------------
(***************************************************************************)
(* The UTF-8 encoding of the JSON codec (codec/rapidjson/encodings.h).  A  *)
(* text is the sequence of its bytes; reading past its end yields 0, the   *)
(* terminator of the C string the streams run over.                        *)
(***************************************************************************)
EXTENDS Integers, Sequences, SequencesExt

\* The byte at position i of the zero-terminated string s.
ByteAt(s, i) == IF i \in 1 .. Len(s) THEN s[i] ELSE 0

\* The bytes of a code point.
Encode(codepoint) ==
  CASE codepoint <= 127   -> << codepoint >>
    [] codepoint \in 128 .. 2047 ->
         << 192 + codepoint \div 64, 128 + (codepoint % 64) >>
    [] codepoint \in 2048 .. 65535 ->
         << 224 + codepoint \div 4096, 128 + ((codepoint \div 64) % 64),
            128 + (codepoint % 64) >>
    [] OTHER ->
         << 240 + codepoint \div 262144, 128 + ((codepoint \div 4096) % 64),
            128 + ((codepoint \div 64) % 64), 128 + (codepoint % 64) >>

\* The class of a byte.  Continuation bytes are 16, 64 and 32; a lead byte
\* has the class of the sequences it starts, and 8 starts none.
GetRange(c) ==
  CASE c \in 0 .. 127     -> 0
    [] c \in 128 .. 143   -> 16
    [] c \in 144 .. 159   -> 64
    [] c \in 160 .. 191   -> 32
    [] c \in 194 .. 223   -> 2
    [] c = 224            -> 10
    [] c = 237            -> 4
    [] c \in (225 .. 239) \ {237} -> 3
    [] c = 240            -> 11
    [] c \in 241 .. 243   -> 6
    [] c = 244            -> 5
    [] OTHER              -> 8

\* The classes that may follow a lead byte of a class, one set per byte.
Continuation == {16, 32, 64}
Tails ==
  [ type \in {2, 3, 4, 5, 6, 10, 11} |->
      CASE type = 2  -> << Continuation >>
        [] type = 3  -> << Continuation, Continuation >>
        [] type = 4  -> << {16, 64}, Continuation >>
        [] type = 5  -> << {16}, Continuation, Continuation >>
        [] type = 6  -> << Continuation, Continuation, Continuation >>
        [] type = 10 -> << {32}, Continuation >>
        [] type = 11 -> << {32, 64}, Continuation, Continuation >> ]

\* The code point that starts at position i of s, whether its bytes are
\* well formed, and the position after them.
Decode(s, i) ==
  LET Copy(acc, k) == (acc * 64) + (ByteAt(s, i + k) % 64)
      Sequence(lead, tails) ==
        [ ok        |-> \A k \in DOMAIN tails : GetRange(ByteAt(s, i + k)) \in tails[k],
          codepoint |-> FoldLeft(Copy, lead, [k \in DOMAIN tails |-> k]),
          next      |-> i + 1 + Len(tails) ]
      From(c, type) ==
        CASE c < 128 -> [ok |-> TRUE, codepoint |-> c, next |-> i + 1]
          [] c >= 128 /\ type \in DOMAIN Tails ->
               Sequence(IF type < 8 THEN c % 2 ^ (8 - type) ELSE 0, Tails[type])
          [] OTHER -> [ok |-> FALSE, codepoint |-> 0, next |-> i + 1]
  IN From(ByteAt(s, i), GetRange(ByteAt(s, i)))

=============================================================================
