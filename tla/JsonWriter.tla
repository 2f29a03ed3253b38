----------------------------- MODULE JsonWriter -----------------------------
(***************************************************************************)
(* The writer of every JSON text the server sends (codec/rapidjson/        *)
(* writer.h with internal/itoa.h and internal/dtoa.h), as util.cpp uses    *)
(* it: from UTF-8 to ASCII, with the default flags.  A writer is the       *)
(* record w of its output, its levels (inside an array or not, values      *)
(* written), and whether every call so far returned true.                  *)
(***************************************************************************)
EXTENDS JsonReader

CONSTANT MaxPlain   \* 21: a double with more digits than this gets an exponent

NewWriter == [out |-> <<>>, levels |-> <<>>, ok |-> TRUE]

Put(w, bytes) == [w EXCEPT !.out = @ \o bytes]

-----------------------------------------------------------------------------
(* Numbers.                                                                *)

RECURSIVE Utoa(_)
Utoa(u) == IF u < 10 THEN << 48 + u >> ELSE Append(Utoa(u \div 10), 48 + (u % 10))

Itoa(i) == IF i < 0 THEN << Minus >> \o Utoa(-i) ELSE Utoa(i)

Zeros(n) == [i \in 1 .. n |-> 48]

\* The digits of a double and the place of its point, without or with an
\* exponent.
Prettify(digits, k) ==
  LET length == Len(digits)
      kk     == length + k
  IN CASE 0 <= k /\ kk <= MaxPlain -> digits \o Zeros(k) \o << Dot, 48 >>
       [] k < 0 /\ 0 < kk /\ kk <= MaxPlain ->
            SubSeq(digits, 1, kk) \o << Dot >> \o SubSeq(digits, kk + 1, length)
       [] -6 < kk /\ kk <= 0 -> << 48, Dot >> \o Zeros(-kk) \o digits
       [] OTHER ->
            (IF length = 1 THEN digits
             ELSE << Head(digits), Dot >> \o Tail(digits)) \o << 101 >> \o Itoa(kk - 1)

Dtoa(d) ==
  (IF d.neg THEN << Minus >> ELSE <<>>)
    \o (IF d.m = 0 THEN << 48, Dot, 48 >> ELSE Prettify(Utoa(d.m), d.e))

-----------------------------------------------------------------------------
(* Strings.                                                                *)

HexDigit(n) == IF n < 10 THEN 48 + n ELSE 55 + n

HexEscape(unit) ==
  << Backslash, 117, HexDigit(unit \div 4096), HexDigit((unit \div 256) % 16),
     HexDigit((unit \div 16) % 16), HexDigit(unit % 16) >>

\* The bytes written for an ASCII byte.
EscapeAscii(c) ==
  CASE c = 8  -> << Backslash, 98 >>
    [] c = 9  -> << Backslash, 116 >>
    [] c = 10 -> << Backslash, 110 >>
    [] c = 12 -> << Backslash, 102 >>
    [] c = 13 -> << Backslash, 114 >>
    [] c \in (0 .. 31) \ {8, 9, 10, 12, 13} -> HexEscape(c)
    [] c \in {Quote, Backslash} -> << Backslash, c >>
    [] OTHER -> << c >>

\* Slip: a surrogate pair is made of the code point itself.
EscapeUnicodeWhole(codepoint) ==
  IF codepoint \in 0 .. 55295 \cup 57344 .. 65535 THEN HexEscape(codepoint)
  ELSE HexEscape(55296 + (codepoint \div 1024)) \o HexEscape(56320 + (codepoint % 1024))

\* The bytes written for a code point outside ASCII: one escape or two.
EscapeUnicode(codepoint) ==
  IF codepoint \in 0 .. 55295 \cup 57344 .. 65535 THEN HexEscape(codepoint)
  ELSE LET s == codepoint - 65536
       IN HexEscape(55296 + (s \div 1024)) \o HexEscape(56320 + (s % 1024))

\* The string from byte i on.  A byte sequence that is not UTF-8 ends the
\* call, without the closing quote.
RECURSIVE WriteBytes(_, _, _)
WriteBytes(w, str, i) ==
  LET Transcode(point) ==
        IF point.ok THEN WriteBytes(Put(w, EscapeUnicode(point.codepoint)), str, point.next)
        ELSE [w EXCEPT !.ok = FALSE]
  IN CASE i > Len(str) -> Put(w, << Quote >>)
       [] i <= Len(str) /\ str[i] < 128 -> WriteBytes(Put(w, EscapeAscii(str[i])), str, i + 1)
       [] OTHER -> Transcode(Decode(str, i))

WriteString(w, str) == WriteBytes(Put(w, << Quote >>), str, 1)

-----------------------------------------------------------------------------
(* The handler.                                                            *)

\* What separates a value from the one before it on its level.
Prefix(w) ==
  LET level == Last(w.levels)
      comma == level.inArray \/ level.valueCount % 2 = 0
  IN IF w.levels = <<>> THEN w
     ELSE [ w EXCEPT
              !.out = IF level.valueCount = 0 THEN @
                      ELSE Append(@, IF comma THEN Comma ELSE Colon),
              !.levels[Len(w.levels)].valueCount = @ + 1 ]

StartLevel(w, inArray) ==
  LET p == Prefix(w)
  IN [ p EXCEPT !.levels = Append(@, [inArray |-> inArray, valueCount |-> 0]),
                !.out = Append(@, IF inArray THEN LeftBracket ELSE LeftCurly) ]

EndLevel(w, inArray) ==
  [ w EXCEPT !.levels = Front(@),
             !.out = Append(@, IF inArray THEN RightBracket ELSE RightCurly) ]

Write(w, event) ==
  LET arg == event[2]
  IN CASE event[1] = "Null" -> Put(Prefix(w), <<110, 117, 108, 108>>)
       [] event[1] = "Bool" ->
            Put(Prefix(w), IF arg THEN <<116, 114, 117, 101>> ELSE <<102, 97, 108, 115, 101>>)
       [] event[1] \in {"Int", "Uint", "Int64", "Uint64"} -> Put(Prefix(w), Itoa(arg))
       [] event[1] = "Double" -> Put(Prefix(w), Dtoa(arg))
       [] event[1] \in {"String", "Key"} -> WriteString(Prefix(w), arg)
       [] event[1] = "StartObject" -> StartLevel(w, FALSE)
       [] event[1] = "EndObject"   -> EndLevel(w, FALSE)
       [] event[1] = "StartArray"  -> StartLevel(w, TRUE)
       [] event[1] = "EndArray"    -> EndLevel(w, TRUE)

\* The writer after a sequence of calls whose results nobody looks at, as
\* the server's own messages are written.
WriteAll(events) == FoldLeft(Write, NewWriter, events)

=============================================================================
