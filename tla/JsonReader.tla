----------------------------- MODULE JsonReader -----------------------------
(***************************************************************************)
(* The JSON reader every message, answer and result of the server goes     *)
(* through (codec/rapidjson/reader.h), with the flags the server uses (the *)
(* default ones: no comments, no trailing commas, encoding not validated). *)
(* A reader is the record r of its position in the text, the events it has *)
(* sent to its handler, and its parse result.  The handler is the document *)
(* (JsonDocument), which accepts every event.                              *)
(*                                                                         *)
(* Widths are constants, so that their limits lie within small texts.      *)
(* A double is a decimal significand and exponent: its rounding is cutting *)
(* the value after MaxSignificand digits.                                  *)
(***************************************************************************)
EXTENDS Encodings, FiniteSetsExt

CONSTANTS
  TwoTo32, TwoTo64,   \* one more than the largest unsigned and uint64_t
  TwoTo53,            \* one more than the largest fast-path significand
  MaxSignificand,     \* 17: digits of a fraction that are kept
  MaxExponent         \* 308: the largest decimal exponent of a double

ASSUME WidthsAssumption ==
  /\ {TwoTo32, TwoTo64, TwoTo53, MaxSignificand, MaxExponent} \subseteq Nat
  /\ 20 <= TwoTo32 /\ TwoTo32 % 2 = 0
  /\ TwoTo32 * 4 <= TwoTo64 /\ TwoTo53 * 10 < TwoTo64
  /\ 9 <= MaxExponent

-----------------------------------------------------------------------------
(* The stream and the result.                                              *)

NewReader == [pos |-> 1, ev |-> <<>>, code |-> "None", offset |-> 0]

Peek(s, r) == ByteAt(s, r.pos)
Take(r) == [r EXCEPT !.pos = @ + 1]
Tell(r) == r.pos - 1
Emit(r, event) == [r EXCEPT !.ev = Append(@, event)]

HasParseError(r) == r.code # "None"
ParseError(r, code, offset) == [r EXCEPT !.code = code, !.offset = offset]

Digits == 48 .. 57
Whitespace == {9, 10, 13, 32}
Quote == 34
Comma == 44
Minus == 45
Dot == 46
Colon == 58
LeftBracket == 91
Backslash == 92
RightBracket == 93
LeftCurly == 123
RightCurly == 125

\* The position of the first byte at or after pos that is not in chars.
After(s, pos, chars) ==
  Min({ i \in pos .. Len(s) + 1 : ByteAt(s, i) \notin chars })

SkipWhitespace(s, r) == [r EXCEPT !.pos = After(s, @, Whitespace)]

\* The same after a step that may have failed: a reader that has stays where
\* it is (RAPIDJSON_PARSE_ERROR_EARLY_RETURN).
Skip(s, r) == IF HasParseError(r) THEN r ELSE SkipWhitespace(s, r)

\* A literal whose first byte has been looked at: null, true or false.
Literal(s, r, word, event) ==
  LET matched == Max({ k \in 0 .. Len(word) :
                         \A j \in 1 .. k : ByteAt(s, r.pos + j - 1) = word[j] })
      Matched(after) == IF after.pos = r.pos + Len(word) THEN Emit(after, event)
                        ELSE ParseError(after, "ValueInvalid", Tell(after))
  IN Matched([r EXCEPT !.pos = @ + matched])

ParseNull(s, r)  == Literal(s, r, <<110, 117, 108, 108>>, << "Null", 0 >>)
ParseTrue(s, r)  == Literal(s, r, <<116, 114, 117, 101>>, << "Bool", TRUE >>)
ParseFalse(s, r) == Literal(s, r, <<102, 97, 108, 115, 101>>, << "Bool", FALSE >>)

-----------------------------------------------------------------------------
(* Strings.                                                                *)

HexValue(c) ==
  CASE c \in Digits    -> c - 48
    [] c \in 65 .. 70  -> c - 55
    [] c \in 97 .. 102 -> c - 87
    [] OTHER           -> -1

\* The reader after four hexadecimal digits, and their value.
ParseHex4(s, r, escapeOffset) ==
  LET Valid(digit) ==
        [ r |-> [r EXCEPT !.pos = @ + 4],
          codepoint |-> digit[1] * 4096 + digit[2] * 256 + digit[3] * 16 + digit[4] ]
      Invalid(bad) ==
        [ r |-> ParseError([r EXCEPT !.pos = @ + bad - 1],
                           "StringUnicodeEscapeInvalidHex", escapeOffset),
          codepoint |-> 0 ]
      Read(digit) == IF -1 \in Range(digit)
                     THEN Invalid(Min({ k \in 1 .. 4 : digit[k] = -1 })) ELSE Valid(digit)
  IN Read([k \in 1 .. 4 |-> HexValue(ByteAt(s, r.pos + k - 1))])

\* What a backslash and the byte after it stand for.
Escape ==
  [ e \in {34, 47, 92, 98, 102, 110, 114, 116} |->
      CASE e = 98 -> 8 [] e = 102 -> 12 [] e = 110 -> 10
        [] e = 114 -> 13 [] e = 116 -> 9 [] OTHER -> e ]

SurrogateInvalid(r, escapeOffset) ==
  [r |-> ParseError(r, "StringUnicodeSurrogateInvalid", escapeOffset), codepoint |-> 0]

\* A high surrogate and the escape that was read after it.
LowSurrogate(first, second, escapeOffset) ==
  CASE HasParseError(second.r) -> second
    [] ~HasParseError(second.r) /\ second.codepoint \notin 56320 .. 57343 ->
         SurrogateInvalid(second.r, escapeOffset)
    [] OTHER -> [ r |-> second.r,
                  codepoint |-> (first.codepoint - 55296) * 1024
                                + (second.codepoint - 56320) + 65536 ]

\* What follows an escape that may be half of a surrogate pair.
Surrogates(s, first, escapeOffset) ==
  LET marked == IF ByteAt(s, first.r.pos) = Backslash
                THEN IF ByteAt(s, first.r.pos + 1) = 117 THEN 2 ELSE 1
                ELSE 0
      on     == [first.r EXCEPT !.pos = @ + marked]
  IN CASE HasParseError(first.r) \/ first.codepoint \notin 55296 .. 57343 -> first
       [] ~HasParseError(first.r) /\ first.codepoint \in 56320 .. 57343 ->
            SurrogateInvalid(first.r, escapeOffset)
       [] OTHER -> IF marked # 2 THEN SurrogateInvalid(on, escapeOffset)
                   ELSE LowSurrogate(first, ParseHex4(s, on, escapeOffset), escapeOffset)

\* The escape \uXXXX, or the two that make a surrogate pair, after its u.
UnicodeEscape(s, r, escapeOffset) ==
  Surrogates(s, ParseHex4(s, r, escapeOffset), escapeOffset)

\* The rest of a string after its opening quote: the reader at its closing
\* quote or at an error, and the bytes put so far.
RECURSIVE ParseStringToStream(_, _, _)
ParseStringToStream(s, r, os) ==
  LET c == Peek(s, r)
      e == ByteAt(s, r.pos + 1)
      Put(unicode) ==
        IF HasParseError(unicode.r) THEN [r |-> unicode.r, os |-> os]
        ELSE ParseStringToStream(s, unicode.r, os \o Encode(unicode.codepoint))
  IN CASE c = Backslash /\ e \in DOMAIN Escape ->
            ParseStringToStream(s, [r EXCEPT !.pos = @ + 2], Append(os, Escape[e]))
       [] c = Backslash /\ e = 117 ->
            Put(UnicodeEscape(s, [r EXCEPT !.pos = @ + 2], Tell(r)))
       [] c = Backslash /\ e \notin DOMAIN Escape \cup {117} ->
            [r |-> ParseError(Take(r), "StringEscapeInvalid", Tell(r)), os |-> os]
       [] c = Quote -> [r |-> Take(r), os |-> os]
       [] c < 32 ->
            [ r  |-> ParseError(r, IF c = 0 THEN "StringMissQuotationMark"
                                            ELSE "StringInvalidEncoding", Tell(r)),
              os |-> os ]
       [] OTHER -> ParseStringToStream(s, Take(r), Append(os, c))

ParseString(s, r, isKey) ==
  LET Sent(string) ==
        IF HasParseError(string.r) THEN string.r
        ELSE Emit(string.r, << IF isKey THEN "Key" ELSE "String", string.os >>)
  IN Sent(ParseStringToStream(s, Take(r), <<>>))

-----------------------------------------------------------------------------
(* Numbers.  A number n being read: its position, its significand m, the   *)
(* digits counted, whether 64 bits or a double are in use, and the decimal *)
(* exponent the fraction has earned.                                       *)

Digit(s, n) == ByteAt(s, n.pos) - 48
AtDigit(s, n) == ByteAt(s, n.pos) \in Digits
TakeDigit(s, n) == [n EXCEPT !.pos = @ + 1, !.m = @ * 10 + Digit(s, n)]

\* The digits of an integer, up to the one that would pass limit.
RECURSIVE ParseInt(_, _, _)
ParseInt(s, n, limit) ==
  CASE ~AtDigit(s, n) -> [n EXCEPT !.full = FALSE]
    [] AtDigit(s, n) /\ n.m >= limit \div 10
         /\ (n.m # limit \div 10 \/ Digit(s, n) > limit % 10) ->
         [n EXCEPT !.full = TRUE]
    [] OTHER -> ParseInt(s, [TakeDigit(s, n) EXCEPT !.sig = @ + 1], limit)

\* The digits of an integer that does not fit in 64 bits.
RECURSIVE ParseBigInt(_, _)
ParseBigInt(s, n) == IF AtDigit(s, n) THEN ParseBigInt(s, TakeDigit(s, n)) ELSE n

\* The integer part: 32 bits, then 64, then a double.
IntegerPart(s, pos, minus) ==
  LET new == [ pos |-> pos, m |-> 0, sig |-> 0, full |-> FALSE,
               use64bit |-> FALSE, useDouble |-> FALSE, expFrac |-> 0 ]
      After64(n) == IF n.full THEN ParseBigInt(s, [n EXCEPT !.useDouble = TRUE]) ELSE n
      After32(n) == IF n.full
                    THEN After64(ParseInt(s, [n EXCEPT !.use64bit = TRUE],
                                          IF minus THEN TwoTo64 \div 2 ELSE TwoTo64 - 1))
                    ELSE n
  IN IF ByteAt(s, pos) = 48 THEN [new EXCEPT !.pos = @ + 1]
     ELSE After32(ParseInt(s, TakeDigit(s, new),
                           IF minus THEN TwoTo32 \div 2 ELSE TwoTo32 - 1))

FractionDigit(s, n) ==
  LET Counted(next) ==
        [next EXCEPT !.expFrac = @ - 1, !.sig = @ + (IF next.m > 0 THEN 1 ELSE 0)]
  IN Counted(TakeDigit(s, n))

\* The digits of a fraction while they fit the fast path.
RECURSIVE FastFraction(_, _)
FastFraction(s, n) ==
  IF AtDigit(s, n) /\ n.m < TwoTo53 THEN FastFraction(s, FractionDigit(s, n)) ELSE n

\* The other digits of a fraction: those past MaxSignificand are dropped.
RECURSIVE SlowFraction(_, _)
SlowFraction(s, n) ==
  CASE ~AtDigit(s, n) -> n
    [] AtDigit(s, n) /\ n.sig < MaxSignificand -> SlowFraction(s, FractionDigit(s, n))
    [] OTHER -> SlowFraction(s, [n EXCEPT !.pos = @ + 1])

FractionPart(s, n) ==
  SlowFraction(s, [ (IF n.useDouble THEN n ELSE FastFraction(s, n)) EXCEPT !.useDouble = TRUE ])

\* The digits of an exponent: a positive one that passes MaxExponent stops
\* at the digit that does, a negative one that nears the range of int has
\* its other digits skipped.
RECURSIVE ExponentDigits(_, _, _, _)
ExponentDigits(s, n, exp, expMinus) ==
  LET more   == exp * 10 + Digit(s, n)
      next   == [n EXCEPT !.pos = @ + 1]
      maxExp == IF expMinus THEN (n.expFrac + 2147483639) \div 10 ELSE MaxExponent - n.expFrac
  IN CASE ~AtDigit(s, n) -> [n |-> n, exp |-> exp, tooBig |-> FALSE]
       [] AtDigit(s, n) /\ more > maxExp ->
            [ n |-> IF expMinus THEN [n EXCEPT !.pos = After(s, @, Digits)] ELSE next,
              exp |-> more, tooBig |-> ~expMinus ]
       [] OTHER -> ExponentDigits(s, next, more, expMinus)

\* A double holds MaxSignificand digits of its value; it is kept as
\* significand and exponent without trailing zeros.
RECURSIVE Rounded(_, _, _)
Rounded(neg, m, e) ==
  CASE m = 0 -> [neg |-> neg, m |-> 0, e |-> 0]
    [] m # 0 /\ (m % 10 = 0 \/ m >= 10 ^ MaxSignificand) -> Rounded(neg, m \div 10, e + 1)
    [] OTHER -> [neg |-> neg, m |-> m, e |-> e]

RECURSIVE DecimalLength(_)
DecimalLength(m) == IF m < 10 THEN 1 ELSE 1 + DecimalLength(m \div 10)

\* m * 10 ^ p; what is smaller than the denormal doubles (MaxDenormal more
\* places than MaxExponent), or divided twice by the largest power, is zero.
MaxDenormal == 15
StrtodNormalPrecision(neg, m, p) ==
  Rounded(neg, IF \/ p < -2 * MaxExponent
                  \/ DecimalLength(m) + p < -(MaxExponent + MaxDenormal) THEN 0 ELSE m, p)

\* The event of a number that has been read.
NumberEvent(n, minus, exp) ==
  CASE n.useDouble -> << "Double", StrtodNormalPrecision(minus, n.m, exp + n.expFrac) >>
    [] ~n.useDouble /\ n.use64bit /\ minus  -> << "Int64", -n.m >>
    [] ~n.useDouble /\ n.use64bit /\ ~minus -> << "Uint64", n.m >>
    [] ~n.useDouble /\ ~n.use64bit /\ minus -> << "Int", -n.m >>
    [] OTHER -> << "Uint", n.m >>

FinishNumber(r, n, minus, exp) ==
  LET after == [r EXCEPT !.pos = n.pos]
      Sent(event) ==
        IF /\ n.useDouble /\ event[2].m > 0
           /\ DecimalLength(event[2].m) + event[2].e > MaxExponent + 1
        THEN ParseError(after, "NumberTooBig", Tell(r))
        ELSE Emit(after, event)
  IN Sent(NumberEvent(n, minus, exp))

ExponentPart(s, r, n, minus) ==
  LET sign     == ByteAt(s, n.pos + 1)
      expMinus == sign = Minus
      start    == [n EXCEPT !.useDouble = TRUE, !.pos = @ + (IF sign \in {43, Minus} THEN 2 ELSE 1)]
      Ended(read) ==
        IF read.tooBig THEN ParseError([r EXCEPT !.pos = read.n.pos], "NumberTooBig", Tell(r))
        ELSE FinishNumber(r, read.n, minus, IF expMinus THEN -read.exp ELSE read.exp)
  IN IF AtDigit(s, start)
     THEN Ended(ExponentDigits(s, [start EXCEPT !.pos = @ + 1], Digit(s, start), expMinus))
     ELSE ParseError([r EXCEPT !.pos = start.pos], "NumberMissExponent", start.pos - 1)

ParseNumber(s, r) ==
  LET minus == Peek(s, r) = Minus
      first == IF minus THEN r.pos + 1 ELSE r.pos
      Exponent(n) == IF ByteAt(s, n.pos) \in {69, 101} THEN ExponentPart(s, r, n, minus)
                     ELSE FinishNumber(r, n, minus, 0)
      Fraction(point) ==
        IF AtDigit(s, point) THEN Exponent(FractionPart(s, point))
        ELSE ParseError([r EXCEPT !.pos = point.pos], "NumberMissFraction", point.pos - 1)
      Rest(whole) == IF ByteAt(s, whole.pos) = Dot THEN Fraction([whole EXCEPT !.pos = @ + 1])
                     ELSE Exponent(whole)
  IN IF ByteAt(s, first) \in Digits THEN Rest(IntegerPart(s, first, minus))
     ELSE ParseError([r EXCEPT !.pos = first], "ValueInvalid", first - 1)

-----------------------------------------------------------------------------
(* Values: recursive descent, as Parse uses it.                            *)

RECURSIVE ParseValue(_, _), ParseMembers(_, _, _), ParseElements(_, _, _)

\* The members of an object from a name on; count of them have been read.
ParseMembers(s, r, count) ==
  LET End(after) ==
        CASE HasParseError(after) -> after
          [] ~HasParseError(after) /\ Peek(s, after) = Comma ->
               ParseMembers(s, SkipWhitespace(s, Take(after)), count + 1)
          [] ~HasParseError(after) /\ Peek(s, after) = RightCurly ->
               Emit(Take(after), << "EndObject", count + 1 >>)
          [] OTHER -> ParseError(after, "ObjectMissCommaOrCurlyBracket", Tell(after))
      Value(colon) ==
        CASE HasParseError(colon) -> colon
          [] ~HasParseError(colon) /\ Peek(s, colon) # Colon ->
               ParseError(colon, "ObjectMissColon", Tell(colon))
          [] OTHER -> End(Skip(s, ParseValue(s, SkipWhitespace(s, Take(colon)))))
  IN IF Peek(s, r) # Quote THEN ParseError(r, "ObjectMissName", Tell(r))
     ELSE Value(Skip(s, ParseString(s, r, TRUE)))

ParseObject(s, r) ==
  LET Members(open) ==
        IF Peek(s, open) = RightCurly THEN Emit(Take(open), << "EndObject", 0 >>)
        ELSE ParseMembers(s, open, 0)
  IN Members(SkipWhitespace(s, Emit(Take(r), << "StartObject", 0 >>)))

\* The elements of an array from a value on; count of them have been read.
ParseElements(s, r, count) ==
  LET End(after) ==
        CASE HasParseError(after) -> after
          [] ~HasParseError(after) /\ Peek(s, after) = Comma ->
               ParseElements(s, SkipWhitespace(s, Take(after)), count + 1)
          [] ~HasParseError(after) /\ Peek(s, after) = RightBracket ->
               Emit(Take(after), << "EndArray", count + 1 >>)
          [] OTHER -> ParseError(after, "ArrayMissCommaOrSquareBracket", Tell(after))
  IN End(Skip(s, ParseValue(s, r)))

ParseArray(s, r) ==
  LET Elements(open) ==
        IF Peek(s, open) = RightBracket THEN Emit(Take(open), << "EndArray", 0 >>)
        ELSE ParseElements(s, open, 0)
  IN Elements(SkipWhitespace(s, Emit(Take(r), << "StartArray", 0 >>)))

ParseValue(s, r) ==
  CASE Peek(s, r) = 110         -> ParseNull(s, r)
    [] Peek(s, r) = 116         -> ParseTrue(s, r)
    [] Peek(s, r) = 102         -> ParseFalse(s, r)
    [] Peek(s, r) = Quote       -> ParseString(s, r, FALSE)
    [] Peek(s, r) = LeftCurly   -> ParseObject(s, r)
    [] Peek(s, r) = LeftBracket -> ParseArray(s, r)
    [] OTHER                    -> ParseNumber(s, r)

\* The reader when Parse has returned.
Parse(s) ==
  LET Root(after) ==
        IF HasParseError(after) \/ Peek(s, after) = 0 THEN after
        ELSE ParseError(after, "DocumentRootNotSingular", Tell(after))
      Value(start) ==
        IF Peek(s, start) = 0 THEN ParseError(start, "DocumentEmpty", Tell(start))
        ELSE Root(Skip(s, ParseValue(s, start)))
  IN Value(SkipWhitespace(s, NewReader))

=============================================================================
