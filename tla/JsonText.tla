------------------------------ MODULE JsonText ------------------------------
(***************************************************************************)
(* What a JSON text means (RFC 8259), as a definition that splits the text *)
(* in every possible way and knows nothing of a parser: the reference for  *)
(* JsonReader and JsonDocument.  RefText(t) is the set of the documents    *)
(* the text t denotes: one for a JSON text, none for another.              *)
(***************************************************************************)
EXTENDS JsonDocument

LOCAL Between(t, i, j) == SubSeq(t, i, j)
LOCAL AllIn(t, chars) == \A i \in DOMAIN t : t[i] \in chars
LOCAL DigitString(t) == t # <<>> /\ AllIn(t, Digits)

RECURSIVE NumberOf(_)
NumberOf(t) == IF t = <<>> THEN 0 ELSE NumberOf(Front(t)) * 10 + Last(t) - 48

RECURSIVE DoubleOf(_, _, _)
DoubleOf(neg, m, e) ==
  CASE m = 0 -> [neg |-> neg, m |-> 0, e |-> 0]
    [] m # 0 /\ \/ m % 10 = 0
                \/ DecimalLength(m) > MaxSignificand -> DoubleOf(neg, m \div 10, e + 1)
    [] OTHER -> [neg |-> neg, m |-> m, e |-> e]

\* An integer is kept with every type that can hold it; one no type can
\* hold becomes a double.
RefInteger(i) ==
  LET holds == [ Int    |-> -(TwoTo32 \div 2) .. (TwoTo32 \div 2) - 1,
                 Uint   |-> 0 .. TwoTo32 - 1,
                 Int64  |-> -(TwoTo64 \div 2) .. (TwoTo64 \div 2) - 1,
                 Uint64 |-> 0 .. TwoTo64 - 1 ]
      types == { type \in DOMAIN holds : i \in holds[type] }
  IN IF types = {} THEN << DoubleOf(i < 0, IF i < 0 THEN -i ELSE i, 0), {"Double"} >>
     ELSE << i, types >>

\* A number is a sign, an integer, a fraction and an exponent.  Beyond the
\* range of a double there is none, and so for a zero with such an exponent;
\* below it there is zero.
RefNumber(t) ==
  { << "Number", v >> : v \in UNION
    { LET sign == Between(t, 1, p)   int == Between(t, p + 1, q)
          frac == Between(t, q + 1, f)   exp == Between(t, f + 1, Len(t))
          marked == Len(exp) > 1 /\ exp[2] \in {43, Minus}
          power == Between(exp, IF marked THEN 3 ELSE 2, Len(exp))
          e == (IF marked /\ exp[2] = Minus THEN -1 ELSE 1) * NumberOf(power)
          decimals == IF frac = <<>> THEN <<>> ELSE Tail(frac)
          m == NumberOf(int \o decimals)
          scale == e - Len(decimals)
          magnitude == (IF m = 0 THEN 1 ELSE DecimalLength(m)) + scale
      IN IF /\ sign \in {<<>>, << Minus >>}
            /\ DigitString(int) /\ (Len(int) = 1 \/ int[1] # 48)
            /\ frac = <<>> \/ (frac[1] = Dot /\ DigitString(Tail(frac)))
            /\ exp = <<>> \/ (exp[1] \in {69, 101} /\ DigitString(power))
            /\ (frac # <<>> \/ exp # <<>>) => magnitude <= MaxExponent + 1
         THEN { IF frac = <<>> /\ exp = <<>>
                THEN RefInteger(IF sign = <<>> THEN m ELSE -m)
                ELSE << DoubleOf(sign # <<>>, IF magnitude < -(MaxExponent + MaxDenormal)
                                            THEN 0 ELSE m, scale), {"Double"} >> }
         ELSE {} : p \in 0 .. 1, q \in 1 .. Len(t), f \in 1 .. Len(t) } }

\* The inside of a string: bytes, escapes, \uXXXX and surrogate pairs.
Hex(t) == AllIn(t, {HexDigit \in 0 .. 255 : HexValue(HexDigit) >= 0})
Unit(t) == HexValue(t[3]) * 4096 + HexValue(t[4]) * 256 + HexValue(t[5]) * 16 + HexValue(t[6])
IsUnit(t) == Len(t) = 6 /\ t[1] = Backslash /\ t[2] = 117 /\ Hex(Between(t, 3, 6))

RefChar(t) ==
  CASE Len(t) = 1 /\ t[1] \notin 0 .. 31 \cup {Quote, Backslash} -> { t }
    [] Len(t) = 2 /\ t[1] = Backslash ->
         { << p[2] >> : p \in { p \in { <<34, 34>>, <<92, 92>>, <<47, 47>>, <<98, 8>>,
                                        <<102, 12>>, <<110, 10>>, <<114, 13>>, <<116, 9>> } :
                                p[1] = t[2] } }
    [] IsUnit(t) -> IF Unit(t) \in 55296 .. 57343 THEN {} ELSE { Encode(Unit(t)) }
    [] Len(t) = 12 /\ IsUnit(Between(t, 1, 6)) /\ IsUnit(Between(t, 7, 12)) ->
         LET high == Unit(t) - 55296   low == Unit(Between(t, 7, 12)) - 56320
         IN IF high \in 0 .. 1023 /\ low \in 0 .. 1023
            THEN { Encode(65536 + (high * 1024) + low) } ELSE {}
    [] OTHER -> {}

RECURSIVE RefChars(_)
RefChars(t) ==
  IF t = <<>> THEN { <<>> }
  ELSE UNION { { c \o rest : c \in RefChar(Between(t, 1, k)),
                             rest \in RefChars(Between(t, k + 1, Len(t))) } :
               k \in {1, 2, 6, 12} \cap DOMAIN t }

RefString(t) ==
  IF Len(t) >= 2 /\ t[1] = Quote /\ Last(t) = Quote
  THEN RefChars(Between(t, 2, Len(t) - 1)) ELSE {}

\* The text without the white space around it.
Strip(t) ==
  LET inner == { i \in DOMAIN t : t[i] \notin Whitespace }
  IN IF inner = {} THEN <<>> ELSE Between(t, Min(inner), Max(inner))

RECURSIVE RefText(_), RefElements(_), RefMembers(_)

RefMember(t) ==
  UNION { { << << "String", name >>, value >> :
              name \in RefString(Strip(Between(t, 1, k - 1))),
              value \in RefText(Between(t, k + 1, Len(t))) } :
          k \in { k \in DOMAIN t : t[k] = Colon } }

RefElements(t) ==
  { << v >> : v \in RefText(t) } \cup
  UNION { { << v >> \o rest : v \in RefText(Between(t, 1, k - 1)),
                              rest \in RefElements(Between(t, k + 1, Len(t))) } :
          k \in { k \in DOMAIN t : t[k] = Comma } }

RefMembers(t) ==
  { << v >> : v \in RefMember(t) } \cup
  UNION { { << v >> \o rest : v \in RefMember(Between(t, 1, k - 1)),
                              rest \in RefMembers(Between(t, k + 1, Len(t))) } :
          k \in { k \in DOMAIN t : t[k] = Comma } }

RefText(text) ==
  LET t == Strip(text)
      inner == Between(t, 2, Len(t) - 1)
      Enclosed(open, close) == Len(t) >= 2 /\ t[1] = open /\ Last(t) = close
  IN CASE t = <<>> -> {}
       [] t = <<110, 117, 108, 108>> -> { << "Null", 0 >> }
       [] t = <<116, 114, 117, 101>> -> { << "True", 0 >> }
       [] t = <<102, 97, 108, 115, 101>> -> { << "False", 0 >> }
       [] Enclosed(LeftBracket, RightBracket) ->
            { << "Array", v >> : v \in IF Strip(inner) = <<>> THEN { <<>> }
                                       ELSE RefElements(inner) }
       [] Enclosed(LeftCurly, RightCurly) ->
            { << "Object", v >> : v \in IF Strip(inner) = <<>> THEN { <<>> }
                                        ELSE RefMembers(inner) }
       [] t # <<>> /\ t[1] = Quote -> { << "String", v >> : v \in RefString(t) }
       [] OTHER -> RefNumber(t)

-----------------------------------------------------------------------------
\* Bytes that are UTF-8: the encodings of the code points that are not
\* surrogates.
Utf8(str) ==
  \A i \in DOMAIN str :
    LET lead(n) == CASE n = 1 -> 0 .. 127 [] n = 2 -> 194 .. 223
                     [] n = 3 -> 224 .. 239 [] n = 4 -> 240 .. 244
        tail(j) == j \in DOMAIN str /\ str[j] \in 128 .. 191
        bits(j) == str[j] - 128
        point(n) == CASE n = 3 -> ((str[i] - 224) * 4096) + (bits(i + 1) * 64) + bits(i + 2)
                      [] n = 4 -> ((str[i] - 240) * 262144) + (bits(i + 1) * 4096)
                                    + (bits(i + 2) * 64) + bits(i + 3)
        starts(n) ==
          /\ str[i] \in lead(n) /\ \A j \in 1 .. n - 1 : tail(i + j)
          /\ n = 3 => point(3) \in 2048 .. 55295 \cup 57344 .. 65535
          /\ n = 4 => point(4) \in 65536 .. 1114111
    IN \/ \E n \in 1 .. 4 : starts(n)
       \/ /\ str[i] \in 128 .. 191
          /\ \E n \in 2 .. 4, j \in 1 .. 3 :
               /\ j < n /\ i - j >= 1 /\ str[i - j] \in lead(n)
               /\ \A k \in i - j + 1 .. i : tail(k)

=============================================================================
