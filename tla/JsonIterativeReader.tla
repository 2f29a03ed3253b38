------------------------ MODULE JsonIterativeReader ------------------------
(***************************************************************************)
(* The second parser of reader.h, selected by kParseIterativeFlag: a state *)
(* machine with a stack of its own in place of recursion.  Its state is    *)
(* the record p of the reader, the state and the stack, whose frames hold  *)
(* the state to return to and the count of members or elements.            *)
(***************************************************************************)
EXTENDS JsonReader

ValueTokens == {"String", "False", "True", "Null", "Number"}

Tokenize(c) ==
  CASE c = LeftBracket  -> "LeftBracket"
    [] c = RightBracket -> "RightBracket"
    [] c = LeftCurly    -> "LeftCurly"
    [] c = RightCurly   -> "RightCurly"
    [] c = Comma        -> "Comma"
    [] c = Colon        -> "Colon"
    [] c = Quote        -> "String"
    [] c = 102          -> "False"
    [] c = 116          -> "True"
    [] c = 110          -> "Null"
    [] OTHER            -> "Number"

\* The state a token leads to; what is not listed leads to Error.
Predict(state, token) ==
  CASE state \in {"Start", "ArrayInitial", "ElementDelimiter", "KeyValueDelimiter"}
         /\ token = "LeftBracket" -> "ArrayInitial"
    [] state \in {"Start", "ArrayInitial", "ElementDelimiter", "KeyValueDelimiter"}
         /\ token = "LeftCurly" -> "ObjectInitial"
    [] state = "Start" /\ token \in ValueTokens -> "Value"
    [] state \in {"ArrayInitial", "ElementDelimiter"} /\ token \in ValueTokens -> "Element"
    [] state = "KeyValueDelimiter" /\ token \in ValueTokens -> "MemberValue"
    [] state \in {"ObjectInitial", "MemberDelimiter"} /\ token = "String" -> "MemberKey"
    [] state = "MemberKey" /\ token = "Colon" -> "KeyValueDelimiter"
    [] state = "MemberValue" /\ token = "Comma" -> "MemberDelimiter"
    [] state = "Element" /\ token = "Comma" -> "ElementDelimiter"
    [] state \in {"ObjectInitial", "MemberValue", "MemberDelimiter"}
         /\ token = "RightCurly" -> "ObjectFinish"
    [] state \in {"ArrayInitial", "Element", "ElementDelimiter"}
         /\ token = "RightBracket" -> "ArrayFinish"
    [] OTHER -> "Error"

\* An object or an array opens: remember the state that follows it.
Open(p, dst) ==
  LET n == CASE p.state \in {"ArrayInitial", "ElementDelimiter"} -> "Element"
             [] p.state = "KeyValueDelimiter" -> "MemberValue"
             [] OTHER -> p.state
      event == IF dst = "ObjectInitial" THEN "StartObject" ELSE "StartArray"
  IN [ r |-> Take(Emit(p.r, << event, 0 >>)), state |-> dst,
       stack |-> Append(p.stack, << n, 0 >>) ]

\* An object or an array closes; a delimiter before its end is an error.
Close(p, dst) ==
  LET frame == p.stack[Len(p.stack)]
      count == frame[2] + (IF p.state \in {"MemberValue", "Element"} THEN 1 ELSE 0)
      event == IF dst = "ObjectFinish" THEN "EndObject" ELSE "EndArray"
      error == IF dst = "ObjectFinish" THEN "ObjectMissName" ELSE "ValueInvalid"
  IN IF p.state \in {"MemberDelimiter", "ElementDelimiter"}
     THEN [p EXCEPT !.r = ParseError(p.r, error, Tell(p.r)), !.state = "Error"]
     ELSE [ r |-> Take(Emit(p.r, << event, count >>)),
            state |-> IF frame[1] = "Start" THEN "Finish" ELSE frame[1],
            stack |-> SubSeq(p.stack, 1, Len(p.stack) - 1) ]

\* One token is consumed on the way to dst.
Transit(s, p, dst) ==
  LET Read(r) == [p EXCEPT !.r = r,
                           !.state = CASE HasParseError(r) -> "Error"
                                       [] ~HasParseError(r) /\ dst = "Value" -> "Finish"
                                       [] OTHER -> dst]
  IN CASE dst = "Error" -> [p EXCEPT !.state = "Error"]
       [] dst \in {"ObjectInitial", "ArrayInitial"} -> Open(p, dst)
       [] dst \in {"ObjectFinish", "ArrayFinish"} -> Close(p, dst)
       [] dst = "KeyValueDelimiter" -> [p EXCEPT !.r = Take(@), !.state = dst]
       [] dst \in {"MemberDelimiter", "ElementDelimiter"} ->
            [p EXCEPT !.r = Take(@), !.state = dst, !.stack[Len(p.stack)][2] = @ + 1]
       [] dst \in {"MemberKey", "MemberValue", "Element", "Value"} ->
            Read(IF dst = "MemberKey" THEN ParseString(s, p.r, TRUE) ELSE ParseValue(s, p.r))

\* The error of a parser that stopped in state src.
HandleError(src, r) ==
  IF HasParseError(r) THEN r
  ELSE ParseError(r,
         CASE src = "Start" -> "DocumentEmpty"
           [] src = "Finish" -> "DocumentRootNotSingular"
           [] src \in {"ObjectInitial", "MemberDelimiter"} -> "ObjectMissName"
           [] src = "MemberKey" -> "ObjectMissColon"
           [] src = "MemberValue" -> "ObjectMissCommaOrCurlyBracket"
           [] src = "Element" -> "ArrayMissCommaOrSquareBracket"
           [] OTHER -> "ValueInvalid",
         Tell(r))

RECURSIVE IterativeSteps(_, _)
IterativeSteps(s, p) ==
  LET Went(next) ==
        IF next.state = "Error" THEN HandleError(p.state, next.r)
        ELSE IterativeSteps(s, [next EXCEPT !.r = SkipWhitespace(s, @)])
  IN CASE Peek(s, p.r) # 0 -> Went(Transit(s, p, Predict(p.state, Tokenize(Peek(s, p.r)))))
       [] Peek(s, p.r) = 0 /\ p.state # "Finish" -> HandleError(p.state, p.r)
       [] OTHER -> p.r

IterativeParse(s) ==
  IterativeSteps(s, [r |-> SkipWhitespace(s, NewReader), state |-> "Start", stack |-> <<>>])

=============================================================================
