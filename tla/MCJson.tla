------------------------------- MODULE MCJson -------------------------------
(* Every text that grows, byte by byte, from a set of beginnings; and, one *)
(* at a time, the memory behind documents and behind output.               *)
EXTENDS JsonText, JsonIterativeReader, JsonWriter, MemoryPool, OutputBuffer

VARIABLES text, kind

\* Beginnings, the bytes that may follow them, and how many.
Kinds == { "structure", "spaced", "literal", "number", "wide", "string", "surrogate", "utf8", "astral" }

Beginnings ==
  [ structure |-> { <<>> }, spaced |-> { <<>> }, literal |-> { <<>> }, number |-> { <<>> },
    wide      |-> { <<50, 53>>, <<45, 49, 50>>, <<51>>, <<45, 49>> },
    string    |-> { <<34>> },
    surrogate |-> { <<34, 92, 117, 68, 56, 51>> },
    utf8      |-> { <<34>> },
    astral    |-> { <<34, 240>>, <<34, 241>>, <<34, 244>> } ]

Bytes ==
  [ structure |-> {Quote, Comma, Colon, LeftBracket, RightBracket, LeftCurly, RightCurly, 49},
    spaced    |-> {32, Quote, Comma, Colon, LeftBracket, RightBracket, LeftCurly, RightCurly, 49},
    literal   |-> {32, 97, 101, 102, 108, 110, 114, 115, 116, 117},
    number    |-> {43, Minus, Dot, 48, 49, 50, 54, 101},
    wide      |-> {Dot, 49, 50, 53, 54, 56, 57},
    string    |-> {Quote, Backslash, 9, 47, 48, 97, 110, 117},
    surrogate |-> {Quote, Backslash, 48, 68, 69, 117},
    utf8      |-> {Quote, 128, 130, 160, 172, 191, 192, 194, 224, 226, 237, 240, 244},
    astral    |-> {Quote, 128, 143, 144, 160, 191} ]

Longest ==
  [ structure |-> 7, spaced |-> 6, literal |-> 6, number |-> 6, wide |-> 6, string |-> 6,
    surrogate |-> 14, utf8 |-> 5, astral |-> 6 ]

\* The reader has given up before the end of the text.
Stopped(r, t) == HasParseError(r) /\ r.pos <= Len(t)

\* Of the memory at rest, one state.
AtRest ==
  /\ chunks = << [base |-> Header, capacity |-> FirstCapacity, size |-> 0] >>
  /\ blocks = {} /\ holders = {}

Init ==
  /\ BufferInit
  /\ \/ kind \in Kinds /\ text \in Beginnings[kind] /\ AtRest
     \/ kind = "memory" /\ text = <<>> /\ PoolInit
     \/ kind = "buffer" /\ text = <<>> /\ AtRest

Type ==
  /\ kind \in Kinds
  /\ Len(text) < Longest[kind] /\ ~Stopped(Parse(text), text)
  /\ \E c \in Bytes[kind] : text' = Append(text, c)
  /\ UNCHANGED <<kind, poolVars, bufferVars>>

Use == kind = "memory" /\ PoolNext /\ UNCHANGED <<kind, text, bufferVars>>

Buffer == kind = "buffer" /\ BufferNext /\ UNCHANGED <<kind, text, poolVars>>

Spec == Init /\ [][Type \/ Use \/ Buffer]_<<text, kind, poolVars, bufferVars>>

-----------------------------------------------------------------------------
(* Properties.                                                             *)

\* A text that begins with ] } , or : is one of an empty document to the
\* iterative parser and an invalid value to the recursive one.
SameResult(a, b) ==
  /\ a.ev = b.ev /\ a.offset = b.offset
  /\ \/ a.code = b.code
     \/ a.code = "ValueInvalid" /\ b.code = "DocumentEmpty" /\ a.ev = <<>>

\* The reader accepts exactly the JSON texts (lone surrogates and numbers
\* beyond a double excepted), and the document it builds is the one the text
\* denotes, each integer with the types that hold it; the iterative parser
\* sends the events of the recursive one and stops at the same byte
\* (reader.h Parse, IterativeParse, document.h handler and constructors).
ReadsJson ==
  LET Denotes(d, ref) == ref = IF d.error THEN {} ELSE { d.root }
  IN /\ Denotes(ParseDocument(text), RefText(text))
     /\ SameResult(Parse(text), IterativeParse(text))

\* A document is written, for ASCII readers, exactly if its strings are
\* UTF-8, and what is written reads back as the same document (writer.h).
RoundTrip ==
  LET Strings(events) == { e[2] : e \in { e \in Range(events) : e[1] \in {"String", "Key"} } }
      Written(d, events, w) ==
        /\ w.ok <=> \A str \in Strings(events) : Utf8(str)
        /\ w.ok => /\ \A i \in DOMAIN w.out : w.out[i] \in 32 .. 126
                   /\ ParseDocument(w.out) = d
      Accepted(d, events) == Written(d, events, WriteAll(events))
      Kept(d) == ~d.error => Accepted(d, Accept(d.root))
  IN Kept(ParseDocument(text))

=============================================================================
