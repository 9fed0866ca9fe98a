------------------------------- MODULE Reader -------------------------------
(***************************************************************************)
(* GenericReader: a JSON text becomes the events of a handler, by the      *)
(* recursive parser the library uses and by the iterative one.             *)
(*                                                                         *)
(* A text is a sequence of UTF-8 code units, followed by a 0. The input c  *)
(* holds the text, the set of parse flags, and the number of the event the *)
(* handler refuses (0 for none). A reader r is at a position, has sent     *)
(* events and may have an error. The limits of the number types are        *)
(* constants; a double is +-i * 10^p before it is rounded, and the largest *)
(* one is taken for 10^(MaxExponent + 1).                                  *)
(***************************************************************************)
EXTENDS Encodings

CONSTANTS IntLimit, UIntLimit,      \* 2^31 and 2^32
          Int64Limit, UInt64Limit,  \* 2^63 and 2^64
          FastLimit,                \* 2^53
          SignificandDigits,        \* 17
          MaxExponent,              \* 308
          MaxInt                    \* 2^31 - 1

Quote == 34
Backslash == 92
Comma == 44
ColonChar == 58
SlashChar == 47
Star == 42
OpenSquare == 91
CloseSquare == 93
OpenCurly == 123
CloseCurly == 125
DigitChars == 48..57
Null4 == <<110, 117, 108, 108>>
True4 == <<116, 114, 117, 101>>
False5 == <<102, 97, 108, 115, 101>>

Begun == [at |-> 1, events |-> <<>>, error |-> "none", offset |-> 0]
Peek(c, r) == Unit(c.text, r.at)
Failed(r) == r.error # "none"
Fail(r, code, offset) == [r EXCEPT !.error = code, !.offset = offset]
FailHere(r, code) == Fail(r, code, r.at - 1)
Ahead(r, n) == [r EXCEPT !.at = @ + n]
Sees(c, r, chars) == \A i \in DOMAIN chars : Unit(c.text, r.at + i - 1) = chars[i]

\* The handler is called; if it refuses, the parsing ends.
Send(c, r, event, offset) ==
    LET sent == [r EXCEPT !.events = Append(@, event)]
    IN  IF Len(sent.events) = c.refuse THEN Fail(sent, "Termination", offset) ELSE sent

-----------------------------------------------------------------------------
(* White space and comments                                                *)

Spaces == {32, 10, 13, 9}
RECURSIVE SkipWhitespace(_, _), SkipLine(_, _), SkipBlock(_, _), SkipWhitespaceAndComments(_, _)
SkipWhitespace(c, r) ==
    IF Peek(c, r) \in Spaces THEN SkipWhitespace(c, Ahead(r, 1)) ELSE r
SkipLine(c, r) ==
    CASE Peek(c, r) = 0 -> r
      [] Peek(c, r) = 10 -> Ahead(r, 1)
      [] OTHER -> SkipLine(c, Ahead(r, 1))
SkipBlock(c, r) ==
    CASE Peek(c, r) = 0 -> FailHere(r, "UnspecificSyntaxError")
      [] Sees(c, r, <<Star, SlashChar>>) -> Ahead(r, 2)
      [] OTHER -> SkipBlock(c, Ahead(r, 1))
SkipWhitespaceAndComments(c, r) ==
    LET s == SkipWhitespace(c, r)
        block == SkipBlock(c, Ahead(s, 2))
    IN  CASE "comments" \notin c.flags \/ Peek(c, s) # SlashChar -> s
          [] Sees(c, s, <<SlashChar, Star>>) /\ "comments" \in c.flags ->
               IF Failed(block) THEN block ELSE SkipWhitespaceAndComments(c, block)
          [] Sees(c, s, <<SlashChar, SlashChar>>) /\ "comments" \in c.flags ->
               SkipWhitespaceAndComments(c, SkipLine(c, Ahead(s, 2)))
          [] OTHER -> FailHere(Ahead(s, 1), "UnspecificSyntaxError")

-----------------------------------------------------------------------------
(* Literals and strings                                                    *)

\* The characters that belong to the word are consumed before it is found wrong.
Common(c, r, word) ==
    Max({ n \in 0..Len(word) : \A i \in 1..n : Unit(c.text, r.at + i - 1) = word[i] })
ParseLiteral(c, r, word, event) ==
    LET s == Ahead(r, Common(c, r, word))
    IN  IF s.at - r.at = Len(word) THEN Send(c, s, event, s.at - 1)
        ELSE FailHere(s, "ValueInvalid")

HexValue(h) == CASE h \in DigitChars -> h - 48
                 [] h \in 65..70 -> h - 55
                 [] h \in 97..102 -> h - 87
                 [] OTHER -> -1
\* Four hexadecimal digits at i; -1 if they are not.
ParseHex4(t, i) ==
    LET digits == [k \in 1..4 |-> HexValue(Unit(t, i + k - 1))]
    IN  IF \E k \in 1..4 : digits[k] < 0 THEN -1
        ELSE FoldLeft(LAMBDA n, d : n * 16 + d, 0, digits)

Escape == [e \in {Quote, SlashChar, Backslash, 98, 102, 110, 114, 116} |->
             CASE e = 98 -> 8 [] e = 102 -> 12 [] e = 110 -> 10 [] e = 114 -> 13
               [] e = 116 -> 9 [] OTHER -> e]

\* The character of the escape "\u" at i.
ParseUnicode(t, i) ==
    LET high == ParseHex4(t, i + 2)
        low == ParseHex4(t, i + 8)
        pair == Unit(t, i + 6) = Backslash /\ Unit(t, i + 7) = 117
        Error(code) == [error |-> code]
    IN  CASE high < 0 -> Error("StringUnicodeEscapeInvalidHex")
          [] high \in 0..65535 /\ high \notin 55296..57343 ->
               [error |-> "none", cp |-> high, used |-> 6]
          [] high \in 56320..57343 \/ (high \in 55296..56319 /\ ~pair) ->
               Error("StringUnicodeSurrogateInvalid")
          [] high \in 55296..56319 /\ pair /\ low < 0 -> Error("StringUnicodeEscapeInvalidHex")
          [] high \in 55296..56319 /\ pair /\ low >= 0 /\ low \notin 56320..57343 ->
               Error("StringUnicodeSurrogateInvalid")
          [] OTHER -> [error |-> "none", used |-> 12,
                       cp |-> (high - 55296) * 1024 + (low - 56320) + 65536]

\* The rest of a string, whose bytes so far are in out; the event is sent at its end.
RECURSIVE ParseStringToStream(_, _, _, _)
ParseStringToStream(c, r, out, on) ==
    LET u == Peek(c, r)
        e == Unit(c.text, r.at + 1)
        unicode == ParseUnicode(c.text, r.at)
        checked == Validate("UTF8", SubSeq(c.text, r.at, Len(c.text)))
        Goes(n, bytes) == ParseStringToStream(c, Ahead(r, n), out \o bytes, on)
    IN  CASE u = Backslash /\ e \in DOMAIN Escape -> Goes(2, <<Escape[e]>>)
          [] u = Backslash /\ e = 39 /\ "apostrophe" \in c.flags -> Goes(2, <<e>>)
          [] u = Backslash /\ e = 117 ->
               IF unicode.error # "none" THEN FailHere(r, unicode.error)
               ELSE Goes(unicode.used, Encode("UTF8", unicode.cp))
          [] u = Backslash /\ e \notin (DOMAIN Escape \cup {117})
               /\ ~(e = 39 /\ "apostrophe" \in c.flags) -> FailHere(r, "StringEscapeInvalid")
          [] u = Quote -> Send(c, Ahead(r, 1), <<on, out>>, r.at)
          [] u = 0 -> FailHere(r, "StringMissQuotationMark")
          [] u \in 1..31 -> FailHere(r, "StringInvalidEncoding")
          [] OTHER -> IF "validate" \notin c.flags THEN Goes(1, <<u>>)
                      ELSE IF checked.ok THEN Goes(Len(checked.out), checked.out)
                      ELSE FailHere(r, "StringInvalidEncoding")

ParseString(c, r, on) == ParseStringToStream(c, Ahead(r, 1), <<>>, on)

-----------------------------------------------------------------------------
(* Numbers. n holds the position, the digits read as a number, its width   *)
(* (1 for int, 2 for int64, 3 for double), the significant digits counted, *)
(* and the power of ten.                                                   *)

IsDigit(u) == u \in DigitChars

\* Mutant: the sign is not regarded.
LimitOfUnsigned(width, minus) == IF width = 1 THEN UIntLimit - 1 ELSE UInt64Limit - 1

LimitOf(width, minus) ==
    CASE width = 1 -> IF minus THEN IntLimit ELSE UIntLimit - 1
      [] width = 2 -> IF minus THEN Int64Limit ELSE UInt64Limit - 1

With(n, digit) == [n EXCEPT !.at = @ + 1, !.i = @ * 10 + digit - 48]

RECURSIVE IntegerDigits(_, _), FractionDigits(_, _), ExponentDigits(_, _, _, _)
IntegerDigits(t, n) ==
    LET u == Unit(t, n.at)
    IN  CASE ~IsDigit(u) -> n
          [] IsDigit(u) /\ n.width = 3 -> IntegerDigits(t, With(n, u))
          [] IsDigit(u) /\ n.width < 3 ->
               IF n.i * 10 + u - 48 > LimitOf(n.width, n.minus)
               THEN IntegerDigits(t, [n EXCEPT !.width = @ + 1])
               ELSE IntegerDigits(t, [With(n, u) EXCEPT !.significant = @ + 1])

\* While the digits are exact in 64 bits they are all kept, later those that count.
FractionDigits(t, n) ==
    LET u == Unit(t, n.at)
        more == With(n, u)
        kept == [more EXCEPT !.p = @ - 1, !.significant = IF more.i # 0 THEN @ + 1 ELSE @]
        fast == n.fast /\ n.i < FastLimit
    IN  CASE ~IsDigit(u) -> n
          [] IsDigit(u) /\ (fast \/ n.significant < SignificandDigits) ->
               FractionDigits(t, [kept EXCEPT !.fast = fast])
          [] OTHER -> FractionDigits(t, [n EXCEPT !.at = @ + 1, !.fast = FALSE])

\* A negative exponent beyond max is read to its end, a positive one is an error.
ExponentDigits(t, e, minus, max) ==
    LET u == Unit(t, e.at)
        exp == e.exp * 10 + u - 48
    IN  CASE ~IsDigit(u) \/ e.big -> e
          [] IsDigit(u) /\ ~e.big /\ minus /\ e.exp > max ->
               ExponentDigits(t, [e EXCEPT !.at = @ + 1], minus, max)
          [] OTHER -> ExponentDigits(t, [at |-> e.at + 1, exp |-> exp,
                                         big |-> ~minus /\ exp > max], minus, max)

RECURSIVE Length(_)
Length(d) == IF d < 10 THEN 1 ELSE 1 + Length(d \div 10)

\* "NaN", "Inf" and "Infinity", after the sign; what belongs to a word is consumed.
ParseNanOrInf(c, r, minus, start) ==
    LET nan == <<78, 97, 78>>
        inf == <<73, 110, 102>>
        infinity == inf \o <<105, 110, 105, 116, 121>>
        word == CASE Peek(c, r) = 78 -> nan
                  [] Peek(c, r) = 73 /\ Unit(c.text, r.at + 3) = 105 -> infinity
                  [] OTHER -> inf
        s == Ahead(r, Common(c, r, word))
        value == IF word = nan THEN "NaN" ELSE "Inf"
    IN  IF s.at - r.at = Len(word) THEN Send(c, s, <<"Double", minus /\ word # nan, value>>, start)
        ELSE FailHere(s, "ValueInvalid")

ParseNumber(c, r) ==
    LET t == c.text
        minus == Peek(c, r) = 45
        first == r.at + IF minus THEN 1 ELSE 0
        zero == [at |-> first, i |-> 0, width |-> 1, significant |-> 0, p |-> 0,
                 minus |-> minus, fast |-> TRUE]
        int == IF Unit(t, first) = 48 THEN With(zero, 48)
               ELSE IntegerDigits(t, With(zero, Unit(t, first)))
        point == Unit(t, int.at) = 46
        frac == IF point
                THEN [FractionDigits(t, [int EXCEPT !.at = @ + 1, !.fast = int.width < 3])
                        EXCEPT !.width = 3]
                ELSE int
        power == Unit(t, frac.at) \in {69, 101}
        sign == Unit(t, frac.at + 1)
        digits == frac.at + IF sign \in {43, 45} THEN 2 ELSE 1
        max == IF sign = 45 THEN (frac.p + MaxInt - 8) \div 10 ELSE MaxExponent - frac.p
        begun == [at |-> digits + 1, exp |-> Unit(t, digits) - 48, big |-> FALSE]
        exponent == IF power THEN ExponentDigits(t, begun, sign = 45, max)
                    ELSE [at |-> frac.at, exp |-> 0, big |-> FALSE]
        p == frac.p + (IF power /\ sign = 45 THEN -exponent.exp ELSE exponent.exp)
        Signed(n) == IF minus THEN -n ELSE n
        start == r.at - 1
        done == [r EXCEPT !.at = exponent.at]
    IN  CASE ~IsDigit(Unit(t, first)) /\ "nan" \in c.flags ->
               ParseNanOrInf(c, [r EXCEPT !.at = first], minus, start)
          [] ~IsDigit(Unit(t, first)) /\ "nan" \notin c.flags ->
               Fail(r, "ValueInvalid", first - 1)
          [] point /\ ~IsDigit(Unit(t, int.at + 1)) -> Fail(r, "NumberMissFraction", int.at)
          [] power /\ ~IsDigit(Unit(t, digits)) -> Fail(r, "NumberMissExponent", digits - 1)
          [] exponent.big -> Fail(r, "NumberTooBig", start)
          [] OTHER ->
               CASE point \/ power \/ int.width = 3 ->
                      IF frac.i # 0 /\ Length(frac.i) + Max({p, 0}) > MaxExponent + 1
                      THEN Fail(r, "NumberTooBig", start)
                      ELSE Send(c, done, <<"Double", minus, frac.i, p>>, start)
                 [] int.width = 2 -> Send(c, done, <<IF minus THEN "Int64" ELSE "Uint64",
                                                     Signed(int.i)>>, start)
                 [] OTHER -> Send(c, done, <<IF minus THEN "Int" ELSE "Uint",
                                             Signed(int.i)>>, start)

-----------------------------------------------------------------------------
(* The recursive parser                                                    *)

RECURSIVE ParseValue(_, _), ParseMembers(_, _, _), ParseElements(_, _, _)
\* One step after the other, as long as there is no error.
SkipAfter(c, r) == IF Failed(r) THEN r ELSE SkipWhitespaceAndComments(c, r)
ValueAfter(c, r) == IF Failed(r) THEN r ELSE ParseValue(c, r)

ParseMembers(c, r, count) ==
    LET key == SkipAfter(c, ParseString(c, r, "Key"))
        value == SkipAfter(c, ValueAfter(c, SkipWhitespaceAndComments(c, Ahead(key, 1))))
        end == <<"EndObject", count + 1>>
        next == SkipWhitespaceAndComments(c, Ahead(value, 1))
    IN  CASE Peek(c, r) # Quote -> FailHere(r, "ObjectMissName")
          [] Peek(c, r) = Quote /\ Failed(key) -> key
          [] Peek(c, r) = Quote /\ ~Failed(key) ->
               CASE Peek(c, key) # ColonChar -> FailHere(key, "ObjectMissColon")
                 [] Peek(c, key) = ColonChar /\ Failed(value) -> value
                 [] OTHER ->
                      CASE Peek(c, value) = Comma ->
                             CASE Failed(next) -> next
                               [] ~Failed(next) /\ "trailing" \in c.flags
                                    /\ Peek(c, next) = CloseCurly ->
                                    Ahead(Send(c, next, end, next.at - 1), 1)
                               [] OTHER -> ParseMembers(c, next, count + 1)
                        [] Peek(c, value) = CloseCurly -> Send(c, Ahead(value, 1), end, value.at)
                        [] OTHER -> FailHere(value, "ObjectMissCommaOrCurlyBracket")

ParseElements(c, r, count) ==
    LET value == SkipAfter(c, ParseValue(c, r))
        end == <<"EndArray", count + 1>>
        next == SkipWhitespaceAndComments(c, Ahead(value, 1))
    IN  CASE Failed(value) -> value
          [] ~Failed(value) /\ Peek(c, value) = Comma ->
               CASE Failed(next) -> next
                 [] ~Failed(next) /\ "trailing" \in c.flags /\ Peek(c, next) = CloseSquare ->
                      Ahead(Send(c, next, end, next.at - 1), 1)
                 [] OTHER -> ParseElements(c, next, count + 1)
          [] ~Failed(value) /\ Peek(c, value) = CloseSquare ->
               Send(c, Ahead(value, 1), end, value.at)
          [] OTHER -> FailHere(value, "ArrayMissCommaOrSquareBracket")

\* An object or an array: nothing between its brackets, or members or elements.
Opened(c, r, start) == SkipAfter(c, Send(c, Ahead(r, 1), <<start>>, r.at))
ParseObject(c, r) ==
    LET s == Opened(c, r, "StartObject")
    IN  CASE Failed(s) -> s
          [] ~Failed(s) /\ Peek(c, s) = CloseCurly ->
               Send(c, Ahead(s, 1), <<"EndObject", 0>>, s.at)
          [] OTHER -> ParseMembers(c, s, 0)
ParseArray(c, r) ==
    LET s == Opened(c, r, "StartArray")
    IN  CASE Failed(s) -> s
          [] ~Failed(s) /\ Peek(c, s) = CloseSquare ->
               Send(c, Ahead(s, 1), <<"EndArray", 0>>, s.at)
          [] OTHER -> ParseElements(c, s, 0)

ParseValue(c, r) ==
    LET u == Peek(c, r)
    IN  CASE u = Null4[1] -> ParseLiteral(c, r, Null4, <<"Null">>)
          [] u = True4[1] -> ParseLiteral(c, r, True4, <<"Bool", TRUE>>)
          [] u = False5[1] -> ParseLiteral(c, r, False5, <<"Bool", FALSE>>)
          [] u = Quote -> ParseString(c, r, "String")
          [] u = OpenCurly -> ParseObject(c, r)
          [] u = OpenSquare -> ParseArray(c, r)
          [] OTHER -> ParseNumber(c, r)

Parse(c) ==
    LET s == SkipWhitespaceAndComments(c, Begun)
        v == ParseValue(c, s)
        end == SkipWhitespaceAndComments(c, v)
    IN  CASE Failed(s) -> s
          [] ~Failed(s) /\ Peek(c, s) = 0 -> FailHere(s, "DocumentEmpty")
          [] OTHER -> CASE Failed(v) \/ "stop" \in c.flags -> v
                        [] ~Failed(v) /\ "stop" \notin c.flags
                             /\ ~Failed(end) /\ Peek(c, end) # 0 ->
                             FailHere(end, "DocumentRootNotSingular")
                        [] OTHER -> end

-----------------------------------------------------------------------------
(* The iterative parser: a state, and a stack of states to return to, each *)
(* with the number of members or elements before the last delimiter.       *)

Tokenize(u) ==
    CASE u = OpenSquare -> "LeftBracket"
      [] u = CloseSquare -> "RightBracket"
      [] u = OpenCurly -> "LeftCurlyBracket"
      [] u = CloseCurly -> "RightCurlyBracket"
      [] u = Comma -> "Comma"
      [] u = ColonChar -> "Colon"
      [] u = Quote -> "String"
      [] OTHER -> "Scalar" \* false, true, null or a number

ExpectsValue == { "Start", "ArrayInitial", "ElementDelimiter", "KeyValueDelimiter" }
Predict(state, token) ==
    CASE state \in ExpectsValue /\ token = "LeftBracket" -> "ArrayInitial"
      [] state \in ExpectsValue /\ token = "LeftCurlyBracket" -> "ObjectInitial"
      [] state \in ExpectsValue /\ token \in {"String", "Scalar"} ->
           CASE state = "Start" -> "Value"
             [] state = "KeyValueDelimiter" -> "MemberValue"
             [] OTHER -> "Element"
      [] state \in {"ArrayInitial", "ElementDelimiter", "Element"} /\ token = "RightBracket" ->
           "ArrayFinish"
      [] state \in {"ObjectInitial", "MemberDelimiter", "MemberValue"}
           /\ token = "RightCurlyBracket" -> "ObjectFinish"
      [] state \in {"ObjectInitial", "MemberDelimiter"} /\ token = "String" -> "MemberKey"
      [] state = "MemberKey" /\ token = "Colon" -> "KeyValueDelimiter"
      [] state = "MemberValue" /\ token = "Comma" -> "MemberDelimiter"
      [] state = "Element" /\ token = "Comma" -> "ElementDelimiter"
      [] OTHER -> "Error"

\* Where a reader r with a state and a stack comes from the state src.
Frame(state, count) == [state |-> state, count |-> count]
ReturnTo(src) == CASE src \in {"ArrayInitial", "ElementDelimiter"} -> "Element"
                   [] src = "KeyValueDelimiter" -> "MemberValue"
                   [] OTHER -> src
Counted(stack) == [stack EXCEPT ![Len(stack)].count = @ + 1]

\* Mutant: the element that the last delimiter opened is counted.
CountedAlways(stack, src) == Last(stack).count + 1

\* The number of members or elements of what ends, of which none follows src.
CountOf(stack, src) ==
    Last(stack).count + IF src \in {"MemberValue", "Element"} THEN 1 ELSE 0

\* A reader i moves to dst, or into the state "Error".
Moved(i, r, state, stack) ==
    [r |-> r, state |-> IF Failed(r) THEN "Error" ELSE state, stack |-> stack]
Transit(c, i, dst) ==
    LET r == i.r
        top == Last(i.stack)
        return == IF top.state = "Start" THEN "Finish" ELSE top.state
        event == <<IF dst = "ObjectFinish" THEN "EndObject" ELSE "EndArray",
                   CountOf(i.stack, i.state)>>
        Taken(s) == IF Failed(s) THEN s ELSE Ahead(s, 1)
    IN  CASE dst = "Error" -> Moved(i, r, "Error", i.stack)
          [] dst \in {"ObjectInitial", "ArrayInitial"} ->
               Moved(i, Taken(Send(c, r, <<IF dst = "ObjectInitial" THEN "StartObject"
                                           ELSE "StartArray">>, r.at - 1)),
                     dst, Append(i.stack, Frame(ReturnTo(i.state), 0)))
          [] dst = "MemberKey" -> Moved(i, ParseString(c, r, "Key"), dst, i.stack)
          [] dst = "KeyValueDelimiter" -> Moved(i, Ahead(r, 1), dst, i.stack)
          [] dst \in {"MemberValue", "Element"} -> Moved(i, ParseValue(c, r), dst, i.stack)
          [] dst \in {"MemberDelimiter", "ElementDelimiter"} ->
               Moved(i, Ahead(r, 1), dst, Counted(i.stack))
          [] dst \in {"ObjectFinish", "ArrayFinish"} ->
               IF "trailing" \notin c.flags /\ i.state \in {"MemberDelimiter", "ElementDelimiter"}
               THEN Moved(i, FailHere(r, IF dst = "ObjectFinish" THEN "ObjectMissName"
                                         ELSE "ValueInvalid"), dst, i.stack)
               ELSE Moved(i, Taken(Send(c, r, event, r.at - 1)), return, Front(i.stack))
          [] dst = "Value" -> Moved(i, ParseValue(c, r), "Finish", i.stack)

ErrorOf(state) ==
    CASE state = "Start" -> "DocumentEmpty"
      [] state = "Finish" -> "DocumentRootNotSingular"
      [] state \in {"ObjectInitial", "MemberDelimiter"} -> "ObjectMissName"
      [] state = "MemberKey" -> "ObjectMissColon"
      [] state = "MemberValue" -> "ObjectMissCommaOrCurlyBracket"
      [] state \in {"KeyValueDelimiter", "ArrayInitial", "ElementDelimiter"} -> "ValueInvalid"
      [] OTHER -> "ArrayMissCommaOrSquareBracket"
HandleError(r, state) == IF Failed(r) THEN r ELSE FailHere(r, ErrorOf(state))

RECURSIVE IterativeSteps(_, _)
IterativeSteps(c, i) ==
    LET j == Transit(c, i, Predict(i.state, Tokenize(Peek(c, i.r))))
        s == SkipWhitespaceAndComments(c, j.r)
    IN  CASE Peek(c, i.r) = 0 ->
               IF i.state = "Finish" THEN i.r ELSE HandleError(i.r, i.state)
          [] Peek(c, i.r) # 0 /\ j.state = "Error" -> HandleError(j.r, i.state)
          [] OTHER -> IF Failed(s) \/ ("stop" \in c.flags /\ j.state = "Finish")
                      THEN IF "stop" \in c.flags /\ j.state = "Finish" THEN j.r ELSE s
                      ELSE IterativeSteps(c, [j EXCEPT !.r = s])

Started(r) == [r |-> r, state |-> "Start", stack |-> <<>>]
IterativeParse(c) ==
    LET s == SkipWhitespaceAndComments(c, Begun)
    IN  IF Failed(s) THEN s ELSE IterativeSteps(c, Started(s))

\* One call of IterativeParseNext: it goes on until the handler has been called.
RECURSIVE IterativeParseNext(_, _)
IterativeParseNext(c, i) ==
    LET s == SkipWhitespaceAndComments(c, i.r)
        dst == Predict(i.state, Tokenize(Peek(c, s)))
        j == Transit(c, [i EXCEPT !.r = s], dst)
        end == SkipWhitespaceAndComments(c, j.r)
        Fails(state, r) == [i EXCEPT !.state = state, !.r = HandleError(r, state)]
    IN  CASE Peek(c, i.r) = 0 ->
               IF i.state = "Finish" THEN i ELSE Fails(i.state, i.r)
          [] Peek(c, i.r) # 0 /\ j.state = "Error" -> Fails(i.state, j.r)
          [] Peek(c, i.r) # 0 /\ j.state = "Finish" ->
               IF "stop" \in c.flags THEN j
               ELSE IF Peek(c, end) # 0 THEN Fails("Finish", end)
               ELSE [j EXCEPT !.r = end]
          [] OTHER -> IF dst \in {"ElementDelimiter", "MemberDelimiter", "KeyValueDelimiter"}
                      THEN IterativeParseNext(c, j)
                      ELSE j
IterativeParseComplete(i) == i.state \in {"Finish", "Error"}

\* The loop of a caller of IterativeParseNext, until it fails or is complete.
RECURSIVE AllNext(_, _)
AllNext(c, i) ==
    LET j == IterativeParseNext(c, i)
    IN  IF Failed(j.r) \/ IterativeParseComplete(j) THEN j.r ELSE AllNext(c, j)
=============================================================================
