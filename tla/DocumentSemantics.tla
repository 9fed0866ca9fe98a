------------------------- MODULE DocumentSemantics --------------------------
(***************************************************************************)
(* What texts, documents, values and written numbers promise.  What a JSON *)
(* text says is told by the grammar of RFC 8259 and not by a parser: the   *)
(* sets of event sequences a text, cut up in every way, can stand for. The *)
(* grammar is unambiguous, so that a set has at most one member; what the  *)
(* reader does with a text is compared with it.  Documents and values are  *)
(* told by functions from names to values, and by decimal notation.        *)
(***************************************************************************)
EXTENDS Document, Reader

Blank(s) == \A i \in DOMAIN s : s[i] \in Spaces
Trimmed(s) ==
    LET solid == { i \in DOMAIN s : s[i] \notin Spaces }
    IN  IF solid = {} THEN <<>> ELSE SubSeq(s, Min(solid), Max(solid))

\* The pieces of s between the places of the set cuts.
Pieces(s, cuts) ==
    LET bounds == SetToSortSeq(cuts \cup {0, Len(s) + 1}, <)
    IN  [i \in 1..(Len(bounds) - 1) |-> SubSeq(s, bounds[i] + 1, bounds[i + 1] - 1)]
Places(s, u) == { i \in DOMAIN s : s[i] = u }

\* One choice from each set of a sequence of sets of sequences, joined.
Joined(sets) ==
    FoldLeft(LAMBDA done, set : { d \o e : d \in done, e \in set }, {<<>>}, sets)

-----------------------------------------------------------------------------
(* Numbers                                                                 *)

Digits(s) == s # <<>> /\ \A i \in DOMAIN s : s[i] \in DigitChars
ValueOf(s) == FoldLeft(LAMBDA n, u : n * 10 + u - 48, 0, s)

\* Ways to write s as a number: sign, integer, fraction (empty if none), exponent.
Written(s) ==
    LET minus == s # <<>> /\ s[1] = 45
        body == IF minus THEN Tail(s) ELSE s
        Parts(e, f) ==
            LET mantissa == SubSeq(body, 1, e - 1)
                power == SubSeq(body, e + 1, Len(body))
                signed == power # <<>> /\ power[1] \in {43, 45}
            IN  [minus |-> minus,
                 int |-> SubSeq(mantissa, 1, Min({f, e}) - 1),
                 point |-> f <= Len(mantissa),
                 frac |-> SubSeq(mantissa, f + 1, Len(mantissa)),
                 power |-> e <= Len(body),
                 down |-> signed /\ power[1] = 45,
                 exp |-> IF signed THEN Tail(power) ELSE power]
    IN  { n \in { Parts(e, f) :
                    e \in Places(body, 69) \cup Places(body, 101) \cup {Len(body) + 1},
                    f \in Places(body, 46) \cup {Len(body) + 1} } :
            /\ Digits(n.int) /\ (n.int[1] = 48 => Len(n.int) = 1)
            /\ n.point => Digits(n.frac)
            /\ n.power => Digits(n.exp)
            /\ Len(n.int) + Len(n.frac) + Len(n.exp)
                 + Cardinality({ i \in DOMAIN body : body[i] \notin DigitChars }) = Len(body) }

\* Exponents of more than nine digits are alike.
Exponent(n) ==
    LET size == IF Len(n.exp) > 9 THEN 1000000000 ELSE ValueOf(n.exp)
    IN  (IF n.down THEN -size ELSE size) - Len(n.frac)
Negligible == -400

\* The event is the number written: the narrowest type that holds an integer; a double
\* has all its digits, or as many as are significant.
IsNumber(event, n) ==
    LET size == ValueOf(n.int)
        all == ValueOf(n.int \o n.frac)
        signed == IF n.minus THEN -size ELSE size
        type == CASE n.minus /\ size <= IntLimit -> "Int"
                  [] ~n.minus /\ size < UIntLimit -> "Uint"
                  [] n.minus /\ size <= Int64Limit -> "Int64"
                  [] ~n.minus /\ size < UInt64Limit -> "Uint64"
                  [] OTHER -> "Double"
    IN  IF ~n.point /\ ~n.power /\ type # "Double" THEN event = <<type, signed>>
        ELSE /\ Len(event) = 4 /\ event[1] = "Double" /\ event[2] = n.minus
             /\ \E k \in 0..Len(n.frac) :
                  /\ event[3] = all \div 10^k
                  /\ \/ event[4] = Exponent(n) + k
                     \/ event[4] < Negligible /\ Exponent(n) + k < Negligible
                  /\ k > 0 => event[3] >= 10^(SignificandDigits - 1)

\* The numbers that may be refused: too big, or with an exponent no other digit makes good.
MayBeTooBig(n) ==
    \/ /\ ValueOf(n.int \o n.frac) # 0
       /\ Length(ValueOf(n.int \o n.frac)) + Exponent(n) > MaxExponent + 1
    \/ Len(n.int) > MaxExponent + 1
    \/ n.power /\ ~n.down /\ (Len(n.exp) > 9 \/ ValueOf(n.exp) > MaxExponent + Len(n.frac))

-----------------------------------------------------------------------------
(* Strings, arrays, objects                                                *)

\* The characters of a string: the units that stand for one, and its UTF-8.
IsHex4(s, i) == i + 3 <= Len(s) /\ \A k \in i..i + 3 : HexValue(s[k]) >= 0
Hex4(s, i) == HexValue(s[i]) * 4096 + HexValue(s[i + 1]) * 256
                + HexValue(s[i + 2]) * 16 + HexValue(s[i + 3])
CharacterAt(s, i, checked) ==
    LET n == Len(s) - i + 1
        Is(k) == { [used |-> k, bytes |-> SubSeq(s, i, i + k - 1)] }
    IN  IF s[i] \notin {Quote, Backslash} \cup 0..31
        THEN IF ~checked \/ s[i] < 128 THEN Is(1)
             ELSE UNION { Is(k) : k \in { k \in 2..Min({4, n}) :
                    \E cp \in {Decode("UTF8", SubSeq(s, i, Len(s))).cp} :
                       IsScalar(cp) /\ SubSeq(s, i, i + k - 1) = Encode("UTF8", cp) } }
        ELSE IF s[i] # Backslash \/ n < 2 THEN {}
        ELSE IF s[i + 1] \in DOMAIN Escape THEN {[used |-> 2, bytes |-> <<Escape[s[i + 1]]>>]}
        ELSE IF s[i + 1] # 117 \/ ~IsHex4(s, i + 2) THEN {}
        ELSE IF IsScalar(Hex4(s, i + 2))
             THEN {[used |-> 6, bytes |-> Encode("UTF8", Hex4(s, i + 2))]}
        ELSE IF n < 12 \/ s[i + 6] # Backslash \/ s[i + 7] # 117 \/ ~IsHex4(s, i + 8) THEN {}
        ELSE { [used |-> 12, bytes |-> Encode("UTF8", Decode("UTF16", units).cp)] :
                 units \in { units \in {<<Hex4(s, i + 2), Hex4(s, i + 8)>>} :
                               Decode("UTF16", units).ok /\ Decode("UTF16", units).used = 2 } }
RECURSIVE Characters(_, _)
Characters(s, checked) ==
    IF s = <<>> THEN {<<>>}
    ELSE UNION { { ch.bytes \o rest : rest \in Characters(SubSeq(s, ch.used + 1, Len(s)), checked) } :
                   ch \in CharacterAt(s, 1, checked) }
StringsOf(s, checked) ==
    IF Len(s) < 2 \/ s[1] # Quote \/ Last(s) # Quote THEN {}
    ELSE Characters(SubSeq(s, 2, Len(s) - 1), checked)

Literals == {<<Null4, <<"Null">>>>, <<True4, <<"Bool", TRUE>>>>, <<False5, <<"Bool", FALSE>>>>}

\* The contents between brackets, cut at commas; with trailing commas the last
\* piece may be blank. Of(piece) are the readings of a piece.
Contents(s, trailing, Of(_), end) ==
    IF Blank(s) THEN { <<<<end, 0>>>> }
    ELSE UNION { LET pieces == Pieces(s, cuts)
                     kept == IF trailing /\ Len(pieces) > 1 /\ Blank(Last(pieces))
                             THEN Front(pieces) ELSE pieces
                 IN  Joined(Append([i \in DOMAIN kept |-> Of(kept[i])],
                                   {<<<<end, Len(kept)>>>>}))
                   : cuts \in SUBSET Places(s, Comma) }

\* The events of a value written as text, a number as the text itself.
RECURSIVE Readings(_, _, _)
Readings(text, trailing, checked) ==
    LET s == Trimmed(text)
        inner == SubSeq(s, 2, Len(s) - 1)
        Enclosed(open, close) == Len(s) > 1 /\ s[1] = open /\ Last(s) = close
        Value(piece) == Readings(piece, trailing, checked)
        MemberAt(piece, i) ==
            Joined(<<{ <<<<"Key", k>>>> : k \in StringsOf(Trimmed(SubSeq(piece, 1, i - 1)), checked) },
                     Value(SubSeq(piece, i + 1, Len(piece)))>>)
        Member(piece) == UNION { MemberAt(piece, i) : i \in Places(piece, ColonChar) }
    IN  { <<l[2]>> : l \in { l \in Literals : l[1] = s } }
          \cup { <<<<"String", str>>>> : str \in StringsOf(s, checked) }
          \cup (IF Written(s) = {} THEN {} ELSE {<<<<"Number", s>>>>})
          \cup (IF Enclosed(OpenSquare, CloseSquare)
                THEN Joined(<<{<<<<"StartArray">>>>},
                              Contents(inner, trailing, Value, "EndArray")>>) ELSE {})
          \cup (IF Enclosed(OpenCurly, CloseCurly)
                THEN Joined(<<{<<<<"StartObject">>>>},
                              Contents(inner, trailing, Member, "EndObject")>>) ELSE {})

\* An event a reader sends for an event of a reading.
Says(sent, event) ==
    IF event[1] = "Number" THEN \E n \in Written(event[2]) : IsNumber(sent, n)
    ELSE Len(sent) = Len(event) /\ sent = event

-----------------------------------------------------------------------------
(* Without comments and NaN, and with a handler that takes every event,    *)
(* the reader accepts exactly the texts of the grammar and sends what they *)
(* say; but it may refuse a number it finds too big (reader.h:559-592,     *)
(* 740-853, 991-1068, 1468-1748).                                          *)
ReadsTheGrammar(c) ==
    LET r == Parse(c)
        readings == Readings(c.text, "trailing" \in c.flags, "validate" \in c.flags)
    IN  CASE ~Failed(r) -> \E reading \in readings :
                             /\ Len(reading) = Len(r.events)
                             /\ \A i \in DOMAIN reading : Says(r.events[i], reading[i])
          [] r.error = "NumberTooBig" ->
               \E i \in 1..Len(c.text), j \in 1..Len(c.text) :
                 \E n \in Written(SubSeq(c.text, i, j)) : r.offset = i - 1 /\ MayBeTooBig(n)
          [] OTHER -> readings = {}

(* The iterative parser, run through or called token by token, sends the   *)
(* events of the recursive one and ends in the same error at the same      *)
(* place, whatever the flags and wherever the handler stops it. Left out:  *)
(* a document without a first token, or with a bracket or separator for it *)
(* (the table answers DocumentEmpty, and token by token a blank document   *)
(* is ValueInvalid), the place of a termination, and what follows a        *)
(* comment that does not end, which the calls token by token do not look   *)
(* at (reader.h:620-664, 2011-2224).                                       *)
IterativeIsRecursive(c) ==
    LET r == Parse(c)
        first == Peek(c, SkipWhitespaceAndComments(c, Begun))
        Same(i) == /\ i.error = r.error
                   /\ i.events = r.events
                   /\ r.error # "Termination" => i.offset = r.offset
    IN  first \notin {0, CloseSquare, CloseCurly, Comma, ColonChar} =>
          /\ Same(IterativeParse(c))
          /\ r.error # "UnspecificSyntaxError" => Same(AllNext(c, Started(Begun)))

(* With the comments flag a text in which comments stand between the       *)
(* tokens is read as the text with spaces in their place; without the flag *)
(* it is refused (reader.h:711-736).                                       *)
CommentsAreSpaces(c, blanked) ==
    LET r == Parse([c EXCEPT !.flags = @ \cup {"comments"}])
        s == Parse([c EXCEPT !.text = blanked])
    IN  /\ Failed(r) = Failed(s) /\ r.events = s.events
        /\ c.text # blanked => Failed(Parse([c EXCEPT !.flags = @ \ {"comments", "stop"}]))

-----------------------------------------------------------------------------
(* Writing and reading                                                     *)

\* A value with its doubles in lowest terms.
RECURSIVE Plain(_)
Plain(v) ==
    CASE v.type = "number" /\ IsDouble(v) ->
           DoubleValue(v.minus, Normal(v.i, v.p)[1], Normal(v.i, v.p)[2])
      [] v.type = "array" -> [v EXCEPT !.of = [i \in DOMAIN @ |-> Plain(@[i])]]
      [] v.type = "object" -> [v EXCEPT !.of = [i \in DOMAIN @ |-> <<@[i][1], Plain(@[i][2])>>]]
      [] OTHER -> v

(* A document that is read from a text, written in any layout and read     *)
(* again is the same document: the writer writes one complete text, and    *)
(* fails only on a string that is not UTF-8, which it notices when it      *)
(* validates or has to convert (document.h:2599-2609, 2777-2834,           *)
(* writer.h:184-490, prettywriter.h:92-262).                               *)
SavedIsLoaded(c, o) ==
    LET doc == ParseStream(EmptyDocument, c)
        w == Write(o, Accept(doc.value))
        again == ParseStream(doc, [c EXCEPT !.text = w.out])
        careful == "validate" \in o.flags \/ o.target = "ASCII"
    IN  doc.error = "none" =>
          \/ /\ w.ok /\ IsComplete(w)
             /\ again.error = "none" /\ Plain(again.value) = Plain(doc.value)
          \/ ~w.ok /\ careful /\ "validate" \notin c.flags

-----------------------------------------------------------------------------
(* Objects as functions                                                    *)

Performed(o, op) ==
    CASE op[1] = "add" -> Added(o, <<op[2], op[3]>>)
      [] op[1] = "remove" -> RemoveMember(o, op[2])
      [] op[1] = "erase" -> EraseMember(o, op[2])
      [] op[1] = "reserve" -> Reserve(o, op[2])
      [] op[1] = "clear" -> Cleared(o)

RECURSIVE After(_, _), MapAfter(_, _), ListAfter(_, _)
After(o, ops) == IF ops = <<>> THEN o ELSE After(Performed(o, Head(ops)), Tail(ops))

\* The same operations on a function, and on a list without a RemoveMember.
MapAfter(map, ops) ==
    LET op == Head(ops)
        Without1(name) == [n \in DOMAIN map \ {name} |-> map[n]]
    IN  IF ops = <<>> THEN map
        ELSE MapAfter(CASE op[1] = "add" -> (op[2] :> op[3]) @@ map
                        [] op[1] \in {"remove", "erase"} -> Without1(op[2])
                        [] op[1] = "reserve" -> map
                        [] op[1] = "clear" -> <<>>, Tail(ops))
ListAfter(list, ops) ==
    LET op == Head(ops)
        first == SelectInSeq(list, LAMBDA m : m[1] = op[2])
    IN  IF ops = <<>> THEN list
        ELSE ListAfter(CASE op[1] = "add" -> Append(list, <<op[2], op[3]>>)
                         [] op[1] = "erase" -> IF first = 0 THEN list ELSE RemoveAt(list, first)
                         [] op[1] = "reserve" -> list
                         [] op[1] = "clear" -> <<>>, Tail(ops))
NamesStayUnique(ops) ==
    \A i \in DOMAIN ops : ops[i][1] = "add" =>
      FindMember(After(ObjectValue(<<>>), SubSeq(ops, 1, i - 1)), ops[i][2])
        > Len(After(ObjectValue(<<>>), SubSeq(ops, 1, i - 1)).of)

(* Whatever is added, removed and erased, an object whose names are unique *)
(* is a function from names to values, though RemoveMember reorders it; an *)
(* object from which members are only erased is a list, whatever its       *)
(* names; and it never outgrows its allocation (document.h:1545-1627,      *)
(* 2271-2414).                                                             *)
ObjectIsAMap(ops) ==
    LET o == After(ObjectValue(<<>>), ops)
        map == MapAfter(<<>>, ops)
    IN  /\ Len(o.of) <= o.capacity
        /\ NamesStayUnique(ops) =>
             /\ MemberNames(o) = DOMAIN map /\ Len(o.of) = Cardinality(DOMAIN map)
             /\ \A n \in DOMAIN map : o.of[FindMember(o, n)][2] = map[n]
        /\ (\A i \in DOMAIN ops : ops[i][1] # "remove") => o.of = ListAfter(<<>>, ops)

\* A value as what it denotes: the order of members does not matter, -0 is 0.
RECURSIVE Denoted(_), UniqueNames(_)
Denoted(v) ==
    CASE v.type = "number" ->
           LET d == GetDouble(v)
           IN  <<"number", d[1] /\ d[2] # 0, Normal(d[2], d[3])>>
      [] v.type = "array" -> <<"array", [i \in DOMAIN v.of |-> Denoted(v.of[i])]>>
      [] v.type = "object" ->
           <<"object", { <<v.of[i][1], Denoted(v.of[i][2])>> : i \in DOMAIN v.of }>>
      [] v.type = "string" -> <<"string", v.text>>
      [] v.type = "bool" -> <<"bool", v.is>>
      [] v.type = "null" -> <<"null">>
UniqueNames(v) ==
    /\ v.type = "object" => /\ Cardinality(MemberNames(v)) = Len(v.of)
                            /\ \A i \in DOMAIN v.of : UniqueNames(v.of[i][2])
    /\ v.type = "array" => \A i \in DOMAIN v.of : UniqueNames(v.of[i])

(* Two values without duplicate names are equal exactly when they denote   *)
(* the same, whatever the order of members and the type of a number        *)
(* (document.h:1024-1064, 2450-2463).                                      *)
EqualIsSameValue(v, w) ==
    UniqueNames(v) /\ UniqueNames(w) => (Equals(v, w) <=> Denoted(v) = Denoted(w))

(* Equality is never true of an object with a duplicate name, as the       *)
(* comment on operator== says (document.h:1021). It is not what the code   *)
(* does: two objects of two members {a: 1, a: 1} are equal.                *)
DuplicatesAreNotEqual(v, w) ==
    v.type = "object" /\ ~UniqueNames(v) => ~Equals(v, w)

-----------------------------------------------------------------------------
(* Numbers                                                                 *)

Fits(type, n) ==
    CASE type = "Int" -> n >= -IntLimit /\ n < IntLimit
      [] type = "Uint" -> n >= 0 /\ n < UIntLimit
      [] type = "Int64" -> n >= -Int64Limit /\ n < Int64Limit
      [] type = "Uint64" -> n >= 0 /\ n < UInt64Limit
IntegerTypes == {"Int", "Uint", "Int64", "Uint64"}

(* An integer has the flags of exactly the types that hold it, whichever   *)
(* constructor made it, and the writer's digits are the number             *)
(* (document.h:785-829, itoa.h:112-124).                                   *)
IntegerFits(n) ==
    /\ \A rep \in IntegerTypes :
         Fits(rep, n) => FlagsOf(rep, n) = { t \in IntegerTypes : Fits(t, n) }
    /\ \E w \in Written(i32toa(n)) :
         ~w.point /\ ~w.power /\ ValueOf(w.int) = (IF w.minus THEN -n ELSE n)

\* A number below 10^20 in decimal, with leading zeros.
Padded(digits) == Zeros(20 - Len(digits)) \o digits

(* A 64-bit number is written with its digits and without leading zeros,   *)
(* on each path of u64toa (itoa.h:126-295).                                *)
DigitsAreTheNumber(a, v0, v1) ==
    LET text == u64toa(a, v0, v1)
        all == Padded(text)
    IN  /\ Digits(text) /\ (Len(text) > 1 => text[1] # 48) /\ Len(all) = 20
        /\ ValueOf(SubSeq(all, 1, 4)) = a
        /\ ValueOf(SubSeq(all, 5, 12)) = v0
        /\ ValueOf(SubSeq(all, 13, 20)) = v1

(* The text of a double denotes digits * 10^k; with fewer decimal places   *)
(* allowed and no exponent, what is cut off is below the last place        *)
(* (dtoa.h:155-219).                                                       *)
PrettyIsTheNumber(i, k, places) ==
    LET text == dtoa(FALSE, i, k, places)
        cut == i % 10 # 0 /\ -k > places /\ Len(Text(i)) + k > -6
        w == CHOOSE w \in Written(text) : TRUE
    IN  /\ Cardinality(Written(text)) = 1
        /\ cut => /\ w.frac # <<>> /\ Len(w.frac) <= places /\ ~w.power
                  /\ ValueOf(w.int \o w.frac) * 10^(-k - Len(w.frac)) <= i
                  /\ i < (ValueOf(w.int \o w.frac) * 10^(places - Len(w.frac)) + 1)
                           * 10^(-k - places)
        /\ ~cut /\ (Len(Text(i)) + k > -6 \/ Len(Text(i)) + k >= -places) /\ i % 10 # 0 =>
             LET zeros == SelectInSeq(w.int \o w.frac, LAMBDA d : d # 48) - 1
                 all == SubSeq(w.int \o w.frac, zeros + 1, Len(w.int \o w.frac))
             IN  /\ SubSeq(all, 1, Len(Text(i))) = Text(i)
                 /\ \A j \in Len(Text(i)) + 1..Len(all) : all[j] = 48
                 /\ Exponent(w) + Len(all) = Len(Text(i)) + k
=============================================================================
