---------------------------- MODULE MCRapidjson -----------------------------
(***************************************************************************)
(* The parts of rapidjson the validator is built on, over bounded inputs,  *)
(* and the allocator of its documents, over the calls of two allocators.   *)
(* A behaviour chooses a part and how its input begins, completes the      *)
(* input, and stays there; the invariants say what holds of every input.   *)
(***************************************************************************)
EXTENDS DocumentSemantics, MemoryPool

CONSTANTS Order, Quantifiers, IndexLimit
X == INSTANCE Regex
P == INSTANCE Pointer

VARIABLE task \* <<"part", ...>>, and <<"Part", input>> when the input is complete

\* The step completes the input of this part. The properties are stated of these
\* steps: as invariants, TLC's coverage would unfold the readers once for every use.
Completed(part) == task'[1] = part /\ task[1] # part

Seqs(S, n) == UNION { [1..k -> S] : k \in 0..n }
Flat(parts) == FlattenSeq(parts)
Q == 34
Str == <<Q, 97, Q>>

-----------------------------------------------------------------------------
(* Expressions: every operator over characters and classes, twice nested   *)

MCOrder == <<"-", "]", "^", "a", "b", "c", "FF">>
MCQuantifiers ==
    ("{2}" :> <<2, 2>>) @@ ("{0,2}" :> <<0, 2>>) @@ ("{1,3}" :> <<1, 3>>)
      @@ ("{2,}" :> <<2, 99>>) @@ ("{0,}" :> <<0, 99>>) @@ ("{1}" :> <<1, 1>>)
Signs == { <<"?", 0, 1>>, <<"*", 0, X!Infinity>>, <<"+", 1, X!Infinity>> }
           \cup { <<q, Quantifiers[q][1], Quantifiers[q][2]>> : q \in DOMAIN Quantifiers }
Dotted == X!Class(<<".">>, {"a", "b", "c"})
Atoms == { X!Char("a"), Dotted, X!Class(<<"[", "^", "a", "-", "b", "]">>, {"c"}),
           X!Class(<<"[", "b", "-", "]">>, {"b", "-"}) }
Few == { X!Char("a"), X!Char("b") }
Repeated(S) == { X!Rep(e, s[1], s[2], s[3]) : e \in S, s \in Signs }
Small == Atoms \cup { X!Cat(a, b) : a \in Few, b \in Few } \cup { X!Alt(a, b) : a \in Few, b \in Few }
           \cup Repeated(Few \cup {Dotted})
Expressions ==
    Small \cup { X!Cat(a, X!Char("a")) : a \in Small } \cup { X!Alt(X!Char("b"), a) : a \in Small }
      \cup Repeated(Small) \cup { X!Cat(X!Char("b"), a) : a \in Repeated(Small \ Atoms) }
Words == Seqs({"a", "b", "c"}, 3)

Match == /\ task[1] = "match"
         /\ \E t \in Words, begin \in BOOLEAN, end \in BOOLEAN :
              task' = <<"Match", task[2], t, begin, end>>

(* A search answers whether the expression occurs in the text, bound to    *)
(* its beginning and its end as it is written (regex.h:190-717). That the  *)
(* empty match is not found unless both ends are bound, and that a circle  *)
(* of empty states is gone round for ever, is what the code does           *)
(* (regex.h:661-684, 691-705).                                             *)
RegexSearches ==
    [][ Completed("Match") =>
          LET e == task'[2]
              begin == task'[4]
              end == task'[5]
              answer == X!Search((IF begin THEN <<"^">> ELSE <<>>) \o X!Written(e, 0)
                                   \o (IF end THEN <<"$">> ELSE <<>>), task'[3])
              occurs == X!Occurs(e, task'[3], begin, end, ~(begin /\ end) /\ task'[3] # <<>>)
          IN  IF answer = "ENDLESS" THEN X!Circular(e) ELSE (answer = "YES") = occurs ]_task

-----------------------------------------------------------------------------
(* Encodings: the units at the borders of every range                      *)

Units ==
    [enc \in {"UTF8", "UTF16", "UTF32", "ASCII"} |->
       CASE enc = "UTF8" -> {0, 65, 127, 128, 143, 144, 159, 160, 191, 192, 193, 194, 223, 224,
                             225, 236, 237, 238, 239, 240, 241, 243, 244, 245, 255}
         [] enc = "UTF16" -> {0, 65, 127, 128, 2047, 2048, 55295, 55296, 56319, 56320, 57343,
                              57344, 65535}
         [] enc = "UTF32" -> {0, 65, 55296, 1114111, 1114112}
         [] enc = "ASCII" -> {0, 65, 127, 128, 255}]
Streams == {"UTF8", "UTF16LE", "UTF16BE", "UTF32LE", "UTF32BE"}
Letters == {65, 233, 8364, 65279, 128512}

Decoding == /\ task[1] = "decode"
            /\ \E rest \in Seqs(Units[task[2]], 2) :
                 task' = <<"Decode", task[2], <<task[3]>> \o rest>>
Receiving == /\ task[1] = "receive"
             /\ \E text \in Seqs(Letters, 3), default \in Streams :
                  task' = <<"Receive", task[2], task[3], text, default>>

(* What is decoded is what was encoded, and a text put into a stream of    *)
(* any type is taken out of it (encodings.h:102-658, encodedstream.h:      *)
(* 158-214): DecodesWhatIsEncoded and IsReceived of Encodings.             *)
EncodingsAgree ==
    [][ /\ Completed("Decode") => P!DecodesWhatIsEncoded(task'[2], task'[3])
        /\ Completed("Receive") => P!IsReceived(task'[2], task'[3], task'[4], task'[5]) ]_task

-----------------------------------------------------------------------------
(* URIs: paths of up to three segments with dots, every part there or not  *)

A == <<97>>
Segments == { <<>>, <<46>>, <<46, 46>>, A, <<46, 46, 46>>, <<97, 58>> }
JoinedBySlash(segments) == Flat([i \in DOMAIN segments |->
                                   IF i = 1 THEN segments[i] ELSE <<47>> \o segments[i]])
UriPaths(n) == { JoinedBySlash(s) : s \in Seqs(Segments, n) }
UriParts(scheme, auth, path, query, frag) ==
    [scheme |-> scheme, auth |-> auth, path |-> path, query |-> query, frag |-> frag]
IsReference(r) == \* a reference by the grammar of RFC 3986
    /\ r.auth # <<>> => r.path = <<>> \/ r.path[1] = 47
    /\ r.auth = <<>> => ~IsPrefix(<<47, 47>>, r.path)
    /\ r.scheme # <<>> /\ r.auth = <<>> => r.path = <<>> \/ r.path[1] = 47
    /\ r.scheme = <<>> /\ r.auth = <<>> => 58 \notin Range(P!Before(r.path, {47}))

Resolving ==
    /\ task[1] = "resolve"
    /\ \E path \in {<<>>} \cup { <<47>> \o p : p \in UriPaths(2) } :
         task' = <<"Resolve", task[3], UriParts(task[2], <<47, 47, 104>>, path, <<63, 98>>, <<>>)>>

(* ResolvesByTheRules of Uri (uri.h:152-225, 276-360, 405-452).            *)
UrisResolve ==
    [][ Completed("Resolve") => P!ResolvesByTheRules(task'[2], task'[3]) ]_task

-----------------------------------------------------------------------------
(* Pointers: names with escapes, of several bytes, and numbers around the  *)
(* limit of an index; values two levels deep                               *)

Names == { <<>>, <<48>>, <<49>>, <<48, 49>>, <<50, 54>>, <<50, 57, 57>>, <<50, 53, 54>>,
           <<50, 53, 53>>, <<50, 53, 52>>, <<45>>, A, <<126>>, <<47, 97>>, <<126, 49>>,
           <<195, 169>>, <<37, 50>>, <<240, 159, 152, 128, 97>> }
One == P!Integer(1)
Flats == {P!Null, One}
Shallow == Flats \cup { P!Array(s) : s \in Seqs(Flats, 2) }
             \cup { P!Object(s) : s \in Seqs({<<A, One>>, <<<<98>>, P!Null>>, <<<<48>>, One>>}, 2) }
Deeper == Shallow \cup UNION { { P!Array(<<v>>), P!Array(<<P!Null, v>>), P!Object(<< <<A, v>> >>),
                                 P!Object(<< <<<<98>>, P!Null>>, <<A, v>> >>) } : v \in Shallow }
Tokens == { P!TokenOf(n) : n \in {A, <<98>>, <<48>>, <<49>>, <<45>>} }
Payload == P!Object(<< <<<<98>>, P!Bool(TRUE)>> >>)

Naming == /\ task[1] = "name"
          /\ \E names \in Seqs(Names, 1), others \in Seqs(Names, 1) :
               task' = <<"Name", <<task[2]>> \o names, others>>
Setting == /\ task[1] = "set"
           /\ \E p \in Seqs(Tokens, 2), q \in Seqs(Tokens, 2) : task' = <<"Set", task[2], p, q>>

(* PointerIsReadBack and SetIsGotAndErased of Pointer (pointer.h:235-870,  *)
(* 912-1095).                                                              *)
PointersReach ==
    [][ /\ Completed("Name") => P!PointerIsReadBack(task'[2], task'[3])
        /\ Completed("Set") => P!SetIsGotAndErased(task'[2], task'[3], task'[4], Payload) ]_task
-----------------------------------------------------------------------------
(* Texts: every short sequence of tokens, alone and in an array or object, *)
(* of characters of numbers, of parts of strings, of comments, and words   *)

Context(text, flags, refuse) == [text |-> text, flags |-> flags, refuse |-> refuse]
U(a, b, c, d) == <<92, 117, a, b, c, d>>
Structure == { <<91>>, <<93>>, <<123>>, <<125>>, <<44>>, <<58>>, Str, <<49>>, <<32>> }
Shapes == { <<<<>>, <<>>>>, <<<<91>>, <<93>>>>, <<<<123>> \o Str \o <<58>>, <<125>>>>,
            <<<<91, 49, 44>>, <<>>>>, <<<<123>> \o Str \o <<58, 49>>, <<>>>> }
NumberChars == {45, 43, 46, 101, 48, 49, 57}
Numbers == \* around the limits of the types, of digits and of exponents
    { <<54, 52>>, <<45, 54, 52>>, <<45, 54, 53>>, <<49, 50, 55>>, <<49, 50, 56>>, <<53, 49, 50>>,
      <<45, 53, 49, 50>>, <<45, 53, 49, 51>>, <<49, 48, 50, 51>>, <<49, 48, 50, 52>>,
      <<49, 48, 50, 52, 46, 53>>, <<49, 48, 50, 51, 46, 53, 53>>, <<49, 101, 54>>, <<49, 101, 55>>,
      <<49, 46, 53, 101, 55>>, <<48, 101, 55>>, <<57, 57, 57, 57, 57, 101, 45, 50>>,
      <<49, 48, 48, 48, 48, 48, 48, 48>>, <<57, 57, 57, 57, 57, 57, 57>>,
      <<57, 57, 57, 57, 57, 57, 57, 57, 57, 101, 45, 51>>, <<49, 46, 50, 51, 52, 53, 54, 55>>,
      <<48, 46, 48, 48, 49, 50, 51, 52, 53, 54, 55>>, <<50, 48, 48, 46, 49, 50, 51, 52>>,
      <<49, 101, 45, 50, 49, 52, 55, 52, 56, 51, 54, 52, 56>>,
      <<49, 46, 49, 49, 101, 45, 50, 49, 52, 55, 52, 56, 51, 54, 52, 48, 48>>,
      <<49, 101, 57, 57, 57, 57, 57, 57, 57, 57, 57, 57, 57>> }
NotNumbers == { <<78, 97, 78>>, <<78, 97>>, <<73, 110, 102>>, <<45, 73, 110, 102, 105, 110, 105, 116, 121>>,
                <<73, 110, 102, 105, 110>>, <<73, 120>>, <<45, 78, 97, 78>>, <<78, 78>> }
Literal == { Null4, True4, False5, <<110, 117, 108>>, <<116, 114, 117, 120>>, <<102>> }
StringParts == { <<Q>>, <<92>>, <<92, Q>>, <<92, 110>>, <<92, 113>>, <<92, 39>>, A, <<31>>, <<195>>,
                 <<169>>, U(48, 48, 52, 49), U(68, 56, 51, 52), U(100, 100, 49, 69),
                 U(68, 70, 70, 70), <<92, 117, 49, 50>>, <<240, 159, 152, 128>> }
CommentParts == { <<47, 42, 42, 42, 47>>, <<47, 42, 97, 47, 42, 47>>, <<47, 47, 97, 10>>,
                  <<91>>, <<93>>, Str, <<44>>, <<49>> }
Spaced(parts) == Flat([i \in DOMAIN parts |-> IF parts[i][1] = 47 THEN <<32>> ELSE parts[i]])

ReadTokens == /\ task[1] = "tokens"
              /\ \E p \in Seqs(Structure, 2) :
                   task' = <<"Text", task[3][1] \o task[2] \o Flat(p) \o task[3][2]>>
ReadNumber == /\ task[1] = "number"
              /\ \E p \in Seqs(NumberChars, 2) : task' = <<"Text", task[2] \o p>>
ReadWord == /\ task[1] = "word"
            /\ \E p \in Shapes : task' = <<"Text", p[1] \o task[2] \o p[2]>>
ReadString == /\ task[1] = "string"
              /\ \E p \in Seqs(StringParts, 1) :
                   task' = <<"String", <<Q>> \o task[2] \o task[3] \o Flat(p) \o <<Q>>>>
ReadComments == /\ task[1] = "comments"
                /\ \E p \in Seqs(CommentParts, 2) : task' = <<"Comments", <<task[2], task[3]>> \o p>>

(* ReadsTheGrammar and CommentsAreSpaces of DocumentSemantics (reader.h:   *)
(* 266-280, 559-592, 711-1068, 1468-1766).                                 *)
TextsAreRead ==
    [][ /\ Completed("Text") =>
             \A flags \in { {}, {"trailing"} } : ReadsTheGrammar(Context(task'[2], flags, 0))
        /\ Completed("String") =>
             \A flags \in { {}, {"validate"} } : ReadsTheGrammar(Context(task'[2], flags, 0))
        /\ Completed("Comments") =>
             CommentsAreSpaces(Context(Flat(task'[2]), {}, 0), Spaced(task'[2])) ]_task

(* IterativeIsRecursive of DocumentSemantics (reader.h:607-670, 1770-2224, *)
(* with a handler that takes every event or refuses the third.             *)
ParsersAgree ==
    [][ /\ Completed("Text") =>
             \A flags \in { {}, {"trailing"}, {"stop"}, {"comments", "nan"},
                            {"trailing", "stop", "validate"} }, refuse \in {0, 3} :
               IterativeIsRecursive(Context(task'[2], flags, refuse))
        /\ Completed("Comments") =>
             /\ IterativeIsRecursive(Context(Flat(task'[2]), {"comments"}, 0))
             /\ IterativeIsRecursive(Context(Flat(task'[2]) \o <<47, 42, 97>>, {"comments"}, 0)) ]_task

-----------------------------------------------------------------------------
(* Documents, values and written numbers                                   *)

Scalars == { <<49>>, Str, <<49, 46, 53>>, <<91, 93>>, <<123, 125>>, <<49, 48, 50, 52, 48>>, Null4,
             <<45, 49>>, <<45, 48>>, <<49, 101, 50>> }
ArrayText(a, b) == <<91>> \o a \o <<44>> \o b \o <<93>>
ObjectText(a, b) == <<123>> \o Str \o <<58>> \o a \o <<44, Q, Q, 58>> \o b \o <<125>>
Nested == { ArrayText(a, b) : a \in Scalars, b \in Scalars }
            \cup { ObjectText(a, b) : a \in Scalars, b \in Scalars }
Layout(flags, target, pretty, oneLine, indent) ==
    [flags |-> flags, target |-> target, pretty |-> pretty, oneLine |-> oneLine,
     indent |-> indent, places |-> 324]
Layouts == { Layout({}, "UTF8", FALSE, FALSE, 0), Layout({}, "ASCII", TRUE, FALSE, 2),
             Layout({"validate"}, "UTF8", TRUE, TRUE, 1) }
Leaves == { NullValue, IntegerValue("Int", 1), DoubleValue(FALSE, 1, 0) }
Values == Leaves \cup { BoolValue(TRUE), StringValue(A), DoubleValue(FALSE, 10, -1),
                        DoubleValue(TRUE, 0, 0), DoubleValue(TRUE, 1, 0) }
            \cup { IntegerValue(rep, n) : rep \in {"Int", "Uint64"}, n \in {0, 1} }
            \cup { ArrayValue(s) : s \in Seqs(Leaves, 2) }
            \cup { ObjectValue(s) : s \in Seqs({"a", "b"} \X Leaves, 2) }
Operations == ({"add"} \X {"a", "b"} \X {1, 2}) \cup ({"remove", "erase"} \X {"a", "b"})
                \cup {<<"reserve", 3>>, <<"clear">>}
Integers64 == {-513, -512, -65, -64, -63, -1, 0, 1, 9, 10, 63, 64, 65, 99, 100, 127, 128, 129, 511,
               512, 1023, 9999, 10000, 12345, 99999999, 100000000, 1000000000, 2147483647, -2147483647}

Save == /\ task[1] = "save"
        /\ \E p \in {Str, ArrayText(Str, <<49>>), ObjectText(<<91, 93>>, Null4)} :
           \E text \in {task[2], ArrayText(task[2], p), ObjectText(p, task[2])} :
             task' = <<"Save", text>>
Compare == task[1] = "value" /\ \E w \in Values : task' = <<"Value", task[2], w>>
Change == /\ task[1] = "change"
          /\ \E p \in Seqs(Operations, 2) : task' = <<"Change", <<task[2], task[3]>> \o p>>
WriteDigits == /\ task[1] = "digits"
               /\ \E a \in {0, 1, 10, 123, 1844}, v1 \in {0, 1, 12, 1234567, 12345678, 99999999} :
                    task' = <<"Digits", a, task[2], v1>>
WriteDecimal == /\ task[1] = "decimal"
                /\ \E places \in {1, 2, 3, 324} : task' = <<"Decimal", task[2], task[3], places>>

Narrow == task[1] = "integer" /\ task' = <<"Integer", task[2]>>

(* SavedIsLoaded of DocumentSemantics (document.h:2599-2609, 2777-2834,    *)
(* writer.h:184-490, prettywriter.h:92-262).                               *)
DocumentsAreKept ==
    [][ Completed("String") \/ Completed("Save") =>
          \A o \in Layouts, flags \in { {}, {"validate"} } :
            SavedIsLoaded(Context(task'[2], flags, 0), o) ]_task

(* EqualIsSameValue, ObjectIsAMap, IntegerFits, DigitsAreTheNumber and     *)
(* PrettyIsTheNumber of DocumentSemantics (document.h:785-829, 1024-1064,  *)
(* 1545-1808, 2271-2414, itoa.h:39-301, dtoa.h:129-242).                   *)
ValuesAreValues ==
    [][ /\ Completed("Value") => EqualIsSameValue(task'[2], task'[3])
        /\ Completed("Change") => ObjectIsAMap(task'[2])
        /\ Completed("Integer") => IntegerFits(task'[2])
        /\ Completed("Digits") => DigitsAreTheNumber(task'[2], task'[3], task'[4])
        /\ Completed("Decimal") => PrettyIsTheNumber(task'[2], task'[3], task'[4]) ]_task

-----------------------------------------------------------------------------
References ==
    { r \in { UriParts(scheme, auth, path, query, frag) :
                scheme \in {<<>>, <<97, 58>>}, auth \in {<<>>, <<47, 47, 104>>}, path \in UriPaths(3),
                query \in {<<>>, <<63, 113>>}, frag \in {<<>>, <<35, 102>>} } : IsReference(r) }

InitTask ==
    \/ task = <<"pool">>
    \/ task \in {"match"} \X Expressions
    \/ \E enc \in DOMAIN Units : task \in {"decode"} \X {enc} \X Units[enc]
    \/ task \in {"receive"} \X Streams \X BOOLEAN
    \/ task \in {"resolve"} \X {<<>>, <<97, 58>>} \X References
    \/ task \in {"name"} \X Names
    \/ task \in {"set"} \X Deeper
    \/ task \in {"tokens"} \X Structure \X Shapes
    \/ task \in {"number"} \X Seqs(NumberChars, 2)
    \/ task \in {"word"} \X (Numbers \cup NotNumbers \cup Literal)
    \/ task \in {"string"} \X StringParts \X StringParts
    \/ task \in {"comments"} \X CommentParts \X CommentParts
    \/ task \in {"save"} \X Nested
    \/ task \in {"value"} \X Values
    \/ task \in {"change"} \X Operations \X Operations
    \/ task \in {"integer"} \X Integers64
    \/ task \in {"digits"} \X { n \in Integers64 : n >= 0 /\ n < 100000000 }
    \/ task \in {"decimal"} \X {1, 2, 12, 102, 1002, 123, 999, 10203} \X ((-12)..25)

Complete == {"Match", "Decode", "Receive", "Resolve", "Name", "Set", "Text", "String", "Comments",
             "Save", "Value", "Change", "Integer", "Digits", "Decimal"}
Stay == task[1] \in Complete /\ UNCHANGED task

NextTask == \/ Match \/ Decoding \/ Receiving \/ Resolving \/ Naming \/ Setting
            \/ ReadTokens \/ ReadNumber \/ ReadWord \/ ReadString \/ ReadComments
            \/ Save \/ Compare \/ Change \/ WriteDigits \/ WriteDecimal \/ Narrow \/ Stay
Allocation == task = <<"pool">> /\ PoolNext

Init == InitTask /\ PoolInit
Next == \/ NextTask /\ UNCHANGED poolVars
        \/ Allocation /\ UNCHANGED task
Spec == Init /\ [][Next]_<<task, poolVars>>
=============================================================================
