---------------------------- MODULE Deserializers ---------------------------
(***************************************************************************)
(* BaseDeserializer and its four subclasses: one call of Deserialize moves *)
(* a cursor over a range of a longer buffer and builds the JSON text that  *)
(* the parameter's JsonValidator then parses.                              *)
(*                                                                         *)
(* Positions count from 1; a range is beg..end-1. The position after the   *)
(* buffer holds the terminating NUL. A boolean literal is one cell.        *)
(***************************************************************************)
EXTENDS Serialisation

CONSTANTS Params,   \* records: in, style, explode, type, items
          Name,     \* the name of the parameter, a sequence of characters
          KTMap,    \* keys of an object parameter and their types
          Ranges,   \* Ranges[p]: records buffer, beg, end
          Values,   \* Values[p]: values of the parameter's type
          Octet(_, _) \* (dec1 << 4) | dec2 as a character

NUL == "NUL"
Digits == {"0", "1", "2"}
Hex == Digits \cup {"C"}
Booleans == {"true", "false"}

\* A range is followed by the character that ended it.
Followers(in) == CASE in = "path" -> {"/", "?", NUL}
                   [] in = "query" -> {"&", NUL}
                   [] in = "header" -> {NUL}

At(buf, k) == IF k \in 1..Len(buf) THEN buf[k] ELSE NUL

ASSUME RangesAssumption ==
    \A p \in Params : \A r \in Ranges[p] :
        /\ r.buffer \in Seq(STRING)
        /\ r.beg \in Nat \ {0} /\ r.end \in Nat
        /\ r.beg <= r.end /\ r.end <= Len(r.buffer) + 1
        /\ At(r.buffer, r.end) \in Followers(p.in)
        /\ NUL \notin { r.buffer[k] : k \in 1..Len(r.buffer) }

\* A parameter of another place is refused by the constructor (validators_store.cpp:24-34).
ASSUME ParamsAssumption == \A p \in Params : p.in \in {"path", "query", "header"}

ASSUME NameAssumption == Name \in Seq(STRING)

VARIABLES pc, param, range, \* the call
          cursor,
          text,             \* the string being read
          ret,              \* the JSON text, a sequence of tokens
          outcome
vars == <<pc, param, range, cursor, text, ret, outcome>>

buffer == range.buffer
end == range.end
InRange(c) == c < end

-----------------------------------------------------------------------------
(* GetDeserializer: what the parameter's style makes of it.                *)

Primitives == {"boolean", "integer", "number", "string"}

StartChar(style) == CASE style = "label" -> "."
                      [] style = "matrix" -> ";"
                      [] OTHER -> NUL

\* Mutant: objects are always named.
NamedObject(in, style, explode, type) ==
    \/ /\ style \notin {"simple", "label", "content"}
       /\ type # "array" \/ ~explode
    \/ style = "content" /\ in = "query"

HasNameAtStart(in, style, explode, type) ==
    \/ /\ style \notin {"simple", "label", "content"}
       /\ type \notin {"array", "object"} \/ ~explode
    \/ style = "content" /\ in = "query"

ArrayItemsSeparator(style, explode) ==
    CASE explode /\ style = "label" -> "."
      [] explode /\ style = "matrix" -> ";"
      [] explode /\ style \in {"form", "spaceDelimited", "pipeDelimited"} -> "&"
      [] ~explode /\ style = "spaceDelimited" -> "%"
      [] ~explode /\ style = "pipeDelimited" -> "|"
      [] OTHER -> ","

HasArrayRunningName(style, explode) ==
    explode /\ style \in {"matrix", "form", "spaceDelimited", "pipeDelimited"}

ObjKVSep(explode) == IF explode THEN "=" ELSE ","

ObjVKSep(style, explode) ==
    CASE explode /\ style = "label" -> "."
      [] explode /\ style = "matrix" -> ";"
      [] explode /\ style \in {"form", "deepObject"} -> "&"
      [] OTHER -> ","

kind == IF param.type \in Primitives THEN "primitive" ELSE param.type
start_ == StartChar(param.style)
skip_name_ == HasNameAtStart(param.in, IF kind = "content" THEN "content" ELSE param.style,
                             param.explode, param.type)
separator_ == ArrayItemsSeparator(param.style, param.explode)
has_running_name_ == kind = "array" /\ HasArrayRunningName(param.style, param.explode)
has_20_separator_ == param.style = "spaceDelimited" /\ ~param.explode
is_deep_obj_ == kind = "object" /\ param.style = "deepObject"
vk_separator_ == ObjVKSep(param.style, param.explode)

-----------------------------------------------------------------------------
Init == /\ pc = "idle" /\ outcome = "PENDING"
        /\ param = [type |-> "none"] /\ range = [buffer |-> <<>>, beg |-> 1, end |-> 1]
        /\ cursor = 1 /\ text = <<>> /\ ret = <<>>

Call(p, r) ==
    /\ pc = "idle"
    /\ pc' = "start"
    /\ param' = p /\ range' = r /\ cursor' = r.beg
    /\ UNCHANGED <<text, ret, outcome>>

Goto(label, c) == pc' = label /\ cursor' = c

\* Mutant: an exception is caught and the step tried again.
StepOrRetry(ok, step) ==
    /\ \/ ok /\ step /\ UNCHANGED outcome
       \/ ~ok /\ Goto(pc, cursor) /\ UNCHANGED <<text, ret, outcome>>
    /\ UNCHANGED <<param, range>>

(* A step either goes on or throws DeserializationException.               *)
StepOrThrow(ok, step) ==
    /\ \/ ok /\ step /\ UNCHANGED outcome
       \/ ~ok /\ Goto("done", cursor) /\ outcome' = "EXCEPTION" /\ UNCHANGED <<text, ret>>
    /\ UNCHANGED <<param, range>>

CheckNSkipStart ==
    /\ pc = "start"
    /\ StepOrThrow(start_ \in {NUL, At(buffer, cursor)},
           /\ Goto("name", IF start_ = NUL THEN cursor ELSE cursor + 1)
           /\ UNCHANGED <<text, ret>>)

\* CheckNSkipChar: at the end of the range there is nothing to check.
CanSkip(c, ch) == InRange(c) => At(buffer, c) = ch
Skipped(c) == IF InRange(c) THEN c + 1 ELSE c

NameAt(c) == /\ c + Len(Name) <= end
             /\ SubSeq(buffer, c, c + Len(Name) - 1) = Name
AfterName(c) == c + Len(Name)

CheckNSkipName ==
    /\ pc = "name"
    /\ IF skip_name_ /\ ~has_running_name_ /\ ~is_deep_obj_
       THEN StepOrThrow(NameAt(cursor) /\ CanSkip(AfterName(cursor), "="),
                Goto("data", Skipped(AfterName(cursor))) /\ UNCHANGED <<text, ret>>)
       ELSE StepOrThrow(TRUE, Goto("data", cursor) /\ UNCHANGED <<text, ret>>)

CheckData ==
    /\ pc = "data"
    /\ StepOrThrow(kind = "content" \/ InRange(cursor),
           /\ Goto(CASE kind = "content" -> "string" [] kind = "primitive" -> "value"
                     [] OTHER -> "item", cursor)
           /\ UNCHANGED <<text, ret>>)

-----------------------------------------------------------------------------
(* The loops over the items of an array and the properties of an object.   *)

ArrayItem ==
    /\ pc = "item" /\ kind = "array" /\ InRange(cursor)
    /\ LET c == Skipped(AfterName(cursor))
       IN  IF has_running_name_
           THEN StepOrThrow(NameAt(cursor) /\ CanSkip(AfterName(cursor), "=") /\ InRange(c),
                    Goto("value", c) /\ UNCHANGED <<text, ret>>)
           ELSE StepOrThrow(TRUE, Goto("value", cursor) /\ UNCHANGED <<text, ret>>)

KeyEnd(c, terminator) == Min({ k \in c..end : k >= end \/ buffer[k] = terminator })
KeyAt(c, terminator) == SubSeq(buffer, c, KeyEnd(c, terminator) - 1)

Property(c, terminator) ==
    LET key == KeyAt(c, terminator)
    IN  /\ text' = <<>>
        /\ ret' = Append(ret, <<"key", key>>)

PlainProperty ==
    /\ pc = "item" /\ kind = "object" /\ ~is_deep_obj_ /\ InRange(cursor)
    /\ LET kv == ObjKVSep(param.explode)
       IN  StepOrThrow(KeyAt(cursor, kv) \in DOMAIN KTMap,
               Goto("value", Skipped(KeyEnd(cursor, kv))) /\ Property(cursor, kv))

\* name[key]=
DeepProperty ==
    /\ pc = "item" /\ is_deep_obj_ /\ InRange(cursor)
    /\ LET c == Skipped(AfterName(cursor))
           bracket == KeyEnd(c, "]")
       IN  StepOrThrow(/\ NameAt(cursor) /\ CanSkip(AfterName(cursor), "[")
                       /\ KeyAt(c, "]") \in DOMAIN KTMap
                       /\ CanSkip(Skipped(bracket), "="),
               Goto("value", Skipped(Skipped(bracket))) /\ Property(c, "]"))

-----------------------------------------------------------------------------
(* Values.                                                                 *)

ValueType == CASE kind = "primitive" -> param.type
               [] kind = "array" -> param.items
               [] kind = "object" -> KTMap[ret[Len(ret)][2]]
               [] OTHER -> "none"

\* The NUL at its end stands for no terminator.
Terminator == CASE kind = "array" -> separator_
                [] kind = "object" -> vk_separator_
                [] OTHER -> NUL

AfterValue == IF kind \in {"array", "object"} THEN "separator" ELSE "end"

DeserializeBoolean ==
    /\ pc = "value" /\ ValueType = "boolean"
    /\ StepOrThrow(InRange(cursor) /\ At(buffer, cursor) \in Booleans,
           /\ Goto(AfterValue, cursor + 1)
           /\ ret' = Append(ret, <<"literal", <<buffer[cursor]>>>>)
           /\ UNCHANGED text)

RunEnd(c, chars) == Min({ k \in c..end : k >= end \/ buffer[k] \notin chars })
AfterSign == IF InRange(cursor) /\ At(buffer, cursor) = "-" THEN cursor + 1 ELSE cursor

\* Not empty, and not a sign alone.
Numeral(to) == to > cursor /\ ~(to = cursor + 1 /\ At(buffer, cursor) = "-")

TakeNumeral(to) == /\ Goto(AfterValue, to)
                   /\ ret' = Append(ret, <<"literal", SubSeq(buffer, cursor, to - 1)>>)
                   /\ UNCHANGED text

DeserializeInteger ==
    /\ pc = "value" /\ ValueType = "integer"
    /\ LET to == RunEnd(AfterSign, Digits)
       IN  StepOrThrow(Numeral(to), TakeNumeral(to))

DeserializeNumber ==
    /\ pc = "value" /\ ValueType = "number"
    /\ LET to == RunEnd(AfterSign, Digits \cup {"."})
           points == { k \in cursor..(to - 1) : buffer[k] = "." }
       IN  StepOrThrow(Numeral(to) /\ Cardinality(points) <= 1 /\ to - 1 \notin points,
                       TakeNumeral(to))

BeginString ==
    /\ pc = "value" /\ ValueType = "string"
    /\ StepOrThrow(TRUE, Goto("string", cursor) /\ text' = <<>> /\ UNCHANGED ret)

StringGoesOn == /\ pc = "string" /\ InRange(cursor)
                /\ At(buffer, cursor) # Terminator

Plain ==
    /\ StringGoesOn /\ At(buffer, cursor) # "%"
    /\ StepOrThrow(TRUE,
           /\ Goto("string", cursor + 1)
           /\ text' = Append(text, IF buffer[cursor] = "+" THEN " " ELSE buffer[cursor])
           /\ UNCHANGED ret)

\* Mutant: one digit in the range is enough.
EscapeAtEnd ==
    /\ StringGoesOn /\ At(buffer, cursor) = "%"
    /\ StepOrThrow(/\ cursor + 1 < end
                   /\ At(buffer, cursor + 1) \in Hex
                   /\ At(buffer, cursor + 2) \in Hex \cup {NUL},
           /\ Goto("string", cursor + 3)
           /\ text' = Append(text, Octet(At(buffer, cursor + 1), At(buffer, cursor + 2)))
           /\ UNCHANGED ret)

Escape ==
    /\ StringGoesOn /\ At(buffer, cursor) = "%"
    /\ StepOrThrow(/\ cursor + 2 < end
                   /\ At(buffer, cursor + 1) \in Hex
                   /\ At(buffer, cursor + 2) \in Hex,
           /\ Goto("string", cursor + 3)
           /\ text' = Append(text, Octet(buffer[cursor + 1], buffer[cursor + 2]))
           /\ UNCHANGED ret)

EndString ==
    /\ pc = "string" /\ ~(InRange(cursor) /\ At(buffer, cursor) # Terminator)
    /\ StepOrThrow(TRUE,
           /\ Goto(AfterValue, cursor)
           /\ ret' = Append(ret, <<IF kind = "content" THEN "raw" ELSE "string", text>>)
           /\ text' = <<>>)

-----------------------------------------------------------------------------
(* Between the items, and the end.                                         *)

Comma == <<",", <<>>>>
SeparatorText == IF has_20_separator_ THEN <<"%", "2", "0">> ELSE <<separator_>>

\* Mutant: the last separator need not be followed by an item.
SeparatorOnly ==
    /\ pc = "separator" /\ kind = "array"
    /\ LET c == cursor + Len(SeparatorText)
       IN  StepOrThrow(InRange(cursor) => c <= end
                         /\ SubSeq(buffer, cursor, c - 1) = SeparatorText,
               /\ Goto("item", IF InRange(cursor) THEN c ELSE cursor)
               /\ ret' = Append(ret, Comma)
               /\ UNCHANGED text)

CheckSeparator ==
    /\ pc = "separator" /\ kind = "array"
    /\ LET c == cursor + Len(SeparatorText)
       IN  StepOrThrow(InRange(cursor) => c < end
                         /\ SubSeq(buffer, cursor, c - 1) = SeparatorText,
               /\ Goto("item", IF InRange(cursor) THEN c ELSE cursor)
               /\ ret' = Append(ret, Comma)
               /\ UNCHANGED text)

\* *cursor is read even where the range has ended.
SkipVKSeparator ==
    /\ pc = "separator" /\ kind = "object"
    /\ IF At(buffer, cursor) = vk_separator_
       THEN StepOrThrow(TRUE,
                /\ Goto("item", cursor + 1)
                /\ ret' = Append(ret, Comma)
                /\ UNCHANGED text)
       ELSE StepOrThrow(TRUE, Goto("item", cursor) /\ UNCHANGED <<text, ret>>)

EndItems ==
    /\ pc = "item" /\ ~InRange(cursor)
    /\ StepOrThrow(TRUE, Goto("end", cursor) /\ UNCHANGED <<text, ret>>)

\* The comma after the last item is overwritten by the closing bracket.
CheckEnd ==
    /\ pc = "end"
    /\ IF cursor = end
       THEN /\ Goto("done", cursor) /\ outcome' = "OK"
            /\ ret' = IF kind = "array" /\ ret # <<>> /\ ret[Len(ret)] = Comma
                      THEN SubSeq(ret, 1, Len(ret) - 1) ELSE ret
            /\ UNCHANGED <<param, range, text>>
       ELSE StepOrThrow(FALSE, FALSE)

Return ==
    /\ pc = "done"
    /\ pc' = "idle" /\ outcome' = "PENDING"
    /\ param' = [type |-> "none"] /\ range' = [buffer |-> <<>>, beg |-> 1, end |-> 1]
    /\ cursor' = 1 /\ text' = <<>> /\ ret' = <<>>

-----------------------------------------------------------------------------
Deserialize ==
    \/ CheckNSkipStart \/ CheckNSkipName \/ CheckData
    \/ ArrayItem \/ PlainProperty \/ DeepProperty
    \/ DeserializeBoolean \/ DeserializeInteger \/ DeserializeNumber
    \/ BeginString \/ Plain \/ Escape \/ EndString
    \/ CheckSeparator \/ SkipVKSeparator \/ EndItems \/ CheckEnd

Next == \/ Deserialize
        \/ Return
        \/ pc = "idle" /\ \E p \in Params : \E r \in Ranges[p] : Call(p, r)

Spec == Init /\ [][Next]_vars /\ WF_vars(Deserialize)

-----------------------------------------------------------------------------
TypeOK ==
    /\ pc \in {"idle", "start", "name", "data", "item", "value", "string", "separator",
               "end", "done"}
    /\ cursor \in Nat \ {0}
    /\ text \in Seq(STRING)
    /\ ret \in Seq({"key", "literal", "string", "raw", ","} \X Seq(STRING))
    /\ outcome \in {"PENDING", "OK", "EXCEPTION"}

(* Every position at which a character is read is in the buffer or is the  *)
(* NUL after it, although the helpers test the end of the range in some    *)
(* places only and an object's separator is read beyond it                 *)
(* (base_deserializer.hpp:51-72, 151, object_deserializer.cpp:70, 105).    *)
ReadsInBuffer == /\ cursor <= end + 1
                 /\ cursor <= Len(buffer) + 1

(* Every call returns: each turn of a loop moves the cursor or throws      *)
(* (array_deserializer.hpp:50-101, object_deserializer.cpp:42-110).        *)
CallReturns == (pc # "idle") ~> (pc = "done")

-----------------------------------------------------------------------------
(* Against the reference.                                                  *)

taken == SubSeq(buffer, range.beg, end - 1)
TypeOf(entry) == CASE kind = "array" -> param.items
                   [] kind = "object" -> KTMap[Key(entry)]
                   [] OTHER -> param.type
spelled == { v \in Values[param] : Serialised(param, Name, v) = taken }

\* How many tokens an entry has, with the comma before the next.
Tokens(p) == IF p.type = "object" THEN 3 ELSE 2

EntryAt(p, tokens, j) ==
    <<IF p.type = "object" THEN tokens[3 * j - 2][2] ELSE <<>>, tokens[Tokens(p) * j - 1][2]>>

Entries(p, tokens) ==
    [ j \in 1..((Len(tokens) + 1) \div Tokens(p)) |-> EntryAt(p, tokens, j) ]

(* What the JSON parser makes of the tokens: it wants a comma between the  *)
(* members and none after the last, and digits on both sides of a point.   *)
Parses ==
    /\ (Len(ret) + 1) % Tokens(param) = 0
    /\ \A i \in 1..Len(ret) :
          /\ ret[i] = Comma <=> i % Tokens(param) = 0
          /\ ret[i][1] = "key" <=> kind = "object" /\ i % 3 = 1
          /\ ret[i][1] = "literal" =>
                LET chars == ret[i][2]
                    first == IF chars[1] = "-" THEN 2 ELSE 1
                IN  /\ chars[first] # "."
                    /\ chars[first] = "0" => first = Len(chars) \/ chars[first + 1] = "."

\* What the styles cannot tell apart, and what the code is known to refuse.
Ambiguous == \/ param.style = "label" /\ param.explode /\ kind \in {"array", "object"}
             \/ has_20_separator_
NotServed == \/ is_deep_obj_ /\ ~param.explode
             \/ kind = "object" /\ At(buffer, end) = vk_separator_

(* A range that spells a value in the style of its parameter is accepted,  *)
(* and its JSON text is that value: the tables of GetDeserializer and the  *)
(* loops agree with the style for every type, whatever follows the range   *)
(* (param_validators.cpp:13-109, 164-208; the Deserialize functions).      *)
SerialisedIsAccepted ==
    pc = "done" /\ ~Ambiguous /\ ~NotServed =>
        \A v \in spelled : outcome = "OK" /\ ret = Json(param, v, TypeOf)

Unescaped(chars) == { chars[k] : k \in 1..Len(chars) } \cap {"%", "+"} = {}

\* The rows of the README's tables that the code serves (README.md:64-95).
Tabled(p) ==
    /\ p.explode \in BOOLEAN
    /\ \/ /\ p.type \in Primitives \cup {"array", "object"}
          /\ p.style \in {"simple", "label", "matrix", "form"}
       \/ p.type = "array" /\ p.style \in {"spaceDelimited", "pipeDelimited"}
       \/ p.type = "object" /\ p.style = "deepObject" /\ p.explode

(* What is accepted is a serialisation: a text without escapes whose JSON  *)
(* parses is what its style makes of that JSON, so that no separator, name *)
(* or character of a number can be missing, doubled or misplaced. Only the *)
(* last property of an object may be cut short                             *)
(* (base_deserializer.hpp:63-142, array_deserializer.hpp:27-102,           *)
(* object_deserializer.cpp:42-110).                                        *)
AcceptedIsSerialised ==
    pc = "done" /\ outcome = "OK" /\ Tabled(param) /\ Unescaped(taken) /\ Parses =>
        Spells(buffer, range.beg, end, param, Name, Entries(param, ret))

(* README.md:85 lists style deepObject with explode false as supported.    *)
DeepObjectIsServed ==
    pc = "done" /\ is_deep_obj_ /\ ~param.explode => \A v \in spelled : outcome = "OK"

(* README.md:62: parameters of all types "serialized in various styles"    *)
(* can be deserialized; what follows the parameter in the query is not its *)
(* own.                                                                    *)
ObjectIsServedAnywhere ==
    pc = "done" /\ kind = "object" /\ param.explode =>
        \A v \in spelled : outcome = "OK"
=============================================================================
