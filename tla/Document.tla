------------------------------ MODULE Document ------------------------------
(***************************************************************************)
(* GenericValue and GenericDocument: the values a document is made of, the *)
(* handler that builds them on a stack while a text is read, the           *)
(* operations on objects and arrays, equality, and Accept, which hands a   *)
(* value to another handler such as a writer.                              *)
(*                                                                         *)
(* A value is a record; members and elements are sequences in an           *)
(* allocation of some capacity. A number is of a representation that is    *)
(* "Double" or not, and an integer carries the flags of the types it fits. *)
(***************************************************************************)
EXTENDS Writer

CONSTANT DefaultCapacity \* 16

NullValue == [type |-> "null"]
BoolValue(b) == [type |-> "bool", is |-> b]
StringValue(s) == [type |-> "string", text |-> s]
ArrayValue(elements) == [type |-> "array", of |-> elements, capacity |-> Len(elements)]
ObjectValue(members) == [type |-> "object", of |-> members, capacity |-> Len(members)]
DoubleValue(minus, i, p) == [type |-> "number", flags |-> {"Double"}, minus |-> minus,
                             i |-> i, p |-> p]

-----------------------------------------------------------------------------
(* Numbers: the flags each constructor sets, by the bits of the number.    *)

FlagsOf(rep, n) ==
    CASE rep = "Int" -> {"Int", "Int64"} \cup IF n >= 0 THEN {"Uint", "Uint64"} ELSE {}
      [] rep = "Uint" -> {"Uint", "Uint64", "Int64"} \cup IF n >= IntLimit THEN {} ELSE {"Int"}
      [] rep = "Int64" ->
           {"Int64"} \cup (IF n >= 0 THEN {"Uint64"} ELSE {})
             \cup (IF n >= 0 /\ n \div UIntLimit = 0 THEN {"Uint"} ELSE {})
             \cup (IF (n >= 0 /\ n \div IntLimit = 0) \/ (n < 0 /\ n >= -IntLimit)
                   THEN {"Int"} ELSE {})
      [] rep = "Uint64" ->
           {"Uint64"} \cup (IF n < Int64Limit THEN {"Int64"} ELSE {})
             \cup (IF n \div UIntLimit = 0 THEN {"Uint"} ELSE {})
             \cup (IF n \div IntLimit = 0 THEN {"Int"} ELSE {})
IntegerValue(rep, n) == [type |-> "number", flags |-> FlagsOf(rep, n), n |-> n]
IsDouble(v) == "Double" \in v.flags
GetDouble(v) == IF IsDouble(v) THEN <<v.minus, v.i, v.p>>
                ELSE <<v.n < 0, IF v.n < 0 THEN -v.n ELSE v.n, 0>>

-----------------------------------------------------------------------------
(* The handler: a stack of values.                                         *)

Pop(stack, n) == SubSeq(stack, 1, Len(stack) - n)
Popped(stack, n) == SubSeq(stack, Len(stack) - n + 1, Len(stack))

Push(stack, event) ==
    CASE event[1] = "Null" -> Append(stack, NullValue)
      [] event[1] = "Bool" -> Append(stack, BoolValue(event[2]))
      [] event[1] \in {"Int", "Uint", "Int64", "Uint64"} ->
           Append(stack, IntegerValue(event[1], event[2]))
      [] event[1] = "Double" -> Append(stack, DoubleValue(event[2], event[3], Last(event)))
      [] event[1] \in {"String", "Key"} -> Append(stack, StringValue(event[2]))
      [] event[1] = "StartObject" -> Append(stack, ObjectValue(<<>>))
      [] event[1] = "StartArray" -> Append(stack, ArrayValue(<<>>))
      [] event[1] = "EndObject" ->
           LET kv == Popped(stack, 2 * event[2])
               rest == Pop(stack, 2 * event[2])
           IN  Append(Front(rest), ObjectValue([i \in 1..event[2] |->
                                                  <<kv[2 * i - 1].text, kv[2 * i]>>]))
      [] event[1] = "EndArray" ->
           Append(Front(Pop(stack, event[2])), ArrayValue(Popped(stack, event[2])))

RECURSIVE Pushed(_, _)
Pushed(stack, events) ==
    IF events = <<>> THEN stack ELSE Pushed(Push(stack, Head(events)), Tail(events))

\* A text is read into a document; if that fails, the document keeps its value.
ParseStream(doc, c) ==
    LET r == Parse(c)
    IN  IF Failed(r) THEN [doc EXCEPT !.error = r.error, !.stack = <<>>]
        ELSE [value |-> Last(Pushed(<<>>, r.events)), stack |-> <<>>, error |-> "none"]
EmptyDocument == [value |-> NullValue, stack |-> <<>>, error |-> "none"]

\* The events of a value, of the first type a number is of.
AcceptNumber(v) ==
    CASE IsDouble(v) -> <<"Double", v.minus, v.i, v.p>>
      [] ~IsDouble(v) /\ "Int" \in v.flags -> <<"Int", v.n>>
      [] ~IsDouble(v) /\ "Int" \notin v.flags /\ "Uint" \in v.flags -> <<"Uint", v.n>>
      [] ~IsDouble(v) /\ v.flags \cap {"Int", "Uint"} = {} /\ "Int64" \in v.flags ->
           <<"Int64", v.n>>
      [] OTHER -> <<"Uint64", v.n>>
RECURSIVE Accept(_)
Accept(v) ==
    CASE v.type = "null" -> <<<<"Null">>>>
      [] v.type = "bool" -> <<<<"Bool", v.is>>>>
      [] v.type = "string" -> <<<<"String", v.text>>>>
      [] v.type = "number" -> <<AcceptNumber(v)>>
      [] v.type = "array" ->
           <<<<"StartArray">>>> \o FlattenSeq([i \in DOMAIN v.of |-> Accept(v.of[i])])
             \o <<<<"EndArray", Len(v.of)>>>>
      [] v.type = "object" ->
           <<<<"StartObject">>>>
             \o FlattenSeq([i \in DOMAIN v.of |->
                              <<<<"Key", v.of[i][1]>>>> \o Accept(v.of[i][2])])
             \o <<<<"EndObject", Len(v.of)>>>>

-----------------------------------------------------------------------------
(* Objects and arrays                                                      *)

MemberNames(o) == { o.of[i][1] : i \in DOMAIN o.of }
FindMember(o, name) ==
    LET found == { i \in DOMAIN o.of : o.of[i][1] = name }
    IN  IF found = {} THEN Len(o.of) + 1 ELSE Min(found)
Reserve(v, n) == [v EXCEPT !.capacity = Max({@, n})]

\* AddMember and PushBack: a full allocation grows by half, rounded up.
Added(v, item) ==
    LET room == CASE Len(v.of) < v.capacity -> v
                  [] v.capacity = 0 -> Reserve(v, DefaultCapacity)
                  [] OTHER -> Reserve(v, v.capacity + (v.capacity + 1) \div 2)
    IN  [room EXCEPT !.of = Append(@, item)]

\* Mutant: the last member is dropped although it was not moved.
RemovedWithoutMove(o, i) == [o EXCEPT !.of = Front(@)]

\* RemoveMember: the last member takes the place of member i.
Removed(o, i) ==
    LET last == Len(o.of)
    IN  [o EXCEPT !.of = Front(IF i = last THEN @ ELSE [@ EXCEPT ![i] = o.of[last]])]
RemoveMember(o, name) ==
    IF FindMember(o, name) > Len(o.of) THEN o ELSE Removed(o, FindMember(o, name))

\* EraseMember and Erase: the items from first until last go, the others keep their order.
Erased(v, first, last) ==
    [v EXCEPT !.of = SubSeq(@, 1, first - 1) \o SubSeq(@, last, Len(@))]
EraseMember(o, name) ==
    LET i == FindMember(o, name)
    IN  IF i > Len(o.of) THEN o ELSE Erased(o, i, i + 1)
PopBack(a) == [a EXCEPT !.of = Front(@)]
Cleared(v) == [v EXCEPT !.of = <<>>]

RECURSIVE Equals(_, _)
Equals(v, w) ==
    /\ v.type = w.type
    /\ v.type = "bool" => v.is = w.is
    /\ v.type = "string" => v.text = w.text
    /\ v.type = "number" =>
         IF IsDouble(v) \/ IsDouble(w)
         THEN LET a == GetDouble(v)
                  b == GetDouble(w)
              IN  Normal(a[2], a[3]) = Normal(b[2], b[3]) /\ (a[1] = b[1] \/ a[2] = 0)
         ELSE v.n = w.n
    /\ v.type = "array" => /\ Len(v.of) = Len(w.of)
                           /\ \A i \in DOMAIN v.of : Equals(v.of[i], w.of[i])
    /\ v.type = "object" =>
         /\ Len(v.of) = Len(w.of)
         /\ \A i \in DOMAIN v.of :
              LET j == FindMember(w, v.of[i][1])
              IN  j <= Len(w.of) /\ Equals(v.of[i][2], w.of[j][2])
=============================================================================
