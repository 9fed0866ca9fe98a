----------------------------- MODULE JsonValues -----------------------------
(***************************************************************************)
(* JSON values, the events in which GenericValue::Accept hands one to a    *)
(* handler, and the hash code in which two values are compared.            *)
(*                                                                         *)
(* A number is held as twice its value, so that halves are numbers too, of *)
(* representation "int" or "double". A string is a model of its text.      *)
(***************************************************************************)
EXTENDS Integers, SequencesExt

Null == [type |-> "null"]
Bool(b) == [type |-> "boolean", is |-> b]
Integer(n) == [type |-> "number", rep |-> "int", twice |-> 2 * n]
Double(twice) == [type |-> "number", rep |-> "double", twice |-> twice]
String(text) == [type |-> "string", text |-> text]
Array(items) == [type |-> "array", items |-> items]
Object(members) == [type |-> "object", members |-> members] \* pairs of a key and a value

Keys(v) == { v.members[i][1] : i \in DOMAIN v.members }
Member(v, key) == (SelectSeq(v.members, LAMBDA m : m[1] = key))[1][2]

-----------------------------------------------------------------------------
(* Accept                                                                  *)

Event(on, of) == [on |-> on, of |-> of]

RECURSIVE Events(_)
Events(v) ==
    CASE v.type = "object" ->
           <<Event("StartObject", v)>>
             \o FlattenSeq([i \in DOMAIN v.members |->
                              <<Event("Key", v.members[i][1])>> \o Events(v.members[i][2])])
             \o <<Event("EndObject", Len(v.members))>>
      [] v.type = "array" ->
           <<Event("StartArray", v)>>
             \o FlattenSeq([i \in DOMAIN v.items |-> Events(v.items[i])])
             \o <<Event("EndArray", Len(v.items))>>
      [] OTHER -> <<Event("Value", v)>>

-----------------------------------------------------------------------------
(* Hasher: a stack of codes, taken to be free of collisions. The members   *)
(* of an object are hashed without regard to their order, a number without *)
(* regard to its representation.                                           *)

LastOf(n, s) == SubSeq(s, Len(s) - n + 1, Len(s))
Without(n, s) == SubSeq(s, 1, Len(s) - n)

Hashed(codes, e) ==
    CASE e.on = "Value" ->
           Append(codes, IF e.of.type = "number" THEN <<"number", e.of.twice>> ELSE <<e.of>>)
      [] e.on = "Key" -> Append(codes, <<String(e.of)>>)
      [] e.on = "EndObject" ->
           LET kv == LastOf(2 * e.of, codes)
           IN  Append(Without(2 * e.of, codes),
                      <<"object", { <<kv[2 * i - 1], kv[2 * i]>> : i \in 1..e.of }>>)
      [] e.on = "EndArray" ->
           Append(Without(e.of, codes), <<"array", LastOf(e.of, codes)>>)
      [] OTHER -> codes

HashCode(v) == FoldLeft(Hashed, <<>>, Events(v))[1]
=============================================================================
