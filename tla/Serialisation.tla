---------------------------- MODULE Serialisation ---------------------------
(***************************************************************************)
(* How the OpenAPI styles write a value: a reference for Deserializers     *)
(* that is independent of its tables. A value is a sequence of entries     *)
(* <<key, characters>>: one without a key for a primitive, one per item    *)
(* for an array, one per property for an object.                           *)
(***************************************************************************)
EXTENDS Naturals, Sequences, SequencesExt

Key(entry) == entry[1]
Chars(entry) == entry[2]

\* Concatenating the empty sequence makes TLC evaluate the elements once.
Mapped(F(_), n) == <<>> \o [ i \in 1..n |-> F(i) ]

Interpose(pieces, separator) ==
    FlattenSeq(Mapped(LAMBDA i : (IF i = 1 THEN <<>> ELSE separator) \o pieces[i], Len(pieces)))

\* A space and the characters that a style itself uses are escaped.
Escaped(chars) ==
    FlattenSeq(Mapped(LAMBDA i :
        CASE chars[i] = " " -> <<"%", "2", "0">>
          [] chars[i] = "," -> <<"%", "2", "C">>
          [] OTHER -> <<chars[i]>>, Len(chars)))

Leading(style) == CASE style = "label" -> <<".">>
                    [] style = "matrix" -> <<";">>
                    [] OTHER -> <<>>

\* What stands between the parts that an exploded value is repeated in.
Between(style) == CASE style = "label" -> <<".">>
                    [] style = "matrix" -> <<";">>
                    [] style = "simple" -> <<",">>
                    [] OTHER -> <<"&">>

\* What stands between the items of a value that is not exploded.
Delimiter(style) == CASE style = "spaceDelimited" -> <<"%", "2", "0">>
                      [] style = "pipeDelimited" -> <<"|">>
                      [] OTHER -> <<",">>

Named(style) == style \notin {"simple", "label"}

\* Whether the style's name, or the keys, stand before each part of a value.
Repeated(p) == p.type \in {"array", "object"} /\ (p.explode \/ p.style = "deepObject")

\* What comes before the first entry.
Opening(p, name) ==
    Leading(p.style) \o (IF Named(p.style) /\ ~Repeated(p) THEN name \o <<"=">> ELSE <<>>)

\* What comes before the characters of an entry.
Prefix(p, name, key) ==
    CASE p.type = "object" /\ p.style = "deepObject" -> name \o <<"[">> \o key \o <<"]", "=">>
      [] p.type = "object" /\ p.style # "deepObject" -> key \o <<IF p.explode THEN "=" ELSE ",">>
      [] p.type = "array" /\ p.explode /\ Named(p.style) -> name \o <<"=">>
      [] OTHER -> <<>>

\* What stands between two entries.
Glue(p) == CASE Repeated(p) -> Between(p.style)
             [] p.type = "object" /\ ~Repeated(p) -> <<",">>
             [] OTHER -> Delimiter(p.style)

Serialised(p, name, value) ==
    LET entry(e) == Prefix(p, name, Key(e)) \o Escaped(Chars(e))
    IN  Opening(p, name) \o
        Interpose(Mapped(LAMBDA i : entry(value[i]), Len(value)), Glue(p))

\* A property cut short of what follows its key.
Cut(p, name, key) ==
    CASE p.type = "object" /\ p.style = "deepObject" ->
            { name \o <<"[">> \o key, name \o <<"[">> \o key \o <<"]">> }
            \cup (IF key = <<>> THEN {name} ELSE {})
      [] p.type = "object" /\ p.style # "deepObject" -> { key }
      [] OTHER -> {}

(* What is in a buffer from one position up to another is what the style   *)
(* makes of a value none of whose characters needs an escape: at[k] is     *)
(* where entry k begins. A last property may be cut short if it is empty.  *)
Spells(buf, from, last, p, name, value) ==
    LET first == from + Len(Opening(p, name))
        to(at, k) == IF k = Len(value) THEN last ELSE at[k + 1] - Len(Glue(p))
        piece(k) == Prefix(p, name, Key(value[k])) \o Chars(value[k])
    IN  /\ first <= last
        /\ SubSeq(buf, from, first - 1) = Opening(p, name)
        /\ \E at \in [1..Len(value) -> first..last] :
              /\ at[1] = first
              /\ \A k \in 1..Len(value) :
                    /\ at[k] <= to(at, k)
                    /\ \/ SubSeq(buf, at[k], to(at, k) - 1) = piece(k)
                       \/ /\ k = Len(value) /\ Chars(value[k]) = <<>>
                          /\ SubSeq(buf, at[k], last - 1) \in Cut(p, name, Key(value[k]))
                    /\ k < Len(value) => SubSeq(buf, to(at, k), at[k + 1] - 1) = Glue(p)

(* The JSON text of a value, as the tokens of Deserializers.               *)
Json(p, value, TypeOf(_)) ==
    LET scalar(e) == <<IF TypeOf(e) = "string" THEN "string" ELSE "literal", Chars(e)>>
        keyed(e) == IF p.type = "object" THEN <<<<"key", Key(e)>>, scalar(e)>>
                                         ELSE <<scalar(e)>>
    IN  Interpose(Mapped(LAMBDA i : keyed(value[i]), Len(value)), <<<<",", <<>>>>>>)
=============================================================================
