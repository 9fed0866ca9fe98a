--------------------------- MODULE MCErrorMessages --------------------------
(***************************************************************************)
(* Schemas of every keyword, alone, below another and beside another, and  *)
(* documents of every type; limits around the borders of integers of three *)
(* bits; and errors below errors, up to three levels deep.                 *)
(***************************************************************************)
EXTENDS ErrorMessages

MCWidth == 3
MCQuoted == {"ab"}
MCCodePoints(text) == CASE text = "" -> 0 [] text = "ab" -> 2 [] OTHER -> 1
MCMatches(pattern, text) == CASE pattern = "^a" -> text \in {"a", "ab"}
                              [] pattern = "b$" -> text \in {"b", "ab"}

Leaves == { [type |-> {"string"}], [type |-> {"integer"}],
            [enum |-> {Integer(1), Array(<<Integer(1)>>)}],
            [minimum |-> Integer(1)] }
Two == { [type |-> {"string"}], [minimum |-> Integer(1)] }

Combined ==
    { [allOf |-> <<a, b>>] : a \in Leaves, b \in Leaves }
      \cup { [anyOf |-> <<a, b>>] : a \in Leaves, b \in Leaves }
      \cup { [oneOf |-> <<a, b>>] : a \in Leaves, b \in Leaves }
      \cup { [not |-> a] : a \in Leaves }
      \cup { [allOf |-> <<a>>, anyOf |-> <<b, b>>, oneOf |-> <<a, b>>, not |-> [enum |-> {Integer(2)}]] :
               a \in Two, b \in Leaves }

OfArrays ==
    { [items |-> [list |-> a], uniqueItems |-> u] : a \in Leaves, u \in BOOLEAN }
      \cup { [items |-> [tuple |-> <<a>>], additionalItems |-> more] :
               a \in Leaves, more \in { [allowed |-> FALSE], [schema |-> [type |-> {"string"}]] } }
      \cup { [items |-> [list |-> [not |-> a]], minItems |-> 1, maxItems |-> 1] : a \in Two }

OfObjects ==
    { [properties |-> [a |-> a, b |-> b], required |-> r] :
        a \in Leaves, b \in Two, r \in {{}, {"a"}} }
      \cup { [properties |-> [a |-> a], additionalProperties |-> more] :
               a \in Leaves, more \in { [allowed |-> FALSE], [schema |-> [type |-> {"string"}]] } }
      \cup { [patternProperties |-> [p \in {"^a", "b$"} |-> IF p = "^a" THEN a ELSE b],
              properties |-> [b |-> [type |-> {"integer"}]],
              additionalProperties |-> [allowed |-> FALSE]] : a \in Leaves, b \in Two }
      \cup { [dependencies |-> [a |-> d], minProperties |-> 1, maxProperties |-> 1 + n] :
               n \in {0, 1},
               d \in { [names |-> {"b"}], [schema |-> [required |-> {"b"}]],
                       [schema |-> [properties |-> [b |-> [type |-> {"string"}]]]] } }

Nested ==
    { [properties |-> [a |-> s]] : s \in { c \in Combined : DOMAIN c # {"anyOf"} } }
      \cup { [items |-> [list |-> s]] : s \in { o \in OfObjects : Has(o, "required") } }
      \cup { [anyOf |-> <<s, [type |-> {"null"}]>>] : s \in OfArrays }
      \cup { [oneOf |-> <<[allOf |-> <<s>>], [type |-> {"object"}]>>] : s \in OfObjects }

Keywords == Leaves \cup Combined \cup OfArrays \cup OfObjects \cup Nested

Scalars == { Null, Bool(TRUE), Integer(1), Double(3), String("a") }
Few == { Integer(1), Integer(0), String("a") }
Arrays == { Array(<<>>) } \cup { Array(<<x>>) : x \in Few } \cup { Array(<<x, y>>) : x, y \in Few }
            \cup { Array(<<Object(<<<<"a", x>>>>), Object(<<<<"a", y>>>>)>>) : x, y \in Few }
Objects == { Object(<<>>) } \cup { Object(<<<<k, x>>>>) : k \in {"a", "b", "ab"}, x \in Few }
             \cup { Object(<<<<k, x>>, <<"b", y>>>>) : k \in {"a", "ab"}, x, y \in Few }
             \cup { Object(<<<<"a", Array(<<x>>)>>>>) : x \in Few }
Values == Scalars \cup Arrays \cup Objects

-----------------------------------------------------------------------------
(* Numbers around every boundary of the two integer types.                 *)

Integers3 == { Integer(n) : n \in -4..7 }
Numbers == Integers3 \cup { Double(t) : t \in {-9, -1, 0, 2, 3, 15} }
Limits == { [minimum |-> n, exclusiveMinimum |-> x] : n \in Numbers, x \in BOOLEAN }
            \cup { [maximum |-> n, exclusiveMaximum |-> x] : n \in Numbers, x \in BOOLEAN }
            \cup { [multipleOf |-> n] : n \in { m \in Numbers : m.twice > 0 } }
            \cup { [enum |-> {n}] : n \in Numbers }
            \cup { [type |-> {t}] : t \in Types }
            \cup { [minLength |-> n, maxLength |-> 1] : n \in 0..2 }
Values3 == Numbers \cup { String(t) : t \in {"", "a", "ab"} }

(* Errors below errors.                                                    *)

IsString == [type |-> {"string"}]
AtLeast1 == [minimum |-> Integer(1)]
Short == [maxLength |-> 0]
Chosen == { [k \in {"anyOf"} |-> <<a, b>>] : a, b \in {IsString, AtLeast1, Short} }
            \cup { [oneOf |-> <<a, b>>] : a, b \in {IsString, AtLeast1, Short} }
            \cup { [allOf |-> <<a>>] : a \in {IsString, AtLeast1, Short} }
Deeper == { [oneOf |-> <<s, [type |-> {"null"}]>>] : s \in Chosen }
            \cup { [allOf |-> <<s>>] : s \in Chosen }
            \cup { [properties |-> [a |-> s]] : s \in Chosen }
            \cup { [items |-> [list |-> s]] : s \in Chosen }
Dependent == { [dependencies |-> [n \in {"a", "b"} |-> IF n = "a" THEN d ELSE e]] :
                 d, e \in { [names |-> {"c"}], [schema |-> [properties |-> [a |-> IsString]]],
                            [schema |-> [anyOf |-> <<[required |-> {"d"}], IsString>>]] } }

Layers == Chosen \cup Deeper \cup Dependent \cup { [anyOf |-> <<s, IsString>>] : s \in Deeper }
                 \cup { [anyOf |-> <<s, IsString>>] : s \in Dependent }

(* Where the code is known to ask too little, or too much.                 *)
Overlapping ==
    { [patternProperties |-> [p \in {"^a"} |-> a],
       additionalProperties |-> [schema |-> b]] : a, b \in Two }
Lenient ==
    { [type |-> {t}, nullable |-> TRUE] : t \in {"string", "object"} }
      \cup { [properties |-> [a |-> [type |-> {"string"}, default |-> String("b")]], required |-> {"a"}] }

MCSchemas == Keywords \cup Limits \cup Layers \cup Overlapping \cup Lenient
MCDocuments == Values \cup Values3
=============================================================================
