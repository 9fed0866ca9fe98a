----------------------------- MODULE JsonSchema -----------------------------
(***************************************************************************)
(* internal::Schema: what the constructor makes of a JSON schema, and the  *)
(* checks that need no more than the value at hand.                        *)
(*                                                                         *)
(* A JSON schema is a record of the keywords it has. "type" and "enum"     *)
(* are sets; "properties", "patternProperties" and "dependencies" are      *)
(* functions; "required" is a set. A keyword that is either a boolean or a *)
(* schema is [allowed |-> b] or [schema |-> s], "items" is [list |-> s] or *)
(* [tuple |-> seq], a dependency [names |-> set] or [schema |-> s].        *)
(***************************************************************************)
EXTENDS JsonValues

CONSTANTS Matches(_, _),  \* IsPatternMatch(pattern, text)
          CodePoints(_),  \* the length of a text
          Width           \* bits of a 64-bit integer

Int64Max == 2 ^ (Width - 1) - 1
SizeMax == 2 ^ Width - 1 \* SizeType(~0)

Types == {"null", "boolean", "object", "array", "string", "integer", "number"}

Has(s, keyword) == keyword \in DOMAIN s
Get(s, keyword, default) == IF Has(s, keyword) THEN s[keyword] ELSE default
GetSet(s, keyword) == Get(s, keyword, {})

-----------------------------------------------------------------------------
(* The constructor.                                                        *)

\* AddType
Added(type) == CASE type = "number" -> {"number", "integer"}
                 [] type \in Types -> {type}
                 [] OTHER -> {}

TypeMask(s) == IF Has(s, "type") THEN UNION { Added(t) : t \in s.type } ELSE Types

PropertyNames(s) ==
    DOMAIN Get(s, "properties", <<>>) \cup GetSet(s, "required")
      \cup LET deps == Get(s, "dependencies", <<>>)
           IN  DOMAIN deps \cup UNION { GetSet(deps[n], "names") : n \in DOMAIN deps }

\* The constructor takes a multipleOf that is greater than zero only.
Numeric(s, keyword) ==
    IF Has(s, keyword) /\ (keyword = "multipleOf" => s[keyword].twice > 0)
    THEN <<s[keyword]>> ELSE <<>>

RECURSIVE Compile(_, _)
Compile(pointer, s) ==
    LET Sub(path, sub) == Compile(pointer \o path, sub)
        Subs(keyword) == [i \in DOMAIN Get(s, keyword, <<>>) |->
                            Sub(<<keyword, ToString(i - 1)>>, s[keyword][i])]
        properties == Get(s, "properties", <<>>)
        patterns == Get(s, "patternProperties", <<>>)
        deps == Get(s, "dependencies", <<>>)
        Optional(keyword, test) ==
            IF Has(s, keyword) /\ Has(s[keyword], test)
            THEN <<Sub(<<keyword>>, s[keyword][test])>> ELSE <<>>
        allOf == Subs("allOf")
        anyOf == Subs("anyOf")
        oneOf == Subs("oneOf")
        not == IF Has(s, "not") THEN <<Sub(<<"not">>, s.not)>> ELSE <<>>
        dependent == SetToSeq({ n \in DOMAIN deps : Has(deps[n], "schema") })
    IN  [pointer |-> pointer,
         type |-> TypeMask(s),
         enum |-> { HashCode(v) : v \in GetSet(s, "enum") },
         \* the parallel validators, and where those of a keyword begin
         validators |-> allOf \o anyOf \o oneOf \o not
                          \o [i \in DOMAIN dependent |->
                                Sub(<<"dependencies", dependent[i]>>,
                                    deps[dependent[i]].schema)],
         allOf |-> [begin |-> 0, count |-> Len(allOf)],
         anyOf |-> [begin |-> Len(allOf), count |-> Len(anyOf)],
         oneOf |-> [begin |-> Len(allOf) + Len(anyOf), count |-> Len(oneOf)],
         not |-> [begin |-> Len(allOf) + Len(anyOf) + Len(oneOf), count |-> Len(not)],
         \* an object's members
         properties |->
            [n \in PropertyNames(s) |->
               [schema |-> IF n \in DOMAIN properties
                           THEN <<Sub(<<"properties", n>>, properties[n])>> ELSE <<>>,
                required |-> n \in GetSet(s, "required"),
                dependencies |-> IF n \in DOMAIN deps THEN GetSet(deps[n], "names") ELSE {},
                validator |-> LET D == { i \in DOMAIN dependent : dependent[i] = n }
                                  first == Len(allOf) + Len(anyOf) + Len(oneOf) + Len(not)
                              IN  { first + i : i \in D }]],
         patternProperties |-> [p \in DOMAIN patterns |->
                                  Sub(<<"patternProperties", p>>, patterns[p])],
         additionalProperties |-> Get(Get(s, "additionalProperties", <<>>), "allowed", TRUE),
         additionalPropertiesSchema |-> Optional("additionalProperties", "schema"),
         hasRequired |-> GetSet(s, "required") # {},
         hasDependencies |-> Has(s, "dependencies"),
         minProperties |-> Get(s, "minProperties", 0),
         maxProperties |-> Get(s, "maxProperties", SizeMax),
         \* an array's elements
         itemsList |-> Optional("items", "list"),
         itemsTuple |-> LET tuple == Get(Get(s, "items", <<>>), "tuple", <<>>)
                        IN  [i \in DOMAIN tuple |->
                               Sub(<<"items", ToString(i - 1)>>, tuple[i])],
         hasTuple |-> Has(Get(s, "items", <<>>), "tuple"),
         additionalItems |-> Get(Get(s, "additionalItems", <<>>), "allowed", TRUE),
         additionalItemsSchema |-> Optional("additionalItems", "schema"),
         minItems |-> Get(s, "minItems", 0),
         maxItems |-> Get(s, "maxItems", SizeMax),
         uniqueItems |-> Get(s, "uniqueItems", FALSE),
         \* scalars
         minLength |-> Get(s, "minLength", 0),
         maxLength |-> Get(s, "maxLength", SizeMax),
         pattern |-> IF Has(s, "pattern") THEN <<s.pattern>> ELSE <<>>,
         minimum |-> Numeric(s, "minimum"),
         maximum |-> Numeric(s, "maximum"),
         exclusiveMinimum |-> Get(s, "exclusiveMinimum", FALSE),
         exclusiveMaximum |-> Get(s, "exclusiveMaximum", FALSE),
         multipleOf |-> Numeric(s, "multipleOf"),
         defaultLength |-> IF Has(s, "default") /\ s.default.type = "string"
                           THEN CodePoints(s.default.text) ELSE 0]

Typeless == Compile(<<>>, <<>>)
SchemaOf(property) == IF property.schema = <<>> THEN Typeless ELSE property.schema[1]

-----------------------------------------------------------------------------
(* The checks of a scalar: the first keyword at fault, or "none".          *)

IsInt64(n) == n.rep = "int" /\ n.twice <= 2 * Int64Max
IsUint64(n) == n.rep = "int" /\ n.twice >= 0

\* Minimum and value are compared in the types they are stored in.
BelowMinimum(s, n) ==
    LET min == s.minimum[1]
        below == n.twice < min.twice \/ (s.exclusiveMinimum /\ n.twice = min.twice)
    IN  CASE n.rep = "double" \/ min.rep = "double" -> below
          [] IsInt64(n) -> IF IsInt64(min) THEN below ELSE TRUE
          [] OTHER -> IF IsUint64(min) THEN below ELSE FALSE

AboveMaximum(s, n) ==
    LET max == s.maximum[1]
        above == n.twice > max.twice \/ (s.exclusiveMaximum /\ n.twice = max.twice)
    IN  CASE n.rep = "double" \/ max.rep = "double" -> above
          [] IsInt64(n) -> IF IsInt64(max) THEN above ELSE FALSE
          [] OTHER -> IF IsUint64(max) THEN above ELSE TRUE

\* -i is taken in the width of the integer; the quotient of two doubles is exact.
NotMultipleOf(s, n) ==
    LET m == s.multipleOf[1]
        i == n.twice \div 2
        magnitude == (IF i >= 0 THEN i ELSE -i) % 2 ^ Width
    IN  IF n.rep = "int" /\ m.rep = "int" THEN magnitude % (m.twice \div 2) # 0
        ELSE (IF n.twice >= 0 THEN n.twice ELSE -n.twice) % m.twice # 0

NumberFault(s, n) ==
    CASE s.type \cap (IF n.rep = "double" THEN {"number"} ELSE {"integer", "number"}) = {}
           -> "type"
      [] s.minimum # <<>> /\ BelowMinimum(s, n) -> "minimum"
      [] s.maximum # <<>> /\ AboveMaximum(s, n) -> "maximum"
      [] s.multipleOf # <<>> /\ NotMultipleOf(s, n) -> "multipleOf"
      [] OTHER -> "none"

StringFault(s, text) ==
    CASE "string" \notin s.type -> "type"
      [] CodePoints(text) < s.minLength -> "minLength"
      [] CodePoints(text) > s.maxLength -> "maxLength"
      [] s.pattern # <<>> /\ ~Matches(s.pattern[1], text) -> "pattern"
      [] OTHER -> "none"

\* Before a value is entered: its type, and what a scalar's own value decides.
Fault(s, v) == CASE v.type = "number" -> NumberFault(s, v)
                 [] v.type = "string" -> StringFault(s, v.text)
                 [] OTHER -> IF v.type \in s.type THEN "none" ELSE "type"
=============================================================================
