--------------------------- MODULE SchemaSemantics --------------------------
(***************************************************************************)
(* What a JSON schema says of a value, keyword by keyword, as draft 4 has  *)
(* it: the reference SchemaValidator's machine is held against. Every      *)
(* keyword is a condition of its own, and none depends on another but for  *)
(* the pairs that the draft couples.                                       *)
(***************************************************************************)
EXTENDS JsonSchema

\* The types a value has; a double is no integer, whatever its value.
TypesOf(v) == CASE v.type = "number" -> IF v.rep = "int" THEN {"integer", "number"} ELSE {"number"}
                [] OTHER -> {v.type}

Same(v, w) == HashCode(v) = HashCode(w)

RECURSIVE Holds(_, _, _)
Valid(s, v) == \A keyword \in DOMAIN s : Holds(keyword, s, v)

AllOf(schemas, v) == { i \in DOMAIN schemas : Valid(schemas[i], v) }

\* Keys that neither "properties" nor "patternProperties" speaks of.
Additional(s, v) ==
    { key \in Keys(v) \ DOMAIN Get(s, "properties", <<>>) :
        ~\E p \in DOMAIN Get(s, "patternProperties", <<>>) : Matches(p, key) }

Holds(keyword, s, v) ==
    LET is == s[keyword]
        Number(limit) == v.type = "number" => limit
        Text(limit) == v.type = "string" => limit
        Items(limit) == v.type = "array" => limit
        Members(limit) == v.type = "object" => limit
    IN  CASE keyword = "type" -> is \cap TypesOf(v) # {}
          [] keyword = "enum" -> is = {} \/ \E w \in is : Same(v, w)
          [] keyword = "allOf" -> AllOf(is, v) = DOMAIN is
          [] keyword = "anyOf" -> is = <<>> \/ AllOf(is, v) # {}
          [] keyword = "oneOf" -> is = <<>> \/ Cardinality(AllOf(is, v)) = 1
          [] keyword = "not" -> ~Valid(is, v)
          [] keyword = "minimum" ->
               Number(IF Get(s, "exclusiveMinimum", FALSE) THEN v.twice > is.twice
                      ELSE v.twice >= is.twice)
          [] keyword = "maximum" ->
               Number(IF Get(s, "exclusiveMaximum", FALSE) THEN v.twice < is.twice
                      ELSE v.twice <= is.twice)
          [] keyword = "multipleOf" ->
               Number(\E k \in -(2 ^ Width)..(2 ^ Width) : v.twice = k * is.twice)
          [] keyword = "minLength" -> Text(CodePoints(v.text) >= is)
          [] keyword = "maxLength" -> Text(CodePoints(v.text) <= is)
          [] keyword = "pattern" -> Text(Matches(is, v.text))
          [] keyword = "minItems" -> Items(Len(v.items) >= is)
          [] keyword = "maxItems" -> Items(Len(v.items) <= is)
          [] keyword = "uniqueItems" ->
               Items(is => \A i, j \in DOMAIN v.items : Same(v.items[i], v.items[j]) => i = j)
          [] keyword = "items" ->
               Items(IF Has(is, "list") THEN \A i \in DOMAIN v.items : Valid(is.list, v.items[i])
                     ELSE \A i \in DOMAIN v.items \cap DOMAIN is.tuple :
                            Valid(is.tuple[i], v.items[i]))
          [] keyword = "additionalItems" ->
               Items(\A i \in DOMAIN v.items :
                       Has(Get(s, "items", <<>>), "tuple") /\ i > Len(s.items.tuple) =>
                         IF Has(is, "schema") THEN Valid(is.schema, v.items[i]) ELSE is.allowed)
          [] keyword = "properties" ->
               Members(\A key \in DOMAIN is \cap Keys(v) : Valid(is[key], Member(v, key)))
          [] keyword = "patternProperties" ->
               Members(\A p \in DOMAIN is : \A key \in Keys(v) :
                         Matches(p, key) => Valid(is[p], Member(v, key)))
          [] keyword = "additionalProperties" ->
               Members(\A key \in Additional(s, v) :
                         IF Has(is, "schema") THEN Valid(is.schema, Member(v, key))
                         ELSE is.allowed)
          [] keyword = "required" -> Members(is \subseteq Keys(v))
          [] keyword = "minProperties" -> Members(Len(v.members) >= is)
          [] keyword = "maxProperties" -> Members(Len(v.members) <= is)
          [] keyword = "dependencies" ->
               Members(\A key \in DOMAIN is \cap Keys(v) :
                         IF Has(is[key], "schema") THEN Valid(is[key].schema, v)
                         ELSE is[key].names \subseteq Keys(v))
          [] OTHER -> TRUE

-----------------------------------------------------------------------------
(* Where a pointer leads.                                                  *)

RECURSIVE ValueAt(_, _)
ValueAt(v, path) ==
    IF path = <<>> THEN v
    ELSE ValueAt(IF v.type = "object" THEN Member(v, path[1])
                 ELSE v.items[1 + CHOOSE n \in DOMAIN v.items \cup {0} : ToString(n) = path[1]],
                 Tail(path))

RECURSIVE SchemaAt(_, _)
SchemaAt(s, path) ==
    IF path = <<>> THEN s
    ELSE LET k == path[1]
             Index == 1 + CHOOSE n \in 0..9 : ToString(n) = path[2]
         IN  CASE k = "not" -> SchemaAt(s.not, Tail(path))
               [] k \in {"allOf", "anyOf", "oneOf"} -> SchemaAt(s[k][Index], SubSeq(path, 3, Len(path)))
               [] k \in {"additionalProperties", "additionalItems"} -> SchemaAt(s[k].schema, Tail(path))
               [] k = "items" -> IF Has(s.items, "list") THEN SchemaAt(s.items.list, Tail(path))
                                 ELSE SchemaAt(s.items.tuple[Index], SubSeq(path, 3, Len(path)))
               [] k = "dependencies" ->
                    IF Has(s[k][path[2]], "schema")
                    THEN SchemaAt(s[k][path[2]].schema, SubSeq(path, 3, Len(path)))
                    ELSE [required |-> s[k][path[2]].names]
               [] OTHER -> SchemaAt(s[k][path[2]], SubSeq(path, 3, Len(path)))
=============================================================================
