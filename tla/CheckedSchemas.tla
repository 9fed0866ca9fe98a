---------------------------- MODULE CheckedSchemas --------------------------
(***************************************************************************)
(* What the verdicts and the errors of SchemaValidator are held against.   *)
(***************************************************************************)
EXTENDS SchemaValidator

Reference == INSTANCE SchemaSemantics

\* rapidjson takes a required property for given when its schema has a default.
NoDefaults == \A n \in DOMAIN Get(schema, "properties", <<>>) :
                  ~Has(schema.properties[n], "default")

(* Of a key that patterns match the code asks less where there is a schema *)
(* of additional properties too.                                           *)
PatternsAlone ==
    Has(schema, "patternProperties") =>
        ~Has(Get(schema, "additionalProperties", <<>>), "schema")

RECURSIVE WellBuilt(_)
WellBuilt(v) ==
    /\ v.valid <=> v.errors = <<>>
    /\ \A i \in DOMAIN v.stack :
         LET c == v.stack[i]
         IN  /\ \A j \in DOMAIN c.validators : WellBuilt(c.validators[j])
             /\ \A j \in DOMAIN c.patternValidators : WellBuilt(c.patternValidators[j])
             /\ c.hashing \/ c.codes = <<>>

(* The shape of the validator: it is invalid exactly if it reports errors, *)
(* so are the validators below it, a hasher holds codes only if the value  *)
(* is hashed, and between documents nothing is left of the last one        *)
(* (schema.h:2506-2533, 2800-2829, 1460-1500).                             *)
TypeOK ==
    /\ verdict \in {"IDLE", "NONE", "VALID", "INVALID"}
    /\ pos \in 0..Len(events)
    /\ WellBuilt(validator)
    /\ verdict = "IDLE" => validator = NewValidator(Compile(<<>>, schema), <<>>)

(* One pass over the events gives the verdict that the keywords give of    *)
(* the whole value, each on its own: no check is skipped, made too early,  *)
(* or made with a validator of another value, in whatever combination and  *)
(* however often the validator was used before (schema.h:867-1232,         *)
(* 2800-2892, 2981-3055).                                                  *)
VerdictIsValidity ==
    verdict \in {"VALID", "INVALID"} /\ NoDefaults /\ PatternsAlone =>
        (verdict = "VALID" <=> Reference!Valid(schema, doc))

RECURSIVE PointsAtFault(_)
PointsAtFault(errors) ==
    \A i \in DOMAIN errors : \A j \in DOMAIN errors[i].errors :
        LET e == errors[i].errors[j]
            s == Reference!SchemaAt(schema, e.schema)
        IN  /\ Has(s, errors[i].keyword)
            /\ ~Reference!Holds(errors[i].keyword, s, Reference!ValueAt(doc, e.instance))
            /\ \A k \in DOMAIN e.children : PointsAtFault(e.children[k])

(* Each error, and each below it, names a value of the document and a      *)
(* schema whose keyword that value violates: the paths of the validators   *)
(* and of those below them are kept in step with the document              *)
(* (schema.h:2900-2906, 2987, 3050-3072, 3085-3135).                       *)
ErrorsPointAtFaults == PatternsAlone => PointsAtFault(validator.errors)

(* The comment at schema.h:1147: "patternProperties are not additional     *)
(* properties".                                                            *)
PatternsAreNotAdditional ==
    verdict = "VALID" /\ Has(schema, "patternProperties") =>
        Reference!Holds("patternProperties", schema, doc)

(* README.md:15: the library validates requests "against OpenAPI 3.x       *)
(* specifications", whose schemas have the keyword nullable                *)
(* (schema.h:821-828 knows it).                                            *)
NullableTakesNull ==
    verdict = "INVALID" /\ Get(schema, "nullable", FALSE) => doc # Null
=============================================================================
