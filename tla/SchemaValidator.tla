--------------------------- MODULE SchemaValidator --------------------------
(***************************************************************************)
(* GenericSchemaValidator: a document is fed to it event by event. It has  *)
(* a stack of contexts, one for each value that is open, and a context has *)
(* validators of its own for the subschemas its value must be held against *)
(* as a whole, which are fed the same events. JsonValidator keeps one and  *)
(* resets it after each document.                                          *)
(***************************************************************************)
EXTENDS JsonSchema

CONSTANTS Schemas,   \* the schemas an instance is built for
          Documents  \* Documents(schema): what it is fed

VARIABLES schema, doc,
          pos,        \* events fed
          validator,
          verdict
vars == <<schema, doc, pos, validator, verdict>>

-----------------------------------------------------------------------------
(* Contexts and validators.                                                *)

NewContext(s) ==
    [schema |-> s, valueSchema |-> <<>>,
     hashing |-> FALSE, codes |-> <<>>,        \* the hasher of the value
     elements |-> <<>>,                        \* codes of an array's elements
     validators |-> <<>>,
     patternValidators |-> <<>>, otherPattern |-> "only",
     patternSchemas |-> <<>>, valuePattern |-> "only",
     exist |-> {}, inArray |-> FALSE, index |-> 0,
     valueUniqueness |-> FALSE, arrayUniqueness |-> FALSE]

\* The constructor; a parallel validator starts at the path of its parent.
NewValidator(root, path) ==
    [root |-> root, stack |-> <<>>, path |-> path, errors |-> <<>>, valid |-> TRUE]

Top(v) == Last(v.stack)
WithTop(v, context) == [v EXCEPT !.stack = [@ EXCEPT ![Len(@)] = context]]
PopToken(path) == IF path = <<>> THEN <<>> ELSE Front(path)

-----------------------------------------------------------------------------
(* Errors: a list of keywords, each with the errors reported under it.     *)

AddError(errors, keyword, error) ==
    IF \E i \in DOMAIN errors : errors[i].keyword = keyword
    THEN [i \in DOMAIN errors |-> IF errors[i].keyword = keyword
                                  THEN [errors[i] EXCEPT !.errors = Append(@, error)]
                                  ELSE errors[i]]
    ELSE Append(errors, [keyword |-> keyword, errors |-> <<error>>])

MergeError(errors, others) ==
    FoldLeft(LAMBDA es, o : FoldLeft(LAMBDA fs, e : AddError(fs, o.keyword, e), es, o.errors),
             errors, others)

\* "children" is the array or the object of errors below this one.
Error(v, parent, children) ==
    [instance |-> IF parent THEN PopToken(v.path) ELSE v.path,
     schema |-> Top(v).schema.pointer, children |-> children]

\* AddCurrentError, and the handler's return with valid_ cleared.
RejectedWith(v, keyword, parent, children) ==
    [v EXCEPT !.valid = FALSE, !.errors = AddError(@, keyword, Error(v, parent, children))]
Rejected(v, keyword) == RejectedWith(v, keyword, FALSE, <<>>)

ErrorsOf(validators) == [i \in DOMAIN validators |-> validators[i].errors]
Slice(c, range) == SubSeq(c.validators, range.begin + 1, range.begin + range.count)
AllValid(validators) == \A i \in DOMAIN validators : validators[i].valid

-----------------------------------------------------------------------------
(* The begin of a value.                                                   *)

\* Schema::BeginValue: which schema the element of an array has.
ElementSchema(s, index) ==
    CASE s.itemsList # <<>> -> s.itemsList
      [] s.hasTuple /\ index < Len(s.itemsTuple) -> <<s.itemsTuple[index + 1]>>
      [] s.hasTuple /\ s.additionalItemsSchema # <<>> -> s.additionalItemsSchema
      [] s.hasTuple /\ ~s.additionalItems -> <<>>
      [] OTHER -> <<Typeless>>

Entered(v, c, s) ==
    LET pushed == [NewContext(s) EXCEPT
                     !.arrayUniqueness = c.valueUniqueness,
                     !.otherPattern = IF c.patternSchemas # <<>> THEN c.valuePattern ELSE "only",
                     !.patternValidators = [i \in DOMAIN c.patternSchemas |->
                                              NewValidator(c.patternSchemas[i], v.path)]]
    IN  [WithTop(v, c) EXCEPT !.stack = Append(@, pushed)]

BeginValue(v) ==
    IF v.stack = <<>> THEN [v EXCEPT !.stack = <<NewContext(v.root)>>]
    ELSE IF ~Top(v).inArray THEN Entered(v, Top(v), Top(v).valueSchema[1])
    ELSE LET c == Top(v)
             element == ElementSchema(c.schema, c.index)
             w == [v EXCEPT !.path = Append(@, ToString(c.index))]
         IN  IF element = <<>> THEN RejectedWith(w, "additionalItems", TRUE, <<>>)
             ELSE Entered(w, [c EXCEPT !.valueUniqueness = @ \/ c.schema.uniqueItems,
                                       !.index = @ + 1], element[1])

\* Mutant: the validators below start without the path of the value.
WithParallelAtRoot(v) ==
    LET s == Top(v).schema
    IN  WithTop(v, [Top(v) EXCEPT
            !.hashing = s.enum # {} \/ Top(v).arrayUniqueness,
            !.validators = [i \in DOMAIN s.validators |-> NewValidator(s.validators[i], <<>>)]])

\* CreateParallelValidator
WithParallel(v) ==
    LET s == Top(v).schema
    IN  WithTop(v, [Top(v) EXCEPT
            !.hashing = s.enum # {} \/ Top(v).arrayUniqueness,
            !.validators = [i \in DOMAIN s.validators |-> NewValidator(s.validators[i], v.path)]])

\* The handlers of scalars, StartObject and StartArray, up to the parallel ones.
Begun(v, value) ==
    LET w == BeginValue(v)
        entered == IF value.type = "array" THEN WithTop(w, [Top(w) EXCEPT !.inArray = TRUE]) ELSE w
        fault == Fault(Top(w).schema, value)
    IN  CASE ~w.valid -> w
          [] fault # "none" -> Rejected(entered, fault)
          [] OTHER -> WithParallel(entered)

-----------------------------------------------------------------------------
(* The end of a value.                                                     *)

\* With an additional property it is enough that one side is valid.
PatternsHold(c) ==
    LET n == Len(c.patternValidators)
        others == IF c.otherPattern = "only" THEN <<>> ELSE <<c.patternValidators[n]>>
        patterns == SubSeq(c.patternValidators, 1, n - Len(others))
    IN  IF c.otherPattern = "additional" THEN AllValid(patterns) \/ AllValid(others)
        ELSE AllValid(patterns) /\ AllValid(others)

\* Schema::EndValue
Ended(v) ==
    LET c == Top(v)
        s == c.schema
        allOf == Slice(c, s.allOf)
        anyOf == Slice(c, s.anyOf)
        oneOf == Slice(c, s.oneOf)
        matches == Cardinality({ i \in DOMAIN oneOf : oneOf[i].valid })
    IN  CASE ~PatternsHold(c) ->
               [v EXCEPT !.valid = FALSE,
                         !.errors = FoldLeft(MergeError, @, ErrorsOf(c.patternValidators))]
          [] s.enum # {} /\ c.hashing /\ c.codes[1] \notin s.enum -> Rejected(v, "enum")
          [] ~AllValid(allOf) -> RejectedWith(v, "allOf", FALSE, ErrorsOf(allOf))
          [] anyOf # <<>> /\ ~\E i \in DOMAIN anyOf : anyOf[i].valid ->
               RejectedWith(v, "anyOf", FALSE, ErrorsOf(anyOf))
          [] matches > 1 -> Rejected(v, "oneOf")
          [] oneOf # <<>> /\ matches = 0 -> RejectedWith(v, "oneOf", FALSE, ErrorsOf(oneOf))
          [] s.not.count > 0 /\ AllValid(Slice(c, s.not)) -> Rejected(v, "not")
          [] OTHER -> v

EndValue(v) ==
    LET w == Ended(v)
        code == Top(w).codes
        popped == [w EXCEPT !.stack = Front(@)]
        c == Top(popped)
        unique == c.valueUniqueness /\ Top(w).hashing
    IN  CASE ~w.valid -> w
          [] popped.stack = <<>> \/ ~unique -> [popped EXCEPT !.path = PopToken(@)]
          [] code[1] \in ToSet(c.elements) -> RejectedWith(popped, "uniqueItems", TRUE, <<>>)
          [] OTHER -> [WithTop(popped, [c EXCEPT !.elements = @ \o code])
                         EXCEPT !.path = PopToken(@)]

-----------------------------------------------------------------------------
(* Members of an object.                                                   *)

\* Schema::Key
KeyKnown(v, key) ==
    LET c == Top(v)
        s == c.schema
        patterns == SetToSeq({ p \in DOMAIN s.patternProperties : Matches(p, key) })
        schemas == [i \in DOMAIN patterns |-> s.patternProperties[patterns[i]]]
        \* an own schema, which joins those of the patterns if there are any
        Known(d, own, as) ==
            WithTop(v, IF patterns = <<>>
                       THEN [d EXCEPT !.patternSchemas = <<>>, !.valueSchema = <<own>>]
                       ELSE [d EXCEPT !.patternSchemas = Append(schemas, own),
                                      !.valueSchema = <<Typeless>>, !.valuePattern = as])
        Open == WithTop(v, [c EXCEPT !.patternSchemas = schemas, !.valueSchema = <<Typeless>>])
    IN  CASE key \in DOMAIN s.properties ->
               Known(IF s.hasRequired \/ s.hasDependencies THEN [c EXCEPT !.exist = @ \cup {key}]
                     ELSE c,
                     SchemaOf(s.properties[key]), "property")
          [] s.additionalPropertiesSchema # <<>> ->
               Known(c, s.additionalPropertiesSchema[1], "additional")
          [] s.additionalProperties \/ patterns # <<>> -> Open
          [] OTHER -> RejectedWith(v, "additionalProperties", TRUE, <<>>)

\* What dependencies miss, as the errors reported below this one.
DependencyErrors(v) ==
    LET c == Top(v)
        s == c.schema
        Missing(n) == s.properties[n].dependencies \ c.exist
        Children(n) ==
            IF s.properties[n].dependencies # {}
            THEN IF Missing(n) = {} THEN <<>>
                 ELSE << <<[keyword |-> "required",
                            errors |-> <<[Error(v, FALSE, <<>>) EXCEPT
                                            !.schema = @ \o <<"dependencies", n>>]>>]>> >>
            ELSE LET vs == { c.validators[i] : i \in s.properties[n].validator }
                 IN  IF \A w \in vs : w.valid THEN <<>> ELSE << (CHOOSE w \in vs : TRUE).errors >>
    IN  FoldLeft(LAMBDA es, n : es \o Children(n), <<>>, SetToSeq(c.exist))

\* Schema::EndObject
ObjectClosed(v, count) ==
    LET c == Top(v)
        s == c.schema
        missing == { n \in DOMAIN s.properties \ c.exist :
                       s.properties[n].required /\ SchemaOf(s.properties[n]).defaultLength = 0 }
    IN  CASE missing # {} -> Rejected(v, "required")
          [] count < s.minProperties -> Rejected(v, "minProperties")
          [] count > s.maxProperties -> Rejected(v, "maxProperties")
          [] s.hasDependencies /\ DependencyErrors(v) # <<>> ->
               RejectedWith(v, "dependencies", FALSE, DependencyErrors(v))
          [] OTHER -> v

\* Schema::EndArray
ArrayClosed(v, count) ==
    LET w == WithTop(v, [Top(v) EXCEPT !.inArray = FALSE])
        s == Top(v).schema
    IN  CASE count < s.minItems -> Rejected(w, "minItems")
          [] count > s.maxItems -> Rejected(w, "maxItems")
          [] OTHER -> w

-----------------------------------------------------------------------------
(* An event handler: what precedes the parallel handlers, these, and what  *)
(* follows them. Once invalid a validator takes no more events.            *)

RECURSIVE Handled(_, _)

Parallel(v, e) ==
    LET Fed(validators) == [i \in DOMAIN validators |-> Handled(validators[i], e)]
    IN  [v EXCEPT !.stack = [i \in DOMAIN @ |->
            [@[i] EXCEPT !.codes = IF v.stack[i].hashing THEN Hashed(@, e) ELSE @,
                         !.validators = Fed(@), !.patternValidators = Fed(@)]]]

\* Mutant: the own checks of an object's end before those of the validators below it.
HandledEndFirst(v, e) ==
    LET before == CASE e.on \in {"Value", "StartObject", "StartArray"} -> Begun(v, e.of)
                    [] e.on = "Key" -> KeyKnown([v EXCEPT !.path = Append(@, e.of)], e.of)
                    [] e.on = "EndObject" -> ObjectClosed(v, e.of)
                    [] OTHER -> v
        fed == Parallel(before, e)
        closed == CASE e.on = "EndArray" -> ArrayClosed(fed, e.of)
                    [] OTHER -> fed
    IN  CASE ~v.valid -> v
          [] ~before.valid -> before
          [] ~closed.valid \/ e.on \in {"StartObject", "StartArray", "Key"} -> closed
          [] OTHER -> EndValue(closed)

Handled(v, e) ==
    LET before == CASE e.on \in {"Value", "StartObject", "StartArray"} -> Begun(v, e.of)
                    [] e.on = "Key" -> KeyKnown([v EXCEPT !.path = Append(@, e.of)], e.of)
                    [] OTHER -> v
        fed == Parallel(before, e)
        closed == CASE e.on = "EndObject" -> ObjectClosed(fed, e.of)
                    [] e.on = "EndArray" -> ArrayClosed(fed, e.of)
                    [] OTHER -> fed
    IN  CASE ~v.valid -> v
          [] ~before.valid -> before
          [] ~closed.valid \/ e.on \in {"StartObject", "StartArray", "Key"} -> closed
          [] OTHER -> EndValue(closed)

-----------------------------------------------------------------------------
events == Events(doc)

Init ==
    /\ schema \in Schemas
    /\ validator = NewValidator(Compile(<<>>, schema), <<>>)
    /\ doc = Null /\ pos = 0 /\ verdict = "IDLE"

Accept ==
    /\ verdict = "IDLE"
    /\ doc' \in Documents /\ pos' = 0 /\ verdict' = "NONE"
    /\ UNCHANGED <<schema, validator>>

\* Accept returns with the first handler that does not return true.
Feed(on) ==
    /\ verdict = "NONE" /\ pos < Len(events) /\ events[pos + 1].on \in on
    /\ validator' = Handled(validator, events[pos + 1])
    /\ pos' = pos + 1
    /\ verdict' = CASE ~validator'.valid -> "INVALID"
                    [] pos' = Len(events) -> "VALID"
                    [] OTHER -> "NONE"
    /\ UNCHANGED <<schema, doc>>

Value == Feed({"Value"})
StartObject == Feed({"StartObject"})
Key == Feed({"Key"})
EndObject == Feed({"EndObject"})
StartArray == Feed({"StartArray"})
EndArray == Feed({"EndArray"})

Reset ==
    /\ verdict \in {"VALID", "INVALID"}
    /\ validator' = [validator EXCEPT !.stack = <<>>, !.path = <<>>,
                                      !.errors = <<>>, !.valid = TRUE]
    /\ verdict' = "IDLE" /\ doc' = Null /\ pos' = 0
    /\ UNCHANGED schema

Next == Accept \/ Value \/ StartObject \/ Key \/ EndObject \/ StartArray \/ EndArray \/ Reset

Spec == Init /\ [][Next]_vars
=============================================================================
