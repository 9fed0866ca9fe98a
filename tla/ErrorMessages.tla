---------------------------- MODULE ErrorMessages ---------------------------
(***************************************************************************)
(* JsonValidator's error message: CreateErrorMessages and HandleError lay  *)
(* the errors of the schema validator out as JSON text. The text is a      *)
(* sequence of tokens; "detail" stands for the members code, description,  *)
(* instance and schema, which are written as one piece.                    *)
(***************************************************************************)
EXTENDS CheckedSchemas

CONSTANT Quoted \* the texts with a character that JSON wants escaped

-----------------------------------------------------------------------------
\* The members whose value is put into the description as it is.
Inserts(keyword, error) ==
    IF keyword \in {"minLength", "maxLength", "pattern"}
    THEN {Reference!ValueAt(doc, error.instance).text} ELSE {}

Detail(keyword, error) ==
    IF Inserts(keyword, error) \cap Quoted # {} THEN "unescaped" ELSE "detail"

RECURSIVE CreateErrorMessages(_, _, _)

\* Mutant: no comma between the errors of a list.
HandleErrorRunOn(keyword, error, context, recursive) ==
    LET Child(i) == CreateErrorMessages(error.children[i], <<keyword>>, TRUE)
        list == FlattenSeq([i \in DOMAIN error.children |-> Child(i)])
    IN  (IF recursive THEN <<"{">> ELSE <<>>)
          \o <<Detail(keyword, error)>>
          \o (IF context # <<>> THEN <<",", "context">> ELSE <<>>)
          \o (IF error.children = <<>> THEN <<>>
              ELSE <<",", "errors", "[">> \o list \o <<"]">>)
          \o (IF recursive THEN <<"}">> ELSE <<>>)

\* A comma after each child, the last of which is taken back.
HandleError(keyword, error, context, recursive) ==
    LET Child(i) == Append(CreateErrorMessages(error.children[i], <<keyword>>, TRUE), ",")
        list == Front(FlattenSeq([i \in DOMAIN error.children |-> Child(i)]))
    IN  (IF recursive THEN <<"{">> ELSE <<>>)
          \o <<Detail(keyword, error)>>
          \o (IF context # <<>> THEN <<",", "context">> ELSE <<>>)
          \o (IF error.children = <<>> THEN <<>>
              ELSE <<",", "errors", "[">> \o list \o <<"]">>)
          \o (IF recursive THEN <<"}">> ELSE <<>>)

CreateErrorMessages(errors, context, recursive) ==
    FlattenSeq([i \in DOMAIN errors |->
        FlattenSeq([j \in DOMAIN errors[i].errors |->
            HandleError(errors[i].keyword, errors[i].errors[j], context, recursive)])])

\* err_header_ ends in a member of "details"; Validate closes both objects.
Message == <<"{">> \o CreateErrorMessages(validator.errors, <<>>, FALSE) \o <<"}">>

-----------------------------------------------------------------------------
(* JSON: a stack of what may follow. "member" wants a member, "more" a     *)
(* comma or the end of an object, "item?" an element or the end of an      *)
(* array, "item" an element, "next" a comma or the end of an array.        *)

To(stack, what) == Append(Front(stack), what)

Read(stack, token) ==
    LET at == Last(stack)
    IN  CASE at \in {"value", "item?", "item"} /\ token = "{" ->
               Append(To(stack, IF at = "value" THEN "end" ELSE "next"), "member")
          [] at = "member" /\ token \in {"detail", "context"} -> To(stack, "more")
          [] at = "member" /\ token = "errors" -> To(stack, "array")
          [] at = "array" /\ token = "[" -> Append(To(stack, "more"), "item?")
          [] at = "more" /\ token = "," -> To(stack, "member")
          [] at = "more" /\ token = "}" -> Front(stack)
          [] at = "next" /\ token = "," -> To(stack, "item")
          [] at \in {"next", "item?"} /\ token = "]" -> Front(stack)
          [] OTHER -> <<"error">>

RECURSIVE ReadAll(_, _)
ReadAll(stack, tokens) ==
    IF tokens = <<>> \/ Last(stack) = "error" THEN stack
    ELSE ReadAll(Read(stack, Head(tokens)), Tail(tokens))

IsJson(tokens) == ReadAll(<<"value">>, tokens) = <<"end">>

RECURSIVE Count(_)
Count(errors) ==
    FoldLeft(LAMBDA n, o :
               FoldLeft(LAMBDA k, e : FoldLeft(LAMBDA j, c : j + Count(c), k + 1, e.children),
                        n, o.errors),
             0, errors)

\* A validator that has no error, as have the schemas of an allOf that accept, or
\* several, as has one with several patterns.
RECURSIVE IsUneven(_)
IsUneven(errors) ==
    \/ FoldLeft(LAMBDA n, o : n + Len(o.errors), 0, errors) # 1
    \/ \E i \in DOMAIN errors : \E j \in DOMAIN errors[i].errors :
         \E below \in ToSet(errors[i].errors[j].children) : IsUneven(below)

(* oas_validator.hpp:114: error_msg is populated "with a JSON string in    *)
(* case of a validation error": the details are one JSON object, in which  *)
(* each error of the validator is listed once, but for uneven errors and   *)
(* for what ought to be escaped (json_validator.cpp:39-135).               *)
MessageIsJson ==
    verdict = "INVALID" /\ ~IsUneven(validator.errors) /\ "unescaped" \notin ToSet(Message) =>
        /\ IsJson(Message)
        /\ Len(SelectSeq(Message, LAMBDA t : t = "detail")) = Count(validator.errors)

(* The same of every message: see the README on how allOf breaks it        *)
(* (json_validator.cpp:100-128).                                           *)
MessagesAreJson == verdict = "INVALID" => IsJson(Message)

(* The same of documents with strings that JSON writes with an escape      *)
(* (json_validator.cpp:96-97, 137-140).                                    *)
MessageOfAnyText == verdict = "INVALID" => "unescaped" \notin ToSet(Message)
=============================================================================
