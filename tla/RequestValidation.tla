------------------------- MODULE RequestValidation -------------------------
(***************************************************************************)
(* The entry points of OASValidatorImp and the parameter loops of          *)
(* ValidatorsStore: method, route, then the stages the entry point asks    *)
(* for, each over the parameters the operation declares, up to the first   *)
(* error, which goes into the caller's error_msg.                          *)
(*                                                                         *)
(* Routing is what RouteSpec promises and a validator's verdict what       *)
(* AtomicJsonValidator promises, so a request is known by the outcome of   *)
(* each part of it.                                                        *)
(***************************************************************************)
EXTENDS Naturals, Sequences, FiniteSets

CONSTANTS Stores,   \* the ValidatorsStores of a document
          Requests  \* what requests to them amount to

(* A store declares a body or not, the path and query parameters in the    *)
(* order of their vectors, the header parameters, which an unordered_map   *)
(* holds, and says which query and header parameters are required.  A      *)
(* request gives the outcome of its method and route, and for each part    *)
(* "good", "bad" (deserialised or validated with an error), "absent" or,   *)
(* of a query parameter, "misplaced": found, but not after '?' or '&'.     *)
ASSUME RequestsAssumption ==
    /\ \A s \in Stores : /\ s.path \in Seq(STRING) /\ s.query \in Seq(STRING)
                        /\ IsFiniteSet(s.header)
    /\ \A r \in Requests :
         /\ r.store \in Stores
         /\ r.method \in {"good", "bad"}
         /\ r.route \in {"own", "mapped", "none"}

VARIABLES pc,        \* the stage the call is at
          entry,     \* the entry point called
          req,       \* the request
          todo,      \* the stages the entry point has still to run
          i,         \* the place in the vector a loop is at
          found,     \* start_map: the query parameters found
          left,      \* the header parameters not yet looked at
          err,       \* err_code
          error_msg  \* the caller's string, as the messages it consists of

locals == <<todo, i, found, left>>
vars == <<pc, entry, req, locals, err, error_msg>>

\* The stages after method and route, in the order of the calls.
Stages == [ValidateRoute      |-> <<>>,
           ValidateBody       |-> <<"body">>,
           ValidatePathParam  |-> <<"path">>,
           ValidateQueryParam |-> <<"query">>,
           ValidateHeaders    |-> <<"header">>,
           ValidateRequest            |-> <<"path", "query">>,
           ValidateRequestBody        |-> <<"body", "path", "query">>,
           ValidateRequestHeaders     |-> <<"path", "query", "header">>,
           ValidateRequestBodyHeaders |-> <<"body", "path", "query", "header">>]

Message(code, about) == [code |-> code, about |-> about]

\* What an earlier call may have left in the string the caller passes.
OldMessage == Message("OLD", "")

NoStore   == [body |-> FALSE, path |-> <<>>, query |-> <<>>, header |-> {}, required |-> {}]
NoRequest == [method |-> "bad", route |-> "none", store |-> NoStore]

Init == /\ pc = "idle"
        /\ entry = "ValidateRoute"
        /\ req = NoRequest
        /\ todo = <<>> /\ i = 1 /\ found = {} /\ left = {}
        /\ err = "NONE"
        /\ error_msg = <<>>

Call(e, r, string) ==
    /\ pc' = "method"
    /\ entry' = e
    /\ req' = r
    /\ todo' = Stages[e]
    /\ error_msg' = string
    /\ UNCHANGED <<i, found, left, err>>

-----------------------------------------------------------------------------
\* CHECK_ERROR: the call returns with the first error.
Fail(code, about) == /\ pc' = "done"
                     /\ err' = code
                     /\ error_msg' = <<Message(code, about)>>

Store == req.store

\* The next stage the entry point calls, or its return.
NextStage ==
    /\ IF todo = <<>>
       THEN pc' = "done" /\ UNCHANGED todo
       ELSE pc' = Head(todo) /\ todo' = Tail(todo)
    /\ i' = 1
    /\ found' = {}
    /\ left' = Store.header

MethodGood ==
    /\ pc = "method"
    /\ req.method = "good"
    /\ pc' = "route"
    /\ UNCHANGED <<entry, req, locals, err, error_msg>>

\* MethodValidator appends its message to the string.
MethodBad ==
    /\ pc = "method"
    /\ req.method = "bad"
    /\ pc' = "done"
    /\ err' = "INVALID_METHOD"
    /\ error_msg' = Append(error_msg, Message("INVALID_METHOD", "method"))
    /\ UNCHANGED <<entry, req, locals>>

RouteOwn ==
    /\ pc = "route"
    /\ req.route = "own"
    /\ NextStage
    /\ UNCHANGED <<entry, req, err, error_msg>>

\* The attempt with the request's own method writes its message even when
\* a mapped method is found later.
RouteNotOwn ==
    /\ pc = "route"
    /\ req.route # "own"
    /\ pc' = "mapped"
    /\ error_msg' = <<Message("INVALID_ROUTE", "route")>>
    /\ UNCHANGED <<entry, req, locals, err>>

RouteMapped ==
    /\ pc = "mapped"
    /\ req.route = "mapped"
    /\ NextStage
    /\ UNCHANGED <<entry, req, err, error_msg>>

RouteNone ==
    /\ pc = "mapped"
    /\ req.route = "none"
    /\ Fail("INVALID_ROUTE", "route")
    /\ UNCHANGED <<entry, req, locals>>

-----------------------------------------------------------------------------
BodyGood ==
    /\ pc = "body"
    /\ ~Store.body \/ req.body = "good"
    /\ NextStage
    /\ UNCHANGED <<entry, req, err, error_msg>>

BodyBad ==
    /\ pc = "body"
    /\ Store.body
    /\ req.body = "bad"
    /\ Fail("INVALID_BODY", "body")
    /\ UNCHANGED <<entry, req, locals>>

-----------------------------------------------------------------------------
(* ValidatePathParams: a parameter whose index Search did not record is    *)
(* missing, required or not.                                               *)

AtPath == pc = "path" /\ i <= Len(Store.path)

\* Mutant: the loop does not advance.
PathGoodAgain ==
    /\ AtPath
    /\ req.path[Store.path[i]] = "good"
    /\ UNCHANGED vars

PathGood ==
    /\ AtPath
    /\ req.path[Store.path[i]] = "good"
    /\ i' = i + 1
    /\ UNCHANGED <<pc, entry, req, todo, found, left, err, error_msg>>

PathBad ==
    /\ AtPath
    /\ req.path[Store.path[i]] # "good"
    /\ Fail("INVALID_PATH_PARAM", Store.path[i])
    /\ UNCHANGED <<entry, req, locals>>

PathDone ==
    /\ pc = "path"
    /\ i > Len(Store.path)
    /\ NextStage
    /\ UNCHANGED <<entry, req, err, error_msg>>

-----------------------------------------------------------------------------
(* ValidateQueryParams: every parameter is looked for before the value of  *)
(* any is validated.                                                       *)

AtQuery == pc = "query" /\ i <= Len(Store.query)
name == Store.query[i]

QueryFound ==
    /\ AtQuery
    /\ req.query[name] \in {"good", "bad"}
    /\ found' = found \cup {name}
    /\ i' = i + 1
    /\ UNCHANGED <<pc, entry, req, todo, left, err, error_msg>>

\* Mutant: whether the parameter is required is not asked.
QueryOmittedAnyway ==
    /\ AtQuery
    /\ req.query[name] = "absent"
    /\ i' = i + 1
    /\ UNCHANGED <<pc, entry, req, todo, found, left, err, error_msg>>

QueryOmitted ==
    /\ AtQuery
    /\ req.query[name] = "absent"
    /\ name \notin Store.required
    /\ i' = i + 1
    /\ UNCHANGED <<pc, entry, req, todo, found, left, err, error_msg>>

QueryNotFound ==
    /\ AtQuery
    /\ \/ req.query[name] = "misplaced"
       \/ req.query[name] = "absent" /\ name \in Store.required
    /\ Fail("INVALID_QUERY_PARAM", name)
    /\ UNCHANGED <<entry, req, locals>>

\* Mutant: values are validated before the last parameter is looked for.
QueriesFoundEarly ==
    /\ pc = "query"
    /\ i >= Len(Store.query)
    /\ pc' = "values"
    /\ i' = 1
    /\ UNCHANGED <<entry, req, todo, found, left, err, error_msg>>

QueriesFound ==
    /\ pc = "query"
    /\ i > Len(Store.query)
    /\ pc' = "values"
    /\ i' = 1
    /\ UNCHANGED <<entry, req, todo, found, left, err, error_msg>>

AtValue == pc = "values" /\ i <= Len(Store.query)

\* A parameter the first loop did not find is optional, and is skipped.
ValueGood ==
    /\ AtValue
    /\ name \in found => req.query[name] = "good"
    /\ i' = i + 1
    /\ UNCHANGED <<pc, entry, req, todo, found, left, err, error_msg>>

ValueBad ==
    /\ AtValue
    /\ name \in found
    /\ req.query[name] = "bad"
    /\ Fail("INVALID_QUERY_PARAM", name)
    /\ UNCHANGED <<entry, req, locals>>

ValuesDone ==
    /\ pc = "values"
    /\ i > Len(Store.query)
    /\ NextStage
    /\ UNCHANGED <<entry, req, err, error_msg>>

-----------------------------------------------------------------------------
(* ValidateHeaderParams: in the order of an unordered_map.                 *)

HeaderRefused(h) == \/ req.header[h] = "bad"
                    \/ req.header[h] = "absent" /\ h \in Store.required

HeaderGood(h) ==
    /\ pc = "header"
    /\ h \in left
    /\ ~HeaderRefused(h)
    /\ left' = left \ {h}
    /\ UNCHANGED <<pc, entry, req, todo, i, found, err, error_msg>>

HeaderBad(h) ==
    /\ pc = "header"
    /\ h \in left
    /\ HeaderRefused(h)
    /\ Fail("INVALID_HEADER_PARAM", h)
    /\ UNCHANGED <<entry, req, locals>>

HeadersDone ==
    /\ pc = "header"
    /\ left = {}
    /\ NextStage
    /\ UNCHANGED <<entry, req, err, error_msg>>

Return ==
    /\ pc = "done"
    /\ pc' = "idle"
    /\ entry' = "ValidateRoute" /\ req' = NoRequest
    /\ todo' = <<>> /\ i' = 1 /\ found' = {} /\ left' = {}
    /\ err' = "NONE" /\ error_msg' = <<>>

-----------------------------------------------------------------------------
GetValidators == MethodGood \/ MethodBad \/ RouteOwn \/ RouteNotOwn \/ RouteMapped \/ RouteNone
ValidateBody == BodyGood \/ BodyBad
ValidatePathParams == PathGood \/ PathBad \/ PathDone
ValidateQueryParams == \/ QueryFound \/ QueryOmitted \/ QueryNotFound \/ QueriesFound
                       \/ ValueGood \/ ValueBad \/ ValuesDone
ValidateHeaderParams == HeadersDone \/ \E h \in left : HeaderGood(h) \/ HeaderBad(h)

Work == \/ GetValidators \/ ValidateBody \/ ValidatePathParams
        \/ ValidateQueryParams \/ ValidateHeaderParams

Next == \/ Work
        \/ Return
        \/ /\ pc = "idle"
           /\ \E e \in DOMAIN Stages, r \in Requests, string \in {<<>>, <<OldMessage>>} :
                Call(e, r, string)

Spec == Init /\ [][Next]_vars /\ WF_vars(Work)

-----------------------------------------------------------------------------
TypeOK ==
    /\ pc \in {"idle", "method", "route", "mapped", "body", "path", "query",
               "values", "header", "done"}
    /\ entry \in DOMAIN Stages
    /\ Store = NoStore \/ Store \in Stores
    /\ \A k \in 1..Len(todo) : todo[k] \in {"body", "path", "query", "header"}
    /\ i \in 1..(Len(IF pc = "path" THEN Store.path
                    ELSE IF pc \in {"query", "values"} THEN Store.query
                    ELSE Store.path \o Store.query) + 1)
    /\ found \subseteq {Store.query[k] : k \in 1..Len(Store.query)}
    /\ left \subseteq Store.header
    /\ err \in {"NONE", "INVALID_METHOD", "INVALID_ROUTE", "INVALID_BODY", "INVALID_PATH_PARAM",
                "INVALID_QUERY_PARAM", "INVALID_HEADER_PARAM"}

(* What a request may be refused for, stage by stage, without reference to *)
(* the loops.                                                              *)
FirstOf(seq, S) ==
    { seq[k] : k \in {n \in 1..Len(seq) : seq[n] \in S /\ \A m \in 1..(n - 1) : seq[m] \notin S} }

Names(seq) == { seq[k] : k \in 1..Len(seq) }

Culprits(r, stage) ==
    LET s == r.store
        unlocated == { q \in Names(s.query) : \/ r.query[q] = "misplaced"
                                              \/ r.query[q] = "absent" /\ q \in s.required }
    IN CASE stage = "body"   -> IF s.body /\ r.body = "bad" THEN {"body"} ELSE {}
         [] stage = "path"   -> FirstOf(s.path, {p \in Names(s.path) : r.path[p] # "good"})
         [] stage = "query"  -> IF unlocated # {}
                                THEN FirstOf(s.query, unlocated)
                                ELSE FirstOf(s.query, {q \in Names(s.query) : r.query[q] = "bad"})
         [] stage = "header" -> { h \in s.header : \/ r.header[h] = "bad"
                                                   \/ r.header[h] = "absent" /\ h \in s.required }

Code == [body |-> "INVALID_BODY", path |-> "INVALID_PATH_PARAM",
         query |-> "INVALID_QUERY_PARAM", header |-> "INVALID_HEADER_PARAM"]

\* The order of the stages in the documentation (README.md:48-56).
Documented == <<"body", "path", "query", "header">>

\* The first stage of an entry point that a request fails.
FailingStage(e, r) ==
    FirstOf(Documented, {stage \in Names(Stages[e]) : Culprits(r, stage) # {}})

Verdicts(e, r) ==
    IF r.method = "bad" THEN { Message("INVALID_METHOD", "method") }
    ELSE IF r.route = "none" THEN { Message("INVALID_ROUTE", "route") }
    ELSE UNION { { Message(Code[stage], c) : c \in Culprits(r, stage) } :
                 stage \in FailingStage(e, r) }

(* A call returns the first error in the documented order of the stages it *)
(* runs, and the string holds the message about it, after the one it held  *)
(* before the call when the method is invalid (+=).  The call returns no   *)
(* error exactly when none of its stages finds one, and then it has left   *)
(* the string alone, or a mapped method's route error in it                *)
(* (oas_validator_imp.cpp:30-161, 228, validators_store.cpp:39-118).       *)
ReportsFirstError ==
    pc = "done" =>
        IF Verdicts(entry, req) = {}
        THEN /\ err = "NONE"
             /\ error_msg \in IF req.route = "own"
                             THEN { <<>>, <<OldMessage>> }
                             ELSE { <<Message("INVALID_ROUTE", "route")>> }
        ELSE /\ error_msg[Len(error_msg)] \in Verdicts(entry, req)
             /\ err = error_msg[Len(error_msg)].code
             /\ \/ Len(error_msg) = 1
                \/ Len(error_msg) = 2 /\ error_msg[1] = OldMessage /\ err = "INVALID_METHOD"

(* A stage is reached only by a request that the stages before it accept,  *)
(* and the value of a query parameter is deserialised only after every     *)
(* query parameter was looked for and the ones at hand were found:         *)
(* README.md:43 "lazy deserialization, only processing content when all    *)
(* prior checks pass" (the CHECK_ERROR chains, validators_store.cpp:67-84). *)
ContentIsLazy ==
    LET at == IF pc = "values" THEN "query" ELSE pc
        place(stage) == CHOOSE k \in 1..Len(Documented) : Documented[k] = stage
    IN  at \in Names(Documented) =>
            /\ req.method = "good" /\ req.route # "none"
            /\ \A stage \in Names(Stages[entry]) :
                 place(stage) < place(at) => Culprits(req, stage) = {}
            /\ pc = "values" =>
                 found = { q \in Names(Store.query) :
                             q \in Store.required \/ req.query[q] # "absent" }

(* Every loop ends and every call returns.                                 *)
CallReturns == pc = "method" ~> pc = "done"

(* oas_validator.hpp:114 "populated with a JSON string in case of a       *)
(* validation error": the string of a call that fails is one JSON          *)
(* document (method_validator.cpp:17).                                     *)
ErrorIsOneDocument ==
    pc = "done" /\ err # "NONE" => Len(error_msg) = 1

(* oas_validator.hpp:106 "the error message will be stored in case of a    *)
(* validation error": a call that finds none leaves no error message       *)
(* (oas_validator_imp.cpp:179-189, 228-235).                               *)
NoMessageWithoutError ==
    pc = "done" /\ err = "NONE" => error_msg \in { <<>>, <<OldMessage>> }

(* README.md:40 "if you validate a later stage, preceding steps are        *)
(* validated as well": a call that passes the query stage has passed the   *)
(* path stage of the same request (oas_validator_imp.cpp:60-82).           *)
LaterStageImpliesEarlier ==
    pc = "done" /\ err = "NONE" /\ "query" \in Names(Stages[entry]) =>
        Culprits(req, "path") = {}

(* oas_validator.hpp:172 "in the sequence provided in the OpenAPI spec":   *)
(* the query parameter reported is the first one at fault                  *)
(* (validators_store.cpp:67-98).                                           *)
QueryErrorsInSequence ==
    pc = "done" /\ err = "INVALID_QUERY_PARAM" =>
        LET faulty == { q \in Names(Store.query) : \/ req.query[q] \in {"misplaced", "bad"}
                                                   \/ req.query[q] = "absent" /\ q \in Store.required }
        IN  error_msg[Len(error_msg)].about \in FirstOf(Store.query, faulty)

=============================================================================
