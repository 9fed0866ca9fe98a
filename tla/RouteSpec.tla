------------------------------ MODULE RouteSpec -----------------------------
(***************************************************************************)
(* What routing promises, with the trie, the lookups and the retries       *)
(* hidden: a call is answered in one step, from the paths the OpenAPI      *)
(* document declares for each method.                                      *)
(***************************************************************************)
EXTENDS RouteMatching

CONSTANTS Methods,    \* HttpMethod
          BadMethod,  \* any string that names no HttpMethod
          MethodMap,  \* method_map_: the methods a method may be treated as
          Paths,      \* the paths a document may declare
          Requests    \* the paths a client may request

VARIABLES routes,  \* routes[m]: the paths declared with method m
          serving, \* the constructor has returned
          call,    \* the call in progress, or NoCall
          answer   \* its answer, or NoAnswer

vars == <<routes, serving, call, answer>>

NoCall   == [idle |-> TRUE]
NoAnswer == [err |-> "PENDING"]

Routed(m, paths) == { [err |-> "NONE", method |-> m, path |-> p] : p \in paths }

Serving(m, request) == { p \in routes[m] : Serves(p, request) }

(* The answers a call may get.  A method that has a certain path for the   *)
(* request answers with it; otherwise a mapped method may; a route is      *)
(* refused only when neither the method nor, unless its map is misspelt,   *)
(* any method it maps to has one.                                          *)
KnownAnswers(m, request) ==
    LET own == Certain(routes[m], request)
        mapped == MethodMap[m] \ {BadMethod}
    IN  IF own # {}
        THEN Routed(m, own)
        ELSE (UNION { Routed(mm, Serving(mm, request)) : mm \in {m} \cup mapped })
             \cup { a \in { [err |-> "INVALID_ROUTE"] } :
                      \/ BadMethod \in MethodMap[m]
                      \/ \A mm \in mapped : Certain(routes[mm], request) = {} }

Answers(c) == IF c.method = BadMethod THEN { [err |-> "INVALID_METHOD"] }
                                      ELSE KnownAnswers(c.method, c.request)

-----------------------------------------------------------------------------
Init == /\ routes = [m \in Methods |-> {}]
        /\ serving = FALSE
        /\ call = NoCall
        /\ answer = NoAnswer

Declare == /\ ~serving
           /\ \E p \in Paths, ms \in SUBSET Methods :
                routes' = [m \in Methods |-> IF m \in ms THEN routes[m] \cup {p} ELSE routes[m]]
           /\ UNCHANGED <<serving, call, answer>>

Serve == /\ ~serving
         /\ serving' = TRUE
         /\ UNCHANGED <<routes, call, answer>>

Call == /\ serving
        /\ call = NoCall
        /\ \E m \in Methods \cup {BadMethod}, r \in Requests :
             call' = [method |-> m, request |-> r]
        /\ UNCHANGED <<routes, serving, answer>>

Answer == /\ call # NoCall
          /\ answer = NoAnswer
          /\ answer' \in Answers(call)
          /\ UNCHANGED <<routes, serving, call>>

Return == /\ answer # NoAnswer
          /\ call' = NoCall
          /\ answer' = NoAnswer
          /\ UNCHANGED <<routes, serving>>

Next == Declare \/ Serve \/ Call \/ Answer \/ Return

Spec == Init /\ [][Next]_vars /\ WF_vars(Answer)
=============================================================================
