------------------------------- MODULE Router -------------------------------
(***************************************************************************)
(* Routing in OASValidatorImp: the constructor fills, per method, the map  *)
(* per_path_validators and the trie path_trie; GetValidators then answers  *)
(* calls by an exact lookup, a search of the trie and a second lookup, for *)
(* the method itself and then for the methods it is mapped to.             *)
(*                                                                         *)
(* Both structures are read-only once the constructor has returned and     *)
(* everything else a call touches is local to it, so one call at a time    *)
(* is the general case.                                                    *)
(***************************************************************************)
EXTENDS RouteMatching, FiniteSets

CONSTANTS Methods,    \* HttpMethod
          BadMethod,  \* any string that names no HttpMethod
          MethodMap,  \* method_map_, closed under the case of its keys
          Paths,      \* the keys the "paths" object of a document may have
          Requests,   \* the paths of requests, up to their '?'
          MaxPaths    \* bound on the keys of one document

ASSUME RouterAssumption ==
    /\ BadMethod \notin Methods
    /\ MethodMap \in [Methods -> SUBSET (Methods \cup {BadMethod})]
    /\ \A m \in Methods : m \notin MethodMap[m]
    /\ Paths \subseteq Seq(Labels) \ {<<>>}
    /\ Requests \subseteq Seq(Labels) \ {<<>>}
    /\ MaxPaths \in Nat

VARIABLES
    routes,     \* routes[m]: the keys of per_path_validators
    trie,       \* trie[m]: path_trie
    serving,    \* the constructor has returned
    pc,         \* where the call in progress is
    method,     \* its argument method
    request,    \* its argument http_path, up to '?'
    collect,    \* its caller passed param_idxs
    untried,    \* the methods its loop over mapped_methods has still to try
    cur,        \* the method being tried: mapped_method
    beg,        \* Search: the fragment it is at
    node,       \* Search: the node it is at
    oas_path,   \* Search: the labels it went through
    param_idxs, \* fragment index -> position in the request (a ParamRange)
    err,        \* the ValidationError
    validators  \* the key of the ValidatorsStore found, <<>> when none is

specVars == <<routes, trie, serving>>
argVars  == <<method, request, collect>>
walkVars == <<beg, node, oas_path, param_idxs>>
vars == <<specVars, pc, argVars, untried, cur, walkVars, err, validators>>

-----------------------------------------------------------------------------
Declared == UNION { routes[m] : m \in Methods }

NoIdxs == [k \in {} |-> 0]

Init ==
    /\ routes = [m \in Methods |-> {}]
    /\ trie = [m \in Methods |-> EmptyTrie]
    /\ serving = FALSE
    /\ pc = "idle"
    /\ method = BadMethod /\ request = <<"">> /\ collect = FALSE
    /\ untried = {} /\ cur = BadMethod
    /\ beg = 1 /\ node = Root /\ oas_path = <<>> /\ param_idxs = NoIdxs
    /\ err = "NONE" /\ validators = <<>>

(* One key of "paths" with the methods below it.  Every method has a       *)
(* trie and a map of its own, so the order of the methods does not matter. *)
ProcessPath(path, ms) ==
    /\ ~serving
    /\ path \notin Declared
    /\ Cardinality(Declared) < MaxPaths
    /\ routes' = [m \in Methods |-> IF m \in ms THEN routes[m] \cup {path} ELSE routes[m]]
    /\ trie' = [m \in Methods |-> IF m \in ms /\ HasPathParam(path)
                                  THEN Insert(trie[m], path)
                                  ELSE trie[m]]
    /\ UNCHANGED <<serving, pc, argVars, untried, cur, walkVars, err, validators>>

Serve ==
    /\ ~serving
    /\ serving' = TRUE
    /\ UNCHANGED <<routes, trie, pc, argVars, untried, cur, walkVars, err, validators>>

(* An entry point calls GetValidators.  A name of either case stands for   *)
(* the same method in kValidMethods and in kStringToMethod.                *)
Call(m, r, c) ==
    /\ serving
    /\ pc = "idle"
    /\ pc' = "method"
    /\ method' = m /\ request' = r /\ collect' = c
    /\ UNCHANGED <<specVars, untried, cur, walkVars, err, validators>>

RejectMethod ==
    /\ pc = "method"
    /\ method = BadMethod
    /\ pc' = "done"
    /\ err' = "INVALID_METHOD"
    /\ UNCHANGED <<specVars, argVars, untried, cur, walkVars, validators>>

\* Mutant: starts with any of the methods that may answer.
AcceptAnyMethod ==
    /\ pc = "method"
    /\ method # BadMethod
    /\ pc' = "exact"
    /\ cur' \in ({method} \cup MethodMap[method]) \ {BadMethod}
    /\ untried' = MethodMap[method]
    /\ UNCHANGED <<specVars, argVars, walkVars, err, validators>>

AcceptMethod ==
    /\ pc = "method"
    /\ method # BadMethod
    /\ pc' = "exact"
    /\ cur' = method
    /\ untried' = MethodMap[method]
    /\ UNCHANGED <<specVars, argVars, walkVars, err, validators>>

-----------------------------------------------------------------------------
(* One attempt: the inner GetValidators with mapped_method = cur.          *)

Found(key) == /\ pc' = "done"
              /\ err' = "NONE"
              /\ validators' = key

NotFound == /\ pc' = "mapped"
            /\ err' = "INVALID_ROUTE"
            /\ UNCHANGED validators

\* Mutant: the methods share one map of paths.
ExactHitAnyMethod ==
    /\ pc = "exact"
    /\ request \in Declared
    /\ Found(request)
    /\ UNCHANGED <<specVars, argVars, untried, cur, walkVars>>

ExactHit ==
    /\ pc = "exact"
    /\ request \in routes[cur]
    /\ Found(request)
    /\ UNCHANGED <<specVars, argVars, untried, cur, walkVars>>

StartSearch ==
    /\ pc = "exact"
    /\ request \notin routes[cur]
    /\ pc' = "search"
    /\ beg' = 1 /\ node' = Root /\ oas_path' = <<>>
    /\ UNCHANGED <<specVars, argVars, untried, cur, param_idxs, err, validators>>

AtFragment == pc = "search" /\ beg <= Len(Fragments(request))
dir == Fragments(request)[beg]

FollowLiteral ==
    /\ AtFragment
    /\ HasChild(trie[cur], node, dir)
    /\ oas_path' = Append(oas_path, dir)
    /\ node' = Child(node, dir)
    /\ beg' = beg + 1
    /\ UNCHANGED <<specVars, pc, argVars, untried, cur, param_idxs, err, validators>>

\* param_idxs.emplace(idx, range): keeps a range it already has.
Emplace(idxs, idx, pos) ==
    [k \in DOMAIN idxs \cup {idx} |-> IF k \in DOMAIN idxs THEN idxs[k] ELSE pos]

\* Mutant: a parameter node takes every fragment, its literal children too.
FollowParamFirst ==
    /\ AtFragment
    /\ trie[cur][node].is_param
    /\ oas_path' = Append(oas_path, trie[cur][node].dir)
    /\ param_idxs' = IF collect THEN Emplace(param_idxs, trie[cur][node].frag_idx, beg)
                                ELSE param_idxs
    /\ node' \in FirstChildren(trie[cur], node)
    /\ beg' = beg + 1
    /\ UNCHANGED <<specVars, pc, argVars, untried, cur, err, validators>>

FollowParam ==
    /\ AtFragment
    /\ ~HasChild(trie[cur], node, dir)
    /\ trie[cur][node].is_param
    /\ oas_path' = Append(oas_path, trie[cur][node].dir)
    /\ param_idxs' = IF collect THEN Emplace(param_idxs, trie[cur][node].frag_idx, beg)
                                ELSE param_idxs
    /\ node' \in FirstChildren(trie[cur], node)
    /\ beg' = beg + 1
    /\ UNCHANGED <<specVars, pc, argVars, untried, cur, err, validators>>

NoSuchChild ==
    /\ AtFragment
    /\ ~HasChild(trie[cur], node, dir)
    /\ ~trie[cur][node].is_param
    /\ oas_path' = <<>>
    /\ NotFound
    /\ UNCHANGED <<specVars, argVars, untried, cur, beg, node, param_idxs>>

\* The search is over: the path it built is looked up in its turn.
LookUpPath ==
    /\ pc = "search"
    /\ beg > Len(Fragments(request))
    /\ IF Joined(oas_path) \in routes[cur] THEN Found(Joined(oas_path)) ELSE NotFound
    /\ UNCHANGED <<specVars, argVars, untried, cur, walkVars>>

-----------------------------------------------------------------------------
(* The loop over mapped_methods, an unordered_set.                         *)

TryMapped(m) ==
    /\ pc = "mapped"
    /\ m \in untried
    /\ m # BadMethod
    /\ pc' = "exact"
    /\ cur' = m
    /\ untried' = untried \ {m}
    /\ UNCHANGED <<specVars, argVars, walkVars, err, validators>>

\* kStringToMethod.at throws out_of_range, caught outside the loop: the
\* methods after the misspelt one are not tried.
MisspeltMapped ==
    /\ pc = "mapped"
    /\ BadMethod \in untried
    /\ pc' = "done"
    /\ UNCHANGED <<specVars, argVars, untried, cur, walkVars, err, validators>>

NoneMapped ==
    /\ pc = "mapped"
    /\ untried = {}
    /\ pc' = "done"
    /\ UNCHANGED <<specVars, argVars, untried, cur, walkVars, err, validators>>

\* The caller has its answer; the locals of the call are gone.
Return ==
    /\ pc = "done"
    /\ pc' = "idle"
    /\ method' = BadMethod /\ request' = <<"">> /\ collect' = FALSE
    /\ untried' = {} /\ cur' = BadMethod
    /\ beg' = 1 /\ node' = Root /\ oas_path' = <<>> /\ param_idxs' = NoIdxs
    /\ err' = "NONE" /\ validators' = <<>>
    /\ UNCHANGED specVars

-----------------------------------------------------------------------------
Load == Serve \/ \E p \in Paths, ms \in SUBSET Methods : ProcessPath(p, ms)

Attempt == \/ ExactHit \/ StartSearch
           \/ FollowLiteral \/ FollowParam \/ NoSuchChild \/ LookUpPath

Mapped == MisspeltMapped \/ NoneMapped \/ \E m \in Methods : TryMapped(m)

GetValidators == RejectMethod \/ AcceptMethod \/ Attempt \/ Mapped

Client == Return \/ \E m \in Methods \cup {BadMethod}, r \in Requests, c \in BOOLEAN : Call(m, r, c)

Next == Load \/ GetValidators \/ Client

Spec == Init /\ [][Next]_vars /\ WF_vars(GetValidators)

-----------------------------------------------------------------------------
TypeOK ==
    /\ routes \in [Methods -> SUBSET Paths]
    /\ serving \in BOOLEAN
    /\ pc \in {"idle", "method", "exact", "search", "mapped", "done"}
    /\ method \in Methods \cup {BadMethod}
    /\ request \in Requests \cup {<<"">>}
    /\ collect \in BOOLEAN
    /\ untried \subseteq Methods \cup {BadMethod}
    /\ cur \in Methods \cup {BadMethod}
    /\ beg \in Nat /\ beg >= 1
    /\ node \in Seq(Labels)
    /\ oas_path \in Seq(Labels)
    /\ DOMAIN param_idxs \subseteq Nat
    /\ err \in {"NONE", "INVALID_METHOD", "INVALID_ROUTE"}
    /\ validators \in Paths \cup {<<>>}
    /\ DOMAIN trie = Methods
    /\ \A m \in Methods :
         /\ DOMAIN trie[m] \subseteq Seq(Labels)
         /\ trie[m] \in [DOMAIN trie[m] -> [dir : Labels, is_param : BOOLEAN, frag_idx : Nat]]

(* The trie and the map a method's calls are answered from agree: the      *)
(* nodes are the prefixes of the declared paths that have templates, a     *)
(* node's frag_idx is its depth, and a node that Search may leave by       *)
(* children.begin() has a child and remembers the label of one             *)
(* (path_trie.cpp:63-73, 91-93).                                           *)
TrieAgreesWithRoutes ==
    \A m \in Methods :
        /\ DOMAIN trie[m] = {Root} \cup UNION { WalkNodes(Fragments(p)) :
                                                p \in {q \in routes[m] : HasPathParam(q)} }
        /\ \A n \in DOMAIN trie[m] :
              /\ trie[m][n].frag_idx = Len(n)
              /\ trie[m][n].is_param => /\ trie[m][n].dir \in Params
                                        /\ HasChild(trie[m], n, trie[m][n].dir)

(* A call that succeeds returns the validators of a path that is declared  *)
(* for the method, or for one it is mapped to, and that serves the request *)
(* (oas_validator_imp.cpp:174-239).                                        *)
RouteSound ==
    pc = "done" /\ err = "NONE" =>
        /\ cur \in {method} \cup MethodMap[method]
        /\ validators \in routes[cur]
        /\ Serves(validators, request)

(* The fragment indices recorded by Search are the ones the path parameter *)
(* validators look up: each parameter of the path found is bound to the    *)
(* fragment at its own place, whatever earlier attempts with other methods *)
(* recorded; only a fragment that repeats the template itself is not.      *)
ParamIdxSound ==
    pc = "done" /\ err = "NONE" /\ collect =>
        \A name \in DOMAIN PathParamIndices(validators) :
            LET idx == PathParamIndices(validators)[name]
            IN  \/ idx \in DOMAIN param_idxs /\ param_idxs[idx] = idx + 1
                \/ Fragments(request)[idx + 1] = name

(* GetValidators, with its lookups, searches and retries, gives one of the *)
(* answers RouteSpec allows, and changes nothing else.                     *)
Abstract ==
    INSTANCE RouteSpec WITH
        call <- IF pc = "idle" THEN [idle |-> TRUE]
                               ELSE [method |-> method, request |-> request],
        answer <- IF pc # "done" THEN [err |-> "PENDING"]
                  ELSE IF err # "NONE" THEN [err |-> err]
                  ELSE [err |-> err, method |-> cur, path |-> validators]

RefinesRouteSpec == Abstract!Spec

(* A call returns: the search ends with the request and the loop over the  *)
(* mapped methods with the set.                                            *)
CallReturns == pc = "method" ~> pc = "done"

(* README.md:52 "Route Validation: Checks if the provided route matches    *)
(* the specification": a route is refused only when no path declared for   *)
(* the method fits it (path_trie.cpp:63-66, 88-101).                       *)
RefusedRouteMatchesNothing ==
    pc = "done" /\ err = "INVALID_ROUTE" =>
        \A p \in routes[method] : ~Fits(p, request)

=============================================================================
