----------------------------- MODULE SpecLoader -----------------------------
(***************************************************************************)
(* The constructor of OASValidatorImp on a parsed document whose           *)
(* references are resolved: the loops over "paths", over the members of a  *)
(* path and over the parameters of a method fill the maps and tries that   *)
(* requests are answered from.  ref_keys is the stack of keys that leads   *)
(* to the place the loops are at; every validator takes the reference to   *)
(* its place from it (specRef in the error messages).                      *)
(*                                                                         *)
(* A document is the sequence of the members of "paths", in the order the  *)
(* parser keeps.  Of a member only what the constructor asks is left:      *)
(*   key     its name, a member of DOMAIN MethodOf or any other            *)
(*   body    it has requestBody/content/application~1json/schema           *)
(*   params  its parameters, <<>> when the key "parameters" is absent      *)
(* and of a parameter its in, its name (that of a template being the       *)
(* template) and whether GetParamInfo can make a deserializer for it.      *)
(***************************************************************************)
EXTENDS RouteMatching, SequencesExt

CONSTANTS Methods,   \* HttpMethod
          MethodOf,  \* kStringToMethod
          Documents  \* the documents a program may give

ASSUME LoaderAssumption == /\ DOMAIN MethodOf \subseteq STRING
                           /\ MethodOf \in [DOMAIN MethodOf -> Methods]

ParameterObject == [in : STRING, name : STRING, sound : BOOLEAN]
MemberObject == [key : STRING, body : BOOLEAN, params : Seq(ParameterObject)]
PathObject == [path : Seq(Labels) \ {<<>>}, members : Seq(MemberObject)]

ASSUME DocumentsAssumption == /\ Labels \subseteq STRING
                              /\ Documents \subseteq Seq(PathObject)

VARIABLES
    doc,       \* the document
    pc,        \* the loop or call the constructor is in
    i, j, k,   \* the members of paths, of the path, of parameters gone through
    ref_keys,  \* the stack of keys, each one a sequence of fields
    stores,    \* the ValidatorsStores created, in order
    routes,    \* routes[m]: per_path_validators, from paths to stores
    trie,      \* trie[m]: path_trie
    outcome    \* "NONE", or how the constructor ended

built == <<stores, routes, trie>>
vars == <<doc, pc, i, j, k, ref_keys, built, outcome>>

-----------------------------------------------------------------------------
path   == doc[i].path
member == doc[i].members[j]
method == MethodOf[member.key]
store  == routes[method][path]

Push(key) == Append(ref_keys, key)
Pop == SubSeq(ref_keys, 1, Len(ref_keys) - 1)

NoBody == <<>>

\* ValidatorsStore(): nothing to validate.
NewStore(body) == [body |-> body, path |-> <<>>, query |-> <<>>, header |-> <<>>]

Init ==
    /\ doc \in Documents
    /\ pc = "paths"
    /\ i = 0 /\ j = 0 /\ k = 0
    /\ ref_keys = << <<"paths">> >>
    /\ stores = <<>>
    /\ routes = [m \in Methods |-> [p \in {} |-> 0]]
    /\ trie = [m \in Methods |-> EmptyTrie]
    /\ outcome = "NONE"

\* An exception leaves the constructor: nothing of what it built is left.
Throw(exception) == /\ pc' = "done"
                    /\ outcome' = exception
                    /\ UNCHANGED <<doc, i, j, k, ref_keys, built>>

EnterPath ==
    /\ pc = "paths" /\ i < Len(doc)
    /\ pc' = "members"
    /\ i' = i + 1 /\ j' = 0
    /\ ref_keys' = Push(doc[i + 1].path)
    /\ UNCHANGED <<doc, k, built, outcome>>

Finish ==
    /\ pc = "paths" /\ i = Len(doc)
    /\ pc' = "done"
    /\ outcome' = "OK"
    /\ UNCHANGED <<doc, i, j, k, ref_keys, built>>

LeavePath ==
    /\ pc = "members" /\ j = Len(doc[i].members)
    /\ pc' = "paths"
    /\ ref_keys' = Pop
    /\ UNCHANGED <<doc, i, j, k, built, outcome>>

EnterMethod ==
    /\ pc = "members" /\ j < Len(doc[i].members)
    /\ pc' = "method"
    /\ j' = j + 1
    /\ ref_keys' = Push(<<doc[i].members[j + 1].key>>)
    /\ UNCHANGED <<doc, i, k, built, outcome>>

\* kStringToMethod.at
UnknownKey ==
    /\ pc = "method" /\ member.key \notin DOMAIN MethodOf
    /\ Throw("out_of_range")

\* emplace keeps the store of an earlier member for the method, if there
\* is one; the new store is then reached by nothing.
Emplaced(map, key, value) == IF key \in DOMAIN map
                             THEN map
                             ELSE [x \in DOMAIN map \cup {key} |->
                                      IF x = key THEN value ELSE map[x]]

\* ProcessRequestBody, and the entry of ProcessParameters.
RequestBody ==
    /\ pc = "method" /\ member.key \in DOMAIN MethodOf
    /\ stores' = Append(stores, NewStore(IF member.body THEN Push(<<"schema">>) ELSE NoBody))
    /\ routes' = [routes EXCEPT ![method] = Emplaced(@, path, Len(stores'))]
    /\ pc' = IF member.params = <<>> THEN "insert" ELSE "parameters"
    /\ ref_keys' = IF member.params = <<>> THEN ref_keys ELSE Push(<<"parameters">>)
    /\ k' = 0
    /\ UNCHANGED <<doc, i, j, trie, outcome>>

-----------------------------------------------------------------------------
(* AddParamValidators, one turn of its loop: the store that the map has    *)
(* for the path gets the validator.                                        *)

param == member.params[k + 1]
AtParam(in) == pc = "parameters" /\ k < Len(member.params) /\ param.in = in
Validator == [name |-> param.name, ref |-> Push(<<param.name>>)]

\* PathParamValidatorInfo
AtIndex(idx) == [idx |-> idx, name |-> param.name, ref |-> Push(<<param.name>>)]

Add(field, validators) == /\ param.sound
                          /\ stores' = [stores EXCEPT ![store][field] = validators]
                          /\ k' = k + 1
                          /\ UNCHANGED <<doc, pc, i, j, ref_keys, routes, trie, outcome>>

Knows(header, name) == \E h \in 1..Len(header) : header[h].name = name

\* Mutant: numbers the path parameters in the order of the declarations.
AddPathParamInOrder ==
    /\ AtParam("path") /\ param.name \in DOMAIN PathParamIndices(path)
    /\ Add("path", Append(stores[store].path, AtIndex(Len(stores[store].path) + 1)))

AddPathParam ==
    /\ AtParam("path") /\ param.name \in DOMAIN PathParamIndices(path)
    /\ Add("path", Append(stores[store].path, AtIndex(PathParamIndices(path)[param.name])))

AddQueryParam ==
    /\ AtParam("query")
    /\ Add("query", Append(stores[store].query, Validator))

\* header_param_validators_ is a map: of two with one name the first stays.
AddHeaderParam ==
    /\ AtParam("header")
    /\ Add("header", IF Knows(stores[store].header, param.name)
                     THEN stores[store].header
                     ELSE Append(stores[store].header, Validator))

\* path_param_idxs.at
NotInPath ==
    /\ AtParam("path") /\ param.name \notin DOMAIN PathParamIndices(path)
    /\ Throw("out_of_range")

\* Mutant: a parameter that is no good is skipped.
SkipBadParam ==
    /\ pc = "parameters" /\ k < Len(member.params)
    /\ \/ param.in \notin {"path", "query", "header"}
       \/ ~param.sound
    /\ k' = k + 1
    /\ UNCHANGED <<doc, pc, i, j, ref_keys, built, outcome>>

\* "in" is unknown, or GetParamInfo throws.
BadParam ==
    /\ pc = "parameters" /\ k < Len(member.params)
    /\ \/ param.in \notin {"path", "query", "header"}
       \/ /\ param.in = "path" => param.name \in DOMAIN PathParamIndices(path)
          /\ ~param.sound
    /\ Throw("ValidatorInitExc")

\* Mutant: forgets the key of the parameters on the stack.
LeaveParametersUnpopped ==
    /\ pc = "parameters" /\ k = Len(member.params)
    /\ pc' = "insert"
    /\ UNCHANGED <<doc, i, j, k, ref_keys, built, outcome>>

LeaveParameters ==
    /\ pc = "parameters" /\ k = Len(member.params)
    /\ pc' = "insert"
    /\ ref_keys' = Pop
    /\ UNCHANGED <<doc, i, j, k, built, outcome>>

\* Mutant: a path with templates is inserted in the trie of every method.
InsertPathEverywhere ==
    /\ pc = "insert"
    /\ pc' = "members"
    /\ trie' = [m \in Methods |-> IF HasPathParam(path) THEN Insert(trie[m], path)
                                                        ELSE trie[m]]
    /\ ref_keys' = Pop
    /\ UNCHANGED <<doc, i, j, k, stores, routes, outcome>>

\* The end of ProcessMethod.
InsertPath ==
    /\ pc = "insert"
    /\ pc' = "members"
    /\ trie' = IF HasPathParam(path) THEN [trie EXCEPT ![method] = Insert(@, path)] ELSE trie
    /\ ref_keys' = Pop
    /\ UNCHANGED <<doc, i, j, k, stores, routes, outcome>>

-----------------------------------------------------------------------------
AddParamValidators == AddPathParam \/ AddQueryParam \/ AddHeaderParam \/ NotInPath \/ BadParam

ProcessMethod == \/ EnterMethod \/ UnknownKey \/ RequestBody
                 \/ AddParamValidators \/ LeaveParameters \/ InsertPath

Next == EnterPath \/ ProcessMethod \/ LeavePath \/ Finish

Spec == Init /\ [][Next]_vars

-----------------------------------------------------------------------------
(* What the document says, without the constructor's loops.                *)

(* The places of a document: <<a, b, 0>> is the key of member b of path a, *)
(* and <<a, b, c>> its parameter c.                                        *)
Places == UNION { UNION { { <<a, b, c>> : c \in 0..Len(doc[a].members[b].params) } :
                          b \in DOMAIN doc[a].members } : a \in DOMAIN doc }

PathAt(d) == doc[d[1]].path
MemberAt(d) == doc[d[1]].members[d[2]]
ParamAt(d) == MemberAt(d).params[d[3]]

Before(x, y, z, a, b, c) == x < a \/ (x = a /\ (y < b \/ (y = b /\ z < c)))
Earlier(d, e) == Before(d[1], d[2], d[3], e[1], e[2], e[3])

KeysOf(m) == { key \in DOMAIN MethodOf : MethodOf[key] = m }

\* Of the places S, those of members for the method m, of p only, and those
\* of parameters that are declared there.
MembersOf(S, m) == { d \in S : d[3] = 0 /\ MemberAt(d).key \in KeysOf(m) }
MembersFor(S, p, m) == { d \in MembersOf(S, m) : PathAt(d) = p }
Declared(S, p, m, in) == { d \in S : /\ d[3] > 0 /\ MemberAt(d).key \in KeysOf(m)
                                     /\ PathAt(d) = p /\ ParamAt(d).in = in }

\* Why the constructor cannot take a parameter of p, or "NONE".
ParamFault(p, prm) ==
    CASE prm.in = "path" /\ prm.name \notin ToSet(p) \cap Params -> "out_of_range"
      [] prm.in \notin {"path", "query", "header"} -> "ValidatorInitExc"
      [] OTHER -> IF prm.sound THEN "NONE" ELSE "ValidatorInitExc"

\* Why the constructor cannot take what is at a place, or "NONE".
FaultAt(a, b, c) ==
    LET mb == doc[a].members[b]
    IN  IF c > 0 THEN ParamFault(doc[a].path, mb.params[c])
        ELSE IF mb.key \in DOMAIN MethodOf THEN "NONE" ELSE "out_of_range"

\* No place before <<a, b, c>> has a fault.
SoundBefore(a, b, c) ==
    \A x \in DOMAIN doc : \A y \in DOMAIN doc[x].members :
        \A z \in 0..Len(doc[x].members[y].params) :
            Before(x, y, z, a, b, c) => FaultAt(x, y, z) = "NONE"

-----------------------------------------------------------------------------
TypeOK ==
    /\ pc \in {"paths", "members", "method", "parameters", "insert", "done"}
    /\ i \in 0..Len(doc) /\ k \in Nat
    /\ j \in 0..(IF i = 0 THEN 0 ELSE Len(doc[i].members))
    /\ ref_keys \in Seq(Seq(STRING))
    /\ routes \in [Methods -> UNION { [ps -> DOMAIN stores] :
                                       ps \in SUBSET { doc[a].path : a \in 1..Len(doc) } }]
    /\ outcome \in {"NONE", "OK", "out_of_range", "ValidatorInitExc"}

\* What doc has at p under key.
MembersAt(p, key) ==
    UNION { { doc[a].members[b] : b \in { c \in DOMAIN doc[a].members :
                                          doc[a].members[c].key = key } } :
            a \in { c \in DOMAIN doc : doc[c].path = p } }

\* The validator of a body of m at p refers to one that doc has there.
BodyRefIsRight(m, p, ref) ==
    \E key \in KeysOf(m) : /\ ref = << <<"paths">>, p, <<key>>, <<"schema">> >>
                           /\ \E mb \in MembersAt(p, key) : mb.body

ParamRefIsRight(m, p, in, v) ==
    \E key \in KeysOf(m) :
        /\ v.ref = << <<"paths">>, p, <<key>>, <<"parameters">>, <<v.name>> >>
        /\ \E mb \in MembersAt(p, key) :
              \E a \in DOMAIN mb.params : mb.params[a].name = v.name /\ mb.params[a].in = in

(* The reference of a validator, which every error message about it        *)
(* quotes, names the place in the document that the validator was made     *)
(* from: the stack of keys is right wherever a validator is made, however  *)
(* many members, parameters and shared names the loops have gone through   *)
(* (oas_validator_imp.cpp:289-342, validators_store.cpp:23-35).            *)
RefsNameTheirPlace ==
    \A m \in Methods : \A p \in DOMAIN routes[m] :
        LET s == stores[routes[m][p]]
        IN  /\ s.body # NoBody => BodyRefIsRight(m, p, s.body)
            /\ \A in \in {"path", "query", "header"} :
                  \A a \in DOMAIN s[in] : ParamRefIsRight(m, p, in, s[in][a])

\* The validators in a list are those of the places D, in their order.
ListedInOrder(list, D) ==
    \E at \in [DOMAIN list -> D] :
        /\ \A d \in D : \E a \in DOMAIN list : at[a] = d
        /\ \A a, b \in DOMAIN list : a < b => Earlier(at[a], at[b])
        /\ \A a \in DOMAIN list : list[a].name = ParamAt(at[a]).name

\* The first member there is for a route decides on its body validator.
BodyOfFirst(s, D) ==
    \A d \in D : (\A e \in D : ~Earlier(e, d)) => (s.body # NoBody <=> MemberAt(d).body)

NamedApart(list) == \A a, b \in DOMAIN list : list[a].name = list[b].name => a = b

\* A store s has the validators of the places S, for the method m at p.
StoreServes(s, S, p, m) ==
    /\ BodyOfFirst(s, MembersFor(S, p, m))
    /\ ListedInOrder(s.query, Declared(S, p, m, "query"))
    /\ ListedInOrder(s.path, Declared(S, p, m, "path"))
    /\ \A a \in DOMAIN s.path : p[s.path[a].idx + 1] = s.path[a].name
    /\ { s.header[a].name : a \in DOMAIN s.header } =
          { ParamAt(d).name : d \in Declared(S, p, m, "header") }
    /\ NamedApart(s.header)

Served(S) ==
    \A m \in Methods :
        /\ DOMAIN routes[m] = { PathAt(d) : d \in MembersOf(S, m) }
        /\ \A p \in DOMAIN routes[m] : StoreServes(stores[routes[m][p]], S, p, m)

(* A constructed validator has exactly the routes of its document, and     *)
(* behind each the validators of what the document declares there, none    *)
(* lost and none of another route: query and path parameters in order,     *)
(* each path parameter with the index of its own fragment, header          *)
(* parameters by name, and the body of the first member for the method     *)
(* ("get" and "GET" are one method and share one store)                    *)
(* (oas_validator_imp.cpp:285-315, validators_store.cpp:17-36).            *)
DocumentIsServed == outcome = "OK" => Served(Places)

(* The constructor throws exactly when the document has a fault, and what  *)
(* it throws tells the first one in the order of the document              *)
(* (oas_validator_imp.cpp:303, validators_store.cpp:26-34).                *)
RefusedForItsFirstFault ==
    pc = "done" =>
        \/ outcome = "OK" /\ SoundBefore(Len(doc) + 1, 0, 0)
        \/ \E a \in DOMAIN doc : \E b \in DOMAIN doc[a].members :
              \E c \in 0..Len(doc[a].members[b].params) :
                 /\ outcome # "NONE" /\ outcome = FaultAt(a, b, c)
                 /\ SoundBefore(a, b, c)

(* API.md:74: "This constructor will throw an `ValidatorInitExc` if it     *)
(* fails to initialize with the provided OpenAPI specification."  A key    *)
(* beside the methods of a path, such as the path's own "parameters", and  *)
(* a path parameter that the path does not have make unordered_map::at     *)
(* throw std::out_of_range instead (oas_validator_imp.cpp:303).            *)
FailsWithInitExc == pc = "done" => outcome \in {"OK", "ValidatorInitExc"}

=============================================================================
