---------------------------- MODULE RouterProofs ----------------------------
(***************************************************************************)
(* Router: for every set of methods, every method map, every document and  *)
(* every request, the trie agrees with the declared paths and a call that  *)
(* succeeds has found a declared path that serves the request, whose       *)
(* parameters are bound to the fragments at their places; and every call   *)
(* is answered as RouteSpec allows.                                        *)
(***************************************************************************)
EXTENDS Router, SequenceTheorems, WellFoundedInduction, TLAPS

-----------------------------------------------------------------------------
(* Paths and tries.                                                        *)

Path == Seq(Labels) \ {<<>>}

NodeType == [dir : Labels, is_param : BOOLEAN, frag_idx : Nat]

TrieType(t) == /\ DOMAIN t \subseteq Seq(Labels)
               /\ t \in [DOMAIN t -> NodeType]

\* What TrieAgreesWithRoutes says of the nodes of one trie.
NodesSound(t) ==
    \A n \in DOMAIN t :
        /\ t[n].frag_idx = Len(n)
        /\ t[n].is_param => t[n].dir \in Params /\ HasChild(t, n, t[n].dir)

(* The fragments of a path are its fields, but perhaps the last            *)
(* (common.hpp:110-116 and the loops of path_trie.cpp).                    *)
LEMMA FragmentsProperties ==
    ASSUME NEW path \in Path
    PROVE  /\ Fragments(path) \in Seq(Labels)
           /\ \A j \in 1..Len(Fragments(path)) : Fragments(path)[j] = path[j]
<1>1. Len(path) \in Nat /\ Len(path) > 0
  BY EmptySeq, LenProperties DEF Path
<1>2. CASE path[Len(path)] = ""
  <2> DEFINE s == SubSeq(path, 1, Len(path) - 1)
  <2>1. \A i \in 1..(Len(path) - 1) : path[i] \in Labels
    BY <1>1 DEF Path
  <2>2. s \in Seq(Labels)
    BY <1>1, <2>1, SubSeqProperties
  <2>3. Len(path) - 1 \in Int /\ Len(path) - 1 >= 0
    BY <1>1
  <2>5. Len(s) = IF 1 <= Len(path) - 1 THEN (Len(path) - 1) - 1 + 1 ELSE 0
    BY <2>1, <2>3, SubSeqProperties
  <2>6. \A i \in 1..((Len(path) - 1) - 1 + 1) : s[i] = path[1 + i - 1]
    BY <2>1, <2>3, SubSeqProperties
  <2>4. Fragments(path) = s
    BY <1>2 DEF Fragments
  <2>7. QED
    BY <1>1, <2>2, <2>4, <2>5, <2>6
<1>3. CASE path[Len(path)] # ""
  BY <1>3 DEF Fragments, Path
<1>4. QED
  BY <1>2, <1>3

(* The nodes Insert walks through are paths themselves, and each but the   *)
(* last has the next one as a child (path_trie.cpp:58-76).                 *)
LEMMA WalkProperties ==
    ASSUME NEW f \in Seq(Labels)
    PROVE  /\ Root \in WalkNodes(f)
           /\ \A n \in WalkNodes(f) : n \in Seq(Labels)
           /\ \A n \in Seq(Labels) : OnWalk(f, n) =>
                /\ f[Len(n) + 1] \in Labels
                /\ Child(n, f[Len(n) + 1]) \in WalkNodes(f)
<1>1. Root \in WalkNodes(f)
  <2>1. Len(f) \in Nat /\ 0 \in 0..Len(f)
    BY LenProperties
  <2>2. SubSeq(f, 1, 0) = Root
    BY DEF Root
  <2>3. QED
    BY <2>1, <2>2 DEF WalkNodes
<1>2. \A n \in WalkNodes(f) : n \in Seq(Labels)
  BY DEF WalkNodes
<1>3. ASSUME NEW n \in Seq(Labels), OnWalk(f, n)
      PROVE  /\ f[Len(n) + 1] \in Labels
             /\ Child(n, f[Len(n) + 1]) \in WalkNodes(f)
  <2>1. /\ Len(n) \in Nat /\ Len(f) \in Nat
        /\ Len(n) < Len(f)
        /\ n = SubSeq(f, 1, Len(n))
    BY <1>3 DEF OnWalk
  <2>2. Append(n, f[Len(n) + 1]) = SubSeq(f, 1, Len(n) + 1)
    BY <2>1
  <2>3. QED
    BY <2>1, <2>2 DEF WalkNodes, Child
<1>4. QED
  BY <1>1, <1>2, <1>3

(* Insert adds exactly the nodes of its walk and leaves every node well    *)
(* formed (path_trie.cpp:50-77).                                           *)
LEMMA InsertProperties ==
    ASSUME NEW t, TrieType(t), NodesSound(t), NEW path \in Path
    PROVE  /\ TrieType(Insert(t, path))
           /\ NodesSound(Insert(t, path))
           /\ DOMAIN Insert(t, path) = DOMAIN t \cup WalkNodes(Fragments(path))
<1> DEFINE f == Fragments(path)
           u == Insert(t, path)
           old(n) == IF n \in DOMAIN t THEN t[n] ELSE NewNode(Len(n))
<1>1. f \in Seq(Labels)
  BY FragmentsProperties
<1>2. /\ DOMAIN u = DOMAIN t \cup WalkNodes(f)
      /\ \A n \in DOMAIN u : u[n] = MarkParam(f, n, old(n))
  BY DEF Insert
<1>3. DOMAIN u \subseteq Seq(Labels)
  BY <1>1, <1>2, WalkProperties DEF TrieType
<1>4. ASSUME NEW n \in DOMAIN u
      PROVE  /\ u[n] \in NodeType
             /\ u[n].frag_idx = Len(n)
             /\ u[n].is_param => u[n].dir \in Params /\ HasChild(u, n, u[n].dir)
  <2>1. n \in Seq(Labels) /\ Len(n) \in Nat
    BY <1>3
  <2>2. /\ old(n) \in NodeType
        /\ old(n).frag_idx = Len(n)
        /\ old(n).is_param => old(n).dir \in Params /\ HasChild(t, n, old(n).dir)
    <3>1. CASE n \in DOMAIN t
      BY <3>1 DEF TrieType, NodesSound
    <3>2. CASE n \notin DOMAIN t
      BY <2>1, <3>2, LabelsAssumption DEF NewNode, NodeType, Labels
    <3>3. QED
      BY <3>1, <3>2
  <2>3. CASE OnWalk(f, n) /\ f[Len(n) + 1] \in Params
    <3>1. u[n] = [dir |-> f[Len(n) + 1], is_param |-> TRUE, frag_idx |-> old(n).frag_idx]
      BY <1>2, <2>3 DEF MarkParam
    <3>2. f[Len(n) + 1] \in Labels /\ Child(n, f[Len(n) + 1]) \in DOMAIN u
      BY <1>1, <1>2, <2>1, <2>3, WalkProperties
    <3>3. /\ u[n] \in NodeType
          /\ u[n].frag_idx = Len(n)
          /\ u[n].dir = f[Len(n) + 1]
      BY <2>2, <3>1, <3>2 DEF NodeType
    <3>4. QED
      BY <2>3, <3>2, <3>3 DEF HasChild
  <2>4. CASE ~(OnWalk(f, n) /\ f[Len(n) + 1] \in Params)
    <3>1. u[n] = old(n)
      BY <1>2, <2>4 DEF MarkParam
    <3>2. QED
      BY <1>2, <2>2, <3>1 DEF HasChild
  <2>5. QED
    BY <2>3, <2>4
<1>5. TrieType(u)
  <2>1. u = [n \in DOMAIN u |-> u[n]]
    BY DEF Insert
  <2>2. QED
    BY <1>3, <1>4, <2>1 DEF TrieType
<1>6. QED
  BY <1>2, <1>4, <1>5 DEF NodesSound

-----------------------------------------------------------------------------
(* The inductive invariant.                                                *)

\* A call in progress tries its own method or one it is mapped to.
CallSound ==
    /\ pc # "idle" => request \in Requests
    /\ pc \in {"exact", "search", "mapped"} =>
         /\ method \in Methods
         /\ cur \in Methods
         /\ cur \in {method} \cup MethodMap[method]
         /\ untried \subseteq MethodMap[method]
    /\ pc = "mapped" => err = "INVALID_ROUTE"
    /\ ~serving => pc = "idle"

\* The labels Search went through fit the fragments it consumed.
SearchSound ==
    pc = "search" =>
        /\ node \in DOMAIN trie[cur]
        /\ beg <= Len(Fragments(request)) + 1
        /\ Len(oas_path) = beg - 1
        /\ \A j \in 1..(beg - 1) : \/ oas_path[j] = Fragments(request)[j]
                                   \/ oas_path[j] \in Params

Inv == TypeOK /\ TrieAgreesWithRoutes /\ CallSound /\ SearchSound /\ RouteSound

(* The constructor starts with empty maps and tries, which agree, and with *)
(* no call in progress (oas_validator_imp.cpp:13-28).                      *)
THEOREM InitInv == Init => Inv
<1> SUFFICES ASSUME Init PROVE Inv
  OBVIOUS
<1>1. TypeOK
  <2>1. EmptyTrie \in [{Root} -> [dir : Labels, is_param : BOOLEAN, frag_idx : Nat]]
    BY LabelsAssumption DEF EmptyTrie, NewNode, Labels
  <2>2. Root \in Seq(Labels) /\ <<>> \in Seq(Labels) /\ DOMAIN EmptyTrie = {Root}
    BY EmptySeq DEF Root, EmptyTrie
  <2>3. DOMAIN trie = Methods /\ \A m \in Methods : trie[m] = EmptyTrie
    BY DEF Init
  <2>4. routes \in [Methods -> SUBSET Paths]
    BY DEF Init
  <2>5. oas_path \in Seq(Labels) /\ node \in Seq(Labels)
    BY <2>2, Zenon DEF Init
  <2>6. param_idxs = NoIdxs
    BY Zenon DEF Init
  <2>7. DOMAIN param_idxs \subseteq Nat
    BY <2>6 DEF NoIdxs
  <2>8. \A m \in Methods :
           /\ DOMAIN trie[m] \subseteq Seq(Labels)
           /\ trie[m] \in [DOMAIN trie[m] -> [dir : Labels, is_param : BOOLEAN, frag_idx : Nat]]
    BY <2>1, <2>2, <2>3
  <2>9. beg = 1
    BY Zenon DEF Init
  <2>10. /\ pc \in {"idle", "method", "exact", "search", "mapped", "done"}
         /\ serving \in BOOLEAN /\ collect \in BOOLEAN
         /\ method \in Methods \cup {BadMethod}
         /\ request \in Requests \cup {<<"">>}
         /\ untried \subseteq Methods \cup {BadMethod}
         /\ cur \in Methods \cup {BadMethod}
         /\ err \in {"NONE", "INVALID_METHOD", "INVALID_ROUTE"}
         /\ validators \in Paths \cup {<<>>}
    BY Zenon DEF Init
  <2>11. beg \in Nat /\ beg >= 1
    BY <2>9
  <2>12. QED
    BY <2>3, <2>4, <2>5, <2>7, <2>8, <2>10, <2>11, Zenon DEF TypeOK
<1>2. TrieAgreesWithRoutes
  BY DEF Init, TrieAgreesWithRoutes, EmptyTrie, NewNode, Root
<1>3. CallSound /\ SearchSound /\ RouteSound
  BY DEF Init, CallSound, SearchSound, RouteSound
<1>4. QED
  BY <1>1, <1>2, <1>3 DEF Inv

(* The constructor keeps the tries and the maps in agreement.              *)
LEMMA ProcessPathInv ==
    ASSUME Inv, NEW path \in Paths, NEW ms \in SUBSET Methods, ProcessPath(path, ms)
    PROVE  Inv'
<1> USE DEF Inv
<1>1. path \in Path
  BY RouterAssumption DEF Path
<1>2. ASSUME NEW m \in Methods
      PROVE  TrieType(trie[m]) /\ NodesSound(trie[m])
  BY DEF TypeOK, TrieAgreesWithRoutes, TrieType, NodesSound, NodeType
<1>3. ASSUME NEW m \in Methods
      PROVE  /\ TrieType(trie'[m]) /\ NodesSound(trie'[m])
             /\ DOMAIN trie'[m] = {Root} \cup UNION { WalkNodes(Fragments(p)) :
                                     p \in {q \in routes'[m] : HasPathParam(q)} }
  <2>1. DOMAIN trie[m] = {Root} \cup UNION { WalkNodes(Fragments(p)) :
                                     p \in {q \in routes[m] : HasPathParam(q)} }
    BY DEF TrieAgreesWithRoutes
  <2>2. CASE m \in ms /\ HasPathParam(path)
    <3>1. trie'[m] = Insert(trie[m], path) /\ routes'[m] = routes[m] \cup {path}
      BY <2>2 DEF ProcessPath
    <3>2. /\ TrieType(trie'[m]) /\ NodesSound(trie'[m])
          /\ DOMAIN trie'[m] = DOMAIN trie[m] \cup WalkNodes(Fragments(path))
      BY <1>1, <1>2, <3>1, InsertProperties
    <3>3. QED
      BY <2>1, <2>2, <3>1, <3>2
  <2>3. CASE ~(m \in ms /\ HasPathParam(path))
    <3>1. /\ trie'[m] = trie[m]
          /\ routes'[m] \in {routes[m], routes[m] \cup {path}}
          /\ {q \in routes'[m] : HasPathParam(q)} = {q \in routes[m] : HasPathParam(q)}
      BY <2>3 DEF ProcessPath
    <3>2. QED
      BY <1>2, <2>1, <3>1
  <2>4. QED
    BY <2>2, <2>3
<1>4. TrieAgreesWithRoutes'
  BY <1>3 DEF TrieAgreesWithRoutes, NodesSound
<1>5. DOMAIN trie' = Methods /\ routes' \in [Methods -> SUBSET Paths]
  BY DEF ProcessPath, TypeOK
<1>6. TypeOK'
  BY <1>3, <1>5 DEF ProcessPath, TypeOK, TrieType, NodeType, argVars, walkVars
<1>7. pc' = "idle" /\ CallSound' /\ SearchSound' /\ RouteSound'
  BY DEF ProcessPath, CallSound, SearchSound, RouteSound, argVars, walkVars
<1>8. QED
  BY <1>4, <1>6, <1>7

-----------------------------------------------------------------------------
(* The steps that answer a call.  None of them changes the document's      *)
(* structures, so each has to keep only what is said of the call.          *)

(* A step that leaves the maps and the tries alone keeps them in agreement *)
(* (no entry point of oas_validator_imp.cpp writes to them).               *)
LEMMA SpecVarsInv ==
    ASSUME TrieAgreesWithRoutes, UNCHANGED specVars
    PROVE  TrieAgreesWithRoutes'
BY DEF TrieAgreesWithRoutes, specVars

(* The end of the constructor keeps the invariant                          *)
(* (oas_validator_imp.cpp:25-28).                                          *)
LEMMA ServeInv == Inv /\ Serve => Inv'
<1> SUFFICES ASSUME Inv, Serve PROVE Inv'
  OBVIOUS
<1>1. UNCHANGED <<routes, trie, pc, argVars, untried, cur, walkVars, err, validators>> /\ serving'
  BY DEF Serve
<1>2. TypeOK'
  BY <1>1 DEF Inv, TypeOK, argVars, walkVars
<1>3. TrieAgreesWithRoutes'
  BY <1>1 DEF Inv, TrieAgreesWithRoutes
<1>4. CallSound' /\ SearchSound' /\ RouteSound'
  BY <1>1 DEF Inv, CallSound, SearchSound, RouteSound, argVars, walkVars
<1>5. QED
  BY <1>2, <1>3, <1>4 DEF Inv

(* The beginning of a call keeps the invariant                             *)
(* (oas_validator_imp.cpp:30-161).                                         *)
LEMMA CallInv ==
    ASSUME Inv, NEW m \in Methods \cup {BadMethod}, NEW r \in Requests, NEW c \in BOOLEAN,
           Call(m, r, c)
    PROVE  Inv'
<1> USE DEF Inv, Call, specVars, walkVars
<1>1. TypeOK'
  BY DEF TypeOK
<1>2. TrieAgreesWithRoutes'
  BY SpecVarsInv
<1>3. CallSound' /\ SearchSound' /\ RouteSound'
  BY DEF CallSound, SearchSound, RouteSound
<1>4. QED
  BY <1>1, <1>2, <1>3

(* The check of the method's name keeps the invariant, and the first method*)
(* tried is the call's own (oas_validator_imp.cpp:178-181).                *)
LEMMA MethodInv == Inv /\ (RejectMethod \/ AcceptMethod) => Inv'
<1> SUFFICES ASSUME Inv, RejectMethod \/ AcceptMethod PROVE Inv'
  OBVIOUS
<1> USE DEF Inv, specVars, argVars, walkVars
<1>1. CASE RejectMethod
  <2>1. TypeOK'
    BY <1>1 DEF RejectMethod, TypeOK
  <2>2. TrieAgreesWithRoutes'
    BY <1>1, SpecVarsInv DEF RejectMethod
  <2>3. CallSound' /\ SearchSound' /\ RouteSound'
    BY <1>1 DEF RejectMethod, TypeOK, CallSound, SearchSound, RouteSound
  <2>4. QED
    BY <2>1, <2>2, <2>3
<1>2. CASE AcceptMethod
  <2>1. method \in Methods /\ MethodMap[method] \subseteq Methods \cup {BadMethod}
    BY <1>2, RouterAssumption DEF AcceptMethod, TypeOK
  <2>2. TypeOK'
    BY <1>2, <2>1 DEF AcceptMethod, TypeOK
  <2>3. TrieAgreesWithRoutes'
    BY <1>2, SpecVarsInv DEF AcceptMethod
  <2>4. CallSound' /\ SearchSound' /\ RouteSound'
    BY <1>2, <2>1 DEF AcceptMethod, CallSound, SearchSound, RouteSound
  <2>5. QED
    BY <2>2, <2>3, <2>4
<1>3. QED
  BY <1>1, <1>2

(* An attempt that succeeds by the exact lookup (oas_validator_imp.cpp:    *)
(* 211-214).                                                               *)
LEMMA ExactInv == Inv /\ (ExactHit \/ StartSearch) => Inv'
<1> SUFFICES ASSUME Inv, ExactHit \/ StartSearch PROVE Inv'
  OBVIOUS
<1> USE DEF Inv, specVars, argVars, walkVars
<1>1. /\ pc = "exact"
      /\ request \in Path
      /\ cur \in Methods /\ method \in Methods
      /\ routes[cur] \subseteq Paths
  BY RouterAssumption DEF ExactHit, StartSearch, CallSound, TypeOK, Path
<1>2. CASE ExactHit
  <2>1. TypeOK'
    BY <1>1, <1>2 DEF ExactHit, Found, TypeOK
  <2>2. TrieAgreesWithRoutes'
    BY <1>2, SpecVarsInv DEF ExactHit
  <2>3. Serves(request, request)
    BY <1>1 DEF Serves, Fits
  <2>4. CallSound' /\ SearchSound' /\ RouteSound'
    BY <1>1, <1>2, <2>3 DEF ExactHit, Found, CallSound, SearchSound, RouteSound
  <2>5. QED
    BY <2>1, <2>2, <2>4
<1>3. CASE StartSearch
  <2>1. Root \in Seq(Labels) /\ Len(Root) = 0 /\ Root = <<>>
    BY EmptySeq DEF Root
  <2>2. TypeOK'
    <3>1. /\ UNCHANGED <<specVars, argVars, untried, cur, param_idxs, err, validators>>
          /\ pc' = "search" /\ beg' = 1 /\ node' = <<>> /\ oas_path' = <<>>
      BY <1>3, <2>1 DEF StartSearch
    <3>2. beg' \in Nat /\ beg' >= 1 /\ node' \in Seq(Labels) /\ oas_path' \in Seq(Labels)
      BY <2>1, <3>1
    <3>3. QED
      BY <3>1, <3>2 DEF TypeOK
  <2>3. TrieAgreesWithRoutes'
    BY <1>3, SpecVarsInv DEF StartSearch
  <2>4. Root \in DOMAIN trie[cur] /\ Len(Fragments(request)) \in Nat
    BY <1>1, FragmentsProperties, LenProperties DEF TrieAgreesWithRoutes
  <2>5. CallSound' /\ SearchSound' /\ RouteSound'
    BY <1>1, <1>3, <2>1, <2>4 DEF StartSearch, CallSound, SearchSound, RouteSound
  <2>6. QED
    BY <2>2, <2>3, <2>5
<1>4. QED
  BY <1>2, <1>3

(* A step of Search appends one label, the fragment or the label the node  *)
(* remembers (path_trie.cpp:125-137).                                      *)
LEMMA FollowInv == Inv /\ (FollowLiteral \/ FollowParam) => Inv'
<1> SUFFICES ASSUME Inv, FollowLiteral \/ FollowParam PROVE Inv'
  OBVIOUS
<1> USE DEF Inv, specVars, argVars, walkVars
<1> DEFINE F == Fragments(request)
           t == trie[cur]
<1>1. /\ pc = "search" /\ pc' = pc /\ UNCHANGED <<request, method, cur, untried, err, validators>>
      /\ UNCHANGED specVars /\ UNCHANGED collect
      /\ beg <= Len(F) /\ beg' = beg + 1
  BY DEF FollowLiteral, FollowParam, AtFragment
<1>2. /\ request \in Path
      /\ cur \in Methods
      /\ beg \in Nat /\ beg >= 1
      /\ F \in Seq(Labels) /\ Len(F) \in Nat
      /\ dir = F[beg] /\ dir \in Labels
  <2>1. request \in Path /\ cur \in Methods /\ beg \in Nat /\ beg >= 1
    BY <1>1, RouterAssumption DEF CallSound, TypeOK, Path
  <2>2. F \in Seq(Labels) /\ Len(F) \in Nat
    BY <2>1, FragmentsProperties, LenProperties
  <2>3. QED
    BY <1>1, <2>1, <2>2, ElementOfSeq DEF dir
<1>3. /\ DOMAIN t \subseteq Seq(Labels)
      /\ node \in DOMAIN t
      /\ t[node] \in NodeType
      /\ t[node].is_param => t[node].dir \in Params
  BY <1>1, <1>2 DEF TypeOK, SearchSound, TrieAgreesWithRoutes, NodeType
<1>4. \E label \in Labels : /\ oas_path' = Append(oas_path, label)
                            /\ label = F[beg] \/ label \in Params
  <2>1. CASE FollowLiteral
    BY <1>2, <2>1 DEF FollowLiteral
  <2>2. CASE FollowParam
    BY <1>2, <1>3, <2>2 DEF FollowParam, NodeType
  <2>3. QED
    BY <2>1, <2>2
<1>5. node' \in DOMAIN t
  BY <1>2 DEF FollowLiteral, FollowParam, HasChild, FirstChildren
<1>6. DOMAIN param_idxs' \subseteq Nat
  <2>1. CASE FollowLiteral
    BY <2>1 DEF FollowLiteral, TypeOK
  <2>2. CASE FollowParam
    <3>1. \/ param_idxs' = Emplace(param_idxs, t[node].frag_idx, beg)
          \/ param_idxs' = param_idxs
      BY <2>2 DEF FollowParam
    <3>2. t[node].frag_idx \in Nat
      BY <1>3 DEF NodeType
    <3>3. DOMAIN Emplace(param_idxs, t[node].frag_idx, beg) = DOMAIN param_idxs \cup {t[node].frag_idx}
      BY DEF Emplace
    <3>4. DOMAIN param_idxs \subseteq Nat
      BY DEF TypeOK
    <3>5. CASE param_idxs' = Emplace(param_idxs, t[node].frag_idx, beg)
      <4>1. DOMAIN param_idxs' = DOMAIN param_idxs \cup {t[node].frag_idx}
        BY <3>3, <3>5, Zenon
      <4>2. QED
        BY <3>2, <3>4, <4>1
    <3>6. CASE param_idxs' = param_idxs
      BY <3>4, <3>6
    <3>7. QED
      BY <3>1, <3>5, <3>6
  <2>3. QED
    BY <2>1, <2>2
<1>7. PICK label \in Labels : /\ oas_path' = Append(oas_path, label)
                              /\ label = F[beg] \/ label \in Params
  BY <1>4
<1>8. /\ oas_path' \in Seq(Labels)
      /\ Len(oas_path') = Len(oas_path) + 1
      /\ \A i \in 1..Len(oas_path) : oas_path'[i] = oas_path[i]
      /\ oas_path'[Len(oas_path) + 1] = label
  <2>1. oas_path \in Seq(Labels)
    BY DEF TypeOK
  <2>2. QED
    <3>1. /\ Append(oas_path, label) \in Seq(Labels)
          /\ Len(Append(oas_path, label)) = Len(oas_path) + 1
          /\ \A i \in 1..Len(oas_path) : Append(oas_path, label)[i] = oas_path[i]
          /\ Append(oas_path, label)[Len(oas_path) + 1] = label
      BY <2>1, AppendProperties
    <3>2. oas_path' = Append(oas_path, label)
      BY <1>7, Zenon
    <3>3. QED
      BY <3>1, <3>2, Zenon
<1>9. TypeOK'
  <2>1. beg' \in Nat /\ beg' >= 1 /\ node' \in Seq(Labels)
    BY <1>1, <1>2, <1>3, <1>5
  <2>2. QED
    BY <1>1, <1>6, <1>8, <2>1 DEF TypeOK
<1>10. TrieAgreesWithRoutes'
  BY <1>1, SpecVarsInv
<1>11. SearchSound'
  <2>1. /\ Len(oas_path) = beg - 1
        /\ \A j \in 1..(beg - 1) : oas_path[j] = F[j] \/ oas_path[j] \in Params
    BY <1>1 DEF SearchSound
  <2>2. \A j \in 1..beg : oas_path'[j] = F[j] \/ oas_path'[j] \in Params
    BY <1>2, <1>7, <1>8, <2>1
  <2>3. QED
    BY <1>1, <1>2, <1>5, <1>8, <2>1, <2>2 DEF SearchSound
<1>12. CallSound' /\ RouteSound'
  BY <1>1 DEF CallSound, RouteSound
<1>13. QED
  BY <1>9, <1>10, <1>11, <1>12

(* A search that fails, and one that has gone through every fragment: the  *)
(* path it built is as long as the request, so a declared path of that     *)
(* name serves the request (oas_validator_imp.cpp:221-236).                *)
LEMMA SearchEndInv == Inv /\ (NoSuchChild \/ LookUpPath) => Inv'
<1> SUFFICES ASSUME Inv, NoSuchChild \/ LookUpPath PROVE Inv'
  OBVIOUS
<1> USE DEF Inv, specVars, argVars, walkVars
<1>1. /\ pc = "search"
      /\ request \in Path
      /\ cur \in Methods /\ method \in Methods
      /\ routes[cur] \subseteq Paths
  BY RouterAssumption DEF NoSuchChild, LookUpPath, AtFragment, CallSound, TypeOK, Path
<1>2. TrieAgreesWithRoutes'
  BY SpecVarsInv DEF NoSuchChild, LookUpPath
<1>3. CASE NoSuchChild
  <2>1. TypeOK'
    BY <1>3, EmptySeq, Zenon DEF NoSuchChild, NotFound, TypeOK
  <2>2. CallSound' /\ SearchSound' /\ RouteSound'
    BY <1>1, <1>3 DEF NoSuchChild, NotFound, CallSound, SearchSound, RouteSound
  <2>3. QED
    BY <1>2, <2>1, <2>2
<1>4. CASE LookUpPath
  <2> DEFINE F == Fragments(request)
             key == Joined(oas_path)
  <2>1. /\ UNCHANGED <<specVars, argVars, untried, cur, walkVars>>
        /\ \/ key \in routes[cur] /\ Found(key)
           \/ NotFound
    BY <1>4 DEF LookUpPath
  <2>2. ASSUME key \in routes[cur]
        PROVE  Serves(key, request)
    <3>1. /\ F \in Seq(Labels) /\ Len(F) \in Nat
          /\ oas_path \in Seq(Labels) /\ Len(oas_path) \in Nat
      BY <1>1, FragmentsProperties, LenProperties DEF TypeOK
    <3>2. /\ Len(oas_path) = Len(F)
          /\ \A j \in 1..Len(oas_path) : oas_path[j] = F[j] \/ oas_path[j] \in Params
      <4>1. /\ beg \in Nat /\ beg > Len(F) /\ beg <= Len(F) + 1
            /\ Len(oas_path) = beg - 1
            /\ \A j \in 1..(beg - 1) : oas_path[j] = F[j] \/ oas_path[j] \in Params
        BY <1>1, <1>4 DEF LookUpPath, SearchSound, TypeOK
      <4>2. beg - 1 = Len(F)
        BY <3>1, <4>1
      <4>3. QED
        BY <4>1, <4>2
    <3>3. Fits(key, Joined(F))
      <4>1. CASE oas_path = <<>>
        BY <3>1, <3>2, <4>1, EmptySeq DEF Joined, Fits
      <4>2. CASE oas_path # <<>>
        <5>1. F # <<>>
          BY <3>1, <3>2, <4>2, EmptySeq
        <5>2. key = oas_path /\ Joined(F) = F
          BY <4>2, <5>1 DEF Joined
        <5>3. QED
          BY <3>2, <5>2 DEF Fits
      <4>3. QED
        BY <4>1, <4>2
    <3>4. QED
      BY <3>3 DEF Serves
  <2>3. TypeOK'
    <3>1. /\ pc' \in {"done", "mapped"} /\ err' \in {"NONE", "INVALID_ROUTE"}
          /\ validators' \in Paths \cup {<<>>}
      BY <1>1, <2>1 DEF Found, NotFound, TypeOK
    <3>2. QED
      BY <2>1, <3>1 DEF TypeOK
  <2>4. CallSound' /\ SearchSound' /\ RouteSound'
    BY <1>1, <2>1, <2>2 DEF Found, NotFound, CallSound, SearchSound, RouteSound
  <2>5. QED
    BY <1>2, <2>3, <2>4
<1>5. QED
  BY <1>3, <1>4

(* The loop over the mapped methods (oas_validator_imp.cpp:182-196).       *)
LEMMA MappedInv == Inv /\ Mapped => Inv'
<1> SUFFICES ASSUME Inv, Mapped PROVE Inv'
  OBVIOUS
<1> USE DEF Inv, specVars, argVars, walkVars
<1>1. /\ pc = "mapped" /\ err = "INVALID_ROUTE"
      /\ method \in Methods
      /\ untried \subseteq MethodMap[method]
  BY DEF Mapped, MisspeltMapped, NoneMapped, TryMapped, CallSound
<1>2. TrieAgreesWithRoutes'
  BY SpecVarsInv DEF Mapped, MisspeltMapped, NoneMapped, TryMapped
<1>3. CASE MisspeltMapped \/ NoneMapped
  <2>1. TypeOK'
    BY <1>3 DEF MisspeltMapped, NoneMapped, TypeOK
  <2>2. CallSound' /\ SearchSound' /\ RouteSound'
    BY <1>1, <1>3 DEF MisspeltMapped, NoneMapped, CallSound, SearchSound, RouteSound
  <2>3. QED
    BY <1>2, <2>1, <2>2
<1>4. ASSUME NEW m \in Methods, TryMapped(m)
      PROVE  Inv'
  <2>1. TypeOK'
    BY <1>4 DEF TryMapped, TypeOK
  <2>2. m \in MethodMap[method]
    BY <1>1, <1>4 DEF TryMapped
  <2>3. CallSound' /\ SearchSound' /\ RouteSound'
    BY <1>1, <1>4, <2>2 DEF TryMapped, CallSound, SearchSound, RouteSound
  <2>4. QED
    BY <1>2, <2>1, <2>3
<1>5. QED
  BY <1>3, <1>4 DEF Mapped

(* The return of a call keeps the invariant: what is left of it is its     *)
(* caller's (oas_validator_imp.cpp:30-161).                                *)
LEMMA ReturnInv == Inv /\ Return => Inv'
<1> SUFFICES ASSUME Inv, Return PROVE Inv'
  OBVIOUS
<1> USE DEF Inv, specVars
<1>1. TypeOK'
  <2>1. DOMAIN param_idxs' \subseteq Nat
    BY DEF Return, NoIdxs
  <2>2. node' \in Seq(Labels) /\ oas_path' \in Seq(Labels)
    BY EmptySeq, Zenon DEF Return, Root
  <2>3. beg' = 1
    BY Zenon DEF Return
  <2>4. beg' \in Nat /\ beg' >= 1
    BY <2>3
  <2>5. QED
    BY <2>1, <2>2, <2>4, Zenon DEF Return, TypeOK
<1>2. TrieAgreesWithRoutes'
  BY SpecVarsInv DEF Return
<1>3. CallSound' /\ SearchSound' /\ RouteSound'
  BY DEF Return, CallSound, SearchSound, RouteSound
<1>4. QED
  BY <1>1, <1>2, <1>3

(* The invariant is about the variables of the specification alone.        *)
LEMMA StutterInv == Inv /\ UNCHANGED vars => Inv'
<1> SUFFICES ASSUME Inv, UNCHANGED vars PROVE Inv'
  OBVIOUS
<1> USE DEF vars, specVars, argVars, walkVars
<1>1. TypeOK'
  BY DEF Inv, TypeOK
<1>2. TrieAgreesWithRoutes'
  BY SpecVarsInv DEF Inv
<1>3. CallSound' /\ SearchSound' /\ RouteSound'
  BY DEF Inv, CallSound, SearchSound, RouteSound
<1>4. QED
  BY <1>1, <1>2, <1>3 DEF Inv

(* Every step keeps the invariant.                                         *)
THEOREM NextInv == Inv /\ [Next]_vars => Inv'
<1> SUFFICES ASSUME Inv, [Next]_vars PROVE Inv'
  OBVIOUS
<1>1. CASE Load
  BY <1>1, ServeInv, ProcessPathInv DEF Load
<1>2. CASE GetValidators
  BY <1>2, MethodInv, ExactInv, FollowInv, SearchEndInv, MappedInv DEF GetValidators, Attempt
<1>3. CASE Client
  BY <1>3, ReturnInv, CallInv DEF Client
<1>4. CASE UNCHANGED vars
  BY <1>4, StutterInv
<1>5. QED
  BY <1>1, <1>2, <1>3, <1>4 DEF Next

(* The inductive invariant holds in every reachable state.                 *)
THEOREM Invariance == Spec => []Inv
BY InitInv, NextInv, PTL DEF Spec

(* For every document and every method map, the trie a method's requests   *)
(* are searched in holds exactly the prefixes of its declared paths with   *)
(* templates, numbers its nodes by depth, and a search never leaves a      *)
(* parameter node that has no child.                                       *)
THEOREM TrieAgrees == Spec => []TrieAgreesWithRoutes
BY Invariance, PTL DEF Inv

(* For every document, method map and request, a call that reports no      *)
(* error has found validators declared for its method, or one it is mapped *)
(* to, under a path that serves the request.                               *)
THEOREM RouteSoundness == Spec => []RouteSound
BY Invariance, PTL DEF Inv

(* Every variable stays in its type, for every document, method map and    *)
(* request.                                                                *)
THEOREM TypeCorrectness == Spec => []TypeOK
BY Invariance, PTL DEF Inv

-----------------------------------------------------------------------------
(* The positions of path parameters.                                       *)

\* Whatever attempt recorded a fragment index, it did so at its own place.
IdxsInPlace == \A k \in DOMAIN param_idxs : param_idxs[k] = k + 1

\* A search is at a node as deep as it has come, and has recorded the templates
\* it went through, but for the fragments that repeat them.
SearchRecorded ==
    pc = "search" =>
        /\ Len(node) = beg - 1
        /\ collect => \A j \in 1..(beg - 1) : oas_path[j] \in Params =>
             j - 1 \in DOMAIN param_idxs \/ Fragments(request)[j] = oas_path[j]

IdxInv == IdxsInPlace /\ SearchRecorded /\ ParamIdxSound

(* Only the last field of a path can be missing from its fragments.        *)
LEMMA FragmentsLength ==
    ASSUME NEW path \in Path
    PROVE  /\ Len(Fragments(path)) \in Nat /\ Len(Fragments(path)) <= Len(path)
           /\ Len(path) = 1 /\ path[1] = "" => Len(Fragments(path)) = 0
<1>1. Len(path) \in Nat /\ Len(path) > 0
  BY EmptySeq, LenProperties DEF Path
<1>2. CASE path[Len(path)] = ""
  <2> DEFINE s == SubSeq(path, 1, Len(path) - 1)
  <2>1. \A i \in 1..(Len(path) - 1) : path[i] \in Labels
    BY <1>1 DEF Path
  <2>2. Len(path) - 1 \in Int /\ Len(path) - 1 >= 0
    BY <1>1
  <2>3. Len(s) = IF 1 <= Len(path) - 1 THEN (Len(path) - 1) - 1 + 1 ELSE 0
    BY <2>1, <2>2, SubSeqProperties
  <2>4. Fragments(path) = s
    BY <1>2 DEF Fragments
  <2> HIDE DEF s
  <2>5. Len(s) \in Nat /\ Len(s) <= Len(path) /\ (Len(path) = 1 => Len(s) = 0)
    BY <1>1, <2>3
  <2>6. QED
    BY <2>4, <2>5, Zenon
<1>3. CASE path[Len(path)] # ""
  <2>1. Fragments(path) = path
    BY <1>3 DEF Fragments
  <2>2. Len(path) <= Len(path)
    BY <1>1
  <2>3. QED
    BY <1>1, <1>3, <2>1, <2>2, Zenon
<1>4. QED
  BY <1>2, <1>3

(* The index GetPathParamIndices gives a template is that of a fragment    *)
(* which is this template (validators_store.cpp:129-147).                  *)
LEMMA IndicesProperties ==
    ASSUME NEW path \in Path, NEW name \in DOMAIN PathParamIndices(path)
    PROVE  \E j \in 1..Len(Fragments(path)) :
              /\ PathParamIndices(path)[name] = j - 1
              /\ Fragments(path)[j] = name /\ name \in Params
<1> DEFINE f == Fragments(path)
           S == { j \in 1..Len(f) : f[j] = name }
           First(j) == f[j] = name /\ \A k \in 1..(j - 1) : f[k] # name
<1>1. f \in Seq(Labels) /\ Len(f) \in Nat
  BY FragmentsProperties, LenProperties
<1>2. /\ name \in { f[j] : j \in {k \in 1..Len(f) : f[k] \in Params} }
      /\ PathParamIndices(path)[name] = (CHOOSE j \in 1..Len(f) : First(j)) - 1
  BY DEF PathParamIndices
<1>3. PICK i \in 1..Len(f) : f[i] = name /\ name \in Params
  BY <1>2
<1>4. S \in SUBSET Nat /\ S # {}
  BY <1>1, <1>3
<1>5. PICK j \in S : \A k \in S : ~ (<<k, j>> \in OpToRel(<, Nat))
  <2> HIDE DEF S
  <2> QED  BY <1>4, NatLessThanWellFounded, WFMin
<1>6. \A k, m \in Nat : k < m => <<k, m>> \in OpToRel(<, Nat)
  BY Zenon DEF OpToRel
<1>7. \A k \in S : k \in Nat /\ ~ (k < j)
  <2>1. j \in Nat
    BY <1>4
  <2> HIDE DEF S
  <2> QED  BY <1>4, <1>5, <1>6, <2>1, Zenon
<1>8. j \in 1..Len(f) /\ First(j)
  BY <1>1, <1>7
<1>9. (CHOOSE l \in 1..Len(f) : First(l)) \in 1..Len(f) /\ First(CHOOSE l \in 1..Len(f) : First(l))
  <2> HIDE DEF First
  <2> QED  BY <1>8
<1> QED  BY <1>2, <1>3, <1>9

\* No index is up to 0.
LEMMA NothingTo0 == \A j \in 1..0 : FALSE
  OBVIOUS

\* A sequence of one element.
LEMMA Singleton ==
    ASSUME NEW S, NEW e \in S
    PROVE  <<e>> \in Seq(S) /\ Len(<<e>>) = 1 /\ <<e>>[1] = e
  OBVIOUS

(* The empty string has no fragment, and no parameter.                     *)
LEMMA NoIndices ==
    ASSUME NEW e \in Labels, e = ""
    PROVE  DOMAIN PathParamIndices(<<e>>) = {}
<1> DEFINE n == Len(Fragments(<<e>>))
<1>1. <<e>> \in Seq(Labels) /\ Len(<<e>>) = 1 /\ <<e>>[1] = e
  BY Singleton
<1>2. <<e>> \in Path
  BY <1>1, EmptySeq DEF Path
<1>3. n = 0
  BY <1>1, <1>2, FragmentsLength
<1>4. \A name \in DOMAIN PathParamIndices(<<e>>) : \E j \in 1..n : TRUE
  BY <1>2, IndicesProperties
<1> HIDE DEF n
<1>5. \A j \in 1..n : FALSE
  BY <1>3, NothingTo0, Zenon
<1> QED  BY <1>4, <1>5, Zenon

(* A path that was found: the search's, or the request itself.             *)
LEMMA FoundIdx ==
    ASSUME NEW path \in Path,
           \A j \in 1..Len(Fragments(path)) : path[j] \in Params =>
               \/ j - 1 \in DOMAIN param_idxs
               \/ Fragments(request)[j] = path[j],
           IdxsInPlace,
           NEW name \in DOMAIN PathParamIndices(path)
    PROVE  LET idx == PathParamIndices(path)[name]
           IN  \/ idx \in DOMAIN param_idxs /\ param_idxs[idx] = idx + 1
               \/ Fragments(request)[idx + 1] = name
<1>1. PICK j \in 1..Len(Fragments(path)) : /\ PathParamIndices(path)[name] = j - 1
                                           /\ Fragments(path)[j] = name /\ name \in Params
  BY IndicesProperties
<1>2. path[j] = name
  BY <1>1, FragmentsProperties
<1>3. Len(Fragments(path)) \in Nat
  BY FragmentsProperties, LenProperties
<1>4. j \in Nat /\ (j - 1) + 1 = j
  BY <1>1, <1>3
<1> QED  BY <1>1, <1>2, <1>4 DEF IdxsInPlace

(* A step of the search records at its own place (path_trie.cpp:125-137).  *)
LEMMA FollowIdx == Inv /\ IdxInv /\ (FollowLiteral \/ FollowParam) => IdxInv'
<1> SUFFICES ASSUME Inv, IdxInv, FollowLiteral \/ FollowParam PROVE IdxInv'
  OBVIOUS
<1> DEFINE F == Fragments(request)
           t == trie[cur]
<1>1. /\ pc = "search" /\ pc' = "search" /\ UNCHANGED <<request, collect>>
      /\ beg' = beg + 1 /\ beg <= Len(F)
  BY DEF FollowLiteral, FollowParam, AtFragment, argVars
<1>2. /\ beg \in Nat /\ beg >= 1 /\ cur \in Methods
      /\ oas_path \in Seq(Labels) /\ Len(oas_path) = beg - 1
      /\ node \in Seq(Labels) /\ Len(node) = beg - 1
      /\ node \in DOMAIN t /\ t[node].frag_idx = Len(node)
  BY <1>1 DEF Inv, IdxInv, TypeOK, CallSound, SearchSound, SearchRecorded, TrieAgreesWithRoutes
<1>3. PICK label : /\ oas_path' = Append(oas_path, label)
                   /\ \/ label = dir /\ param_idxs' = param_idxs
                      \/ ~collect /\ param_idxs' = param_idxs
                      \/ param_idxs' = Emplace(param_idxs, beg - 1, beg)
  BY <1>2 DEF FollowLiteral, FollowParam
<1>4. /\ DOMAIN Emplace(param_idxs, beg - 1, beg) = DOMAIN param_idxs \cup {beg - 1}
      /\ \A k \in DOMAIN param_idxs \cup {beg - 1} :
            Emplace(param_idxs, beg - 1, beg)[k] = IF k \in DOMAIN param_idxs THEN param_idxs[k] ELSE beg
  BY Zenon DEF Emplace
<1>5. IdxsInPlace'
  <2>1. CASE param_idxs' = param_idxs
    BY <2>1 DEF IdxInv, IdxsInPlace
  <2>2. CASE param_idxs' = Emplace(param_idxs, beg - 1, beg)
    <3>1. \A k \in DOMAIN param_idxs' : k \in DOMAIN param_idxs => param_idxs'[k] = param_idxs[k]
      BY <1>4, <2>2
    <3>2. \A k \in DOMAIN param_idxs' : k \notin DOMAIN param_idxs => k = beg - 1 /\ param_idxs'[k] = beg
      BY <1>4, <2>2
    <3> QED  BY <1>2, <3>1, <3>2 DEF IdxInv, IdxsInPlace
  <2> QED  BY <1>3, <2>1, <2>2
<1>6. DOMAIN param_idxs \subseteq DOMAIN param_idxs'
  BY <1>3, <1>4
<1>7. SearchRecorded'
  <2>1. Len(node') = beg
    <3>1. PICK l : node' = Child(node, l)
      BY DEF FollowLiteral, FollowParam, FirstChildren
    <3> QED  BY <1>2, <3>1 DEF Child
  <2>2. ASSUME collect', NEW j \in 1..beg, oas_path'[j] \in Params
        PROVE  j - 1 \in DOMAIN param_idxs' \/ F[j] = oas_path'[j]
    <3>1. CASE j = beg
      <4>1. oas_path'[j] = label
        BY <1>2, <1>3, <3>1
      <4>2. dir = F[j]
        BY <3>1 DEF dir
      <4> QED  BY <1>1, <1>3, <1>4, <2>2, <3>1, <4>1, <4>2
    <3>2. CASE j # beg
      <4>1. j \in 1..(beg - 1) /\ oas_path'[j] = oas_path[j]
        BY <1>2, <1>3, <3>2
      <4> QED  BY <1>1, <1>6, <2>2, <4>1 DEF IdxInv, SearchRecorded
    <3> QED  BY <3>1, <3>2
  <2> QED  BY <1>1, <1>2, <2>1, <2>2 DEF SearchRecorded
<1> QED  BY <1>1, <1>5, <1>7 DEF IdxInv, ParamIdxSound

(* What is found has its indices, by the exact lookup or by the search     *)
(* (oas_validator_imp.cpp:213, 234).                                       *)
LEMMA FoundKeepsIdx == Inv /\ IdxInv /\ (ExactHit \/ LookUpPath) => IdxInv'
<1> SUFFICES ASSUME Inv, IdxInv, ExactHit \/ LookUpPath PROVE IdxInv'
  OBVIOUS
<1>1. /\ UNCHANGED <<request, collect, param_idxs, oas_path>>
      /\ pc' \in {"done", "mapped"} /\ pc \in {"exact", "search"}
      /\ request \in Path
  BY RouterAssumption DEF ExactHit, LookUpPath, Found, NotFound, Inv, CallSound, argVars, walkVars, Path
<1>2. CASE pc' = "mapped"
  BY <1>1, <1>2 DEF IdxInv, IdxsInPlace, SearchRecorded, ParamIdxSound
<1>3. CASE pc' = "done" /\ validators' = request
  <2>1. \A j \in 1..Len(Fragments(request)) : Fragments(request)[j] = request[j]
    BY <1>1, FragmentsProperties
  <2>2. ASSUME NEW name \in DOMAIN PathParamIndices(request)
        PROVE  LET idx == PathParamIndices(request)[name]
               IN  \/ idx \in DOMAIN param_idxs /\ param_idxs[idx] = idx + 1
                   \/ Fragments(request)[idx + 1] = name
    BY <1>1, <2>1, FoundIdx DEF IdxInv
  <2> QED  BY <1>1, <1>3, <2>2 DEF IdxInv, IdxsInPlace, SearchRecorded, ParamIdxSound
<1>4. CASE /\ pc' = "done" /\ validators' = Joined(oas_path)
           /\ pc = "search" /\ beg > Len(Fragments(request))
  <2>1. /\ oas_path \in Seq(Labels) /\ Len(oas_path) = beg - 1 /\ beg \in Nat
        /\ collect => \A j \in 1..(beg - 1) : oas_path[j] \in Params =>
              j - 1 \in DOMAIN param_idxs \/ Fragments(request)[j] = oas_path[j]
    BY <1>4 DEF Inv, IdxInv, TypeOK, SearchSound, SearchRecorded
  <2>2. CASE oas_path = <<>>
    <3>1. validators' = <<"">>
      BY <1>4, <2>2 DEF Joined
    <3>2. "" \in Labels
      BY LabelsAssumption DEF Labels
    <3>3. DOMAIN PathParamIndices(<<"">>) = {}
      BY <3>2, NoIndices
    <3> QED  BY <1>1, <1>4, <3>1, <3>3 DEF IdxInv, IdxsInPlace, SearchRecorded, ParamIdxSound
  <2>3. CASE oas_path # <<>>
    <3>1. validators' = oas_path /\ oas_path \in Path
      BY <1>4, <2>1, <2>3 DEF Joined, Path
    <3>2. \A j \in 1..Len(Fragments(oas_path)) : j \in 1..(beg - 1)
      <4>1. Len(oas_path) \in Nat /\ Len(Fragments(oas_path)) \in Nat
        BY <3>1, FragmentsLength, LenProperties DEF Path
      <4>2. Len(Fragments(oas_path)) <= Len(oas_path)
        BY <3>1, FragmentsLength
      <4> QED  BY <2>1, <4>1, <4>2
    <3>3. ASSUME collect, NEW name \in DOMAIN PathParamIndices(oas_path)
          PROVE  LET idx == PathParamIndices(oas_path)[name]
                 IN  \/ idx \in DOMAIN param_idxs /\ param_idxs[idx] = idx + 1
                     \/ Fragments(request)[idx + 1] = name
      BY <2>1, <3>1, <3>2, <3>3, FoundIdx DEF IdxInv
    <3> QED  BY <1>1, <1>4, <3>1, <3>3 DEF IdxInv, IdxsInPlace, SearchRecorded, ParamIdxSound
  <2> QED  BY <2>2, <2>3
<1> QED  BY <1>1, <1>2, <1>3, <1>4 DEF ExactHit, LookUpPath, Found, NotFound

(* All other steps record nothing, and what they return is an error.       *)
LEMMA OthersKeepIdx ==
    ASSUME Inv, IdxInv,
           \/ Load \/ RejectMethod \/ AcceptMethod \/ StartSearch \/ NoSuchChild \/ Mapped
           \/ Client \/ UNCHANGED vars
    PROVE  IdxInv'
<1> USE DEF specVars, argVars, walkVars
<1>1. CASE Load \/ UNCHANGED vars
  BY <1>1 DEF Load, Serve, ProcessPath, vars, IdxInv, IdxsInPlace, SearchRecorded, ParamIdxSound
<1>2. CASE RejectMethod \/ AcceptMethod
  BY <1>2 DEF RejectMethod, AcceptMethod, IdxInv, IdxsInPlace, SearchRecorded, ParamIdxSound
<1>3. CASE StartSearch
  <2>1. /\ pc' = "search" /\ beg' = 1 /\ node' = <<>> /\ param_idxs' = param_idxs
    BY <1>3 DEF StartSearch, Root
  <2>2. Len(node') = beg' - 1 /\ 1..(beg' - 1) = {}
    BY <2>1
  <2> QED  BY <2>1, <2>2 DEF IdxInv, IdxsInPlace, SearchRecorded, ParamIdxSound
<1>4. CASE NoSuchChild
  BY <1>4 DEF NoSuchChild, NotFound, IdxInv, IdxsInPlace, SearchRecorded, ParamIdxSound
<1>5. CASE Mapped
  <2>1. pc = "mapped" /\ err = "INVALID_ROUTE" /\ err' = err /\ param_idxs' = param_idxs /\ pc' # "search"
    BY <1>5 DEF Mapped, MisspeltMapped, NoneMapped, TryMapped, Inv, CallSound
  <2> QED  BY <2>1 DEF IdxInv, IdxsInPlace, SearchRecorded, ParamIdxSound
<1>6. CASE Return
  <2>1. pc' = "idle" /\ param_idxs' = NoIdxs
    BY <1>6 DEF Return
  <2> QED  BY <2>1 DEF NoIdxs, IdxInv, IdxsInPlace, SearchRecorded, ParamIdxSound
<1>7. CASE \E m \in Methods \cup {BadMethod}, r \in Requests, c \in BOOLEAN : Call(m, r, c)
  BY <1>7 DEF Call, IdxInv, IdxsInPlace, SearchRecorded, ParamIdxSound
<1> QED  BY <1>1, <1>2, <1>3, <1>4, <1>5, <1>6, <1>7 DEF Client

(* For every document, method map and request, the parameters of the path  *)
(* a call has found are bound to the fragments at their own places         *)
(* (path_trie.cpp:125-137, validators_store.cpp:47-60).                    *)
THEOREM ParametersInPlace == Spec => []ParamIdxSound
<1>1. Init => IdxInv
  <2> SUFFICES ASSUME Init PROVE IdxInv
    OBVIOUS
  <2>1. pc = "idle" /\ param_idxs = NoIdxs
    BY DEF Init
  <2> QED  BY <2>1 DEF NoIdxs, IdxInv, IdxsInPlace, SearchRecorded, ParamIdxSound
<1>2. Inv /\ IdxInv /\ [Next]_vars => IdxInv'
  BY FollowIdx, FoundKeepsIdx, OthersKeepIdx DEF Next, GetValidators, Attempt
<1>3. IdxInv => ParamIdxSound
  BY DEF IdxInv
<1> QED  BY <1>1, <1>2, <1>3, Invariance, PTL DEF Spec

-----------------------------------------------------------------------------
(* The router implements RouteSpec.                                        *)

\* Insert marked every node that a declared template leaves.
ParamsMarked ==
    \A m \in Methods : \A p \in {q \in routes[m] : HasPathParam(q)} :
        \A j \in 1..Len(Fragments(p)) :
            Fragments(p)[j] \in Params => trie[m][SubSeq(Fragments(p), 1, j - 1)].is_param

\* A search goes along every path the request is bound to reach; only the node
\* of the last label may be another child.
SearchCertain ==
    pc = "search" =>
        /\ request \notin routes[cur]
        /\ \A p \in Certain(routes[cur], request) :
              /\ oas_path = SubSeq(p, 1, beg - 1)
              /\ beg <= Len(p) => node = SubSeq(p, 1, beg - 1)

\* The methods that a call has given up have no path it is bound to reach.
TriedUncertain ==
    pc \in {"exact", "search", "mapped"} =>
        \A m \in ({method} \cup MethodMap[method]) \ (untried \cup {BadMethod}) :
            m # cur \/ pc = "mapped" => Certain(routes[m], request) = {}

\* The answer is one that RouteSpec allows.
AnswerCertain ==
    pc = "done" =>
        \/ method = BadMethod /\ err = "INVALID_METHOD"
        \/ /\ method \in Methods /\ err = "NONE" /\ cur \in Methods
           /\ Certain(routes[method], request) # {} =>
                cur = method /\ validators \in Certain(routes[method], request)
        \/ /\ method \in Methods /\ err = "INVALID_ROUTE"
           /\ Certain(routes[method], request) = {}
           /\ \/ BadMethod \in MethodMap[method]
              \/ \A m \in MethodMap[method] : Certain(routes[m], request) = {}

BoundInv == ParamsMarked /\ SearchCertain /\ TriedUncertain /\ AnswerCertain

(* The nodes on the way of a path (path_trie.cpp:58-76).                   *)
LEMMA Prefixes ==
    ASSUME NEW f \in Seq(Labels), NEW j \in 1..(Len(f) + 1)
    PROVE  /\ SubSeq(f, 1, j - 1) \in WalkNodes(f)
           /\ SubSeq(f, 1, j - 1) \in Seq(Labels)
           /\ Len(SubSeq(f, 1, j - 1)) = j - 1
<1>1. Len(f) \in Nat /\ j - 1 \in 0..Len(f)
  BY LenProperties
<1> QED  BY <1>1 DEF WalkNodes

(* A field that the fragments hold comes after the same fields as in the   *)
(* path (common.hpp:110-116).                                              *)
LEMMA FragmentPrefixes ==
    ASSUME NEW path \in Path, NEW j \in 1..Len(Fragments(path))
    PROVE  SubSeq(Fragments(path), 1, j - 1) = SubSeq(path, 1, j - 1)
<1>1. /\ Fragments(path) \in Seq(Labels) /\ path \in Seq(Labels)
      /\ Len(Fragments(path)) \in Nat /\ Len(path) \in Nat
      /\ Len(Fragments(path)) <= Len(path)
      /\ \A i \in 1..Len(Fragments(path)) : Fragments(path)[i] = path[i]
  BY FragmentsProperties, FragmentsLength, LenProperties DEF Path
<1> HIDE DEF Path
<1> QED  BY <1>1

(* Insert marks the nodes that the templates of its path leave, and        *)
(* unmarks none (path_trie.cpp:63-66).                                     *)
LEMMA InsertMarks ==
    ASSUME NEW t, TrieType(t), NEW path \in Path
    PROVE  /\ \A n \in DOMAIN t : t[n].is_param => Insert(t, path)[n].is_param
           /\ \A j \in 1..Len(Fragments(path)) : Fragments(path)[j] \in Params =>
                 Insert(t, path)[SubSeq(Fragments(path), 1, j - 1)].is_param
<1> DEFINE f == Fragments(path)
           u == Insert(t, path)
           old(n) == IF n \in DOMAIN t THEN t[n] ELSE NewNode(Len(n))
<1>1. f \in Seq(Labels) /\ Len(f) \in Nat
  BY FragmentsProperties, LenProperties
<1>2. /\ DOMAIN u = DOMAIN t \cup WalkNodes(f)
      /\ \A n \in DOMAIN u : u[n] = MarkParam(f, n, old(n))
  BY DEF Insert
<1>3. ASSUME NEW n \in DOMAIN t, t[n].is_param
      PROVE  u[n].is_param
  <2>1. u[n] = MarkParam(f, n, t[n])
    BY <1>2
  <2> QED  BY <1>3, <2>1 DEF MarkParam
<1>4. ASSUME NEW j \in 1..Len(f), f[j] \in Params
      PROVE  u[SubSeq(f, 1, j - 1)].is_param
  <2> DEFINE n == SubSeq(f, 1, j - 1)
  <2>1. n \in WalkNodes(f) /\ Len(n) = j - 1
    BY <1>1, Prefixes
  <2>2. OnWalk(f, n) /\ f[Len(n) + 1] \in Params
    BY <1>1, <1>4, <2>1 DEF OnWalk
  <2> HIDE DEF n
  <2>3. u[n] = MarkParam(f, n, old(n))
    BY <1>2, <2>1
  <2>4. u[n].is_param
    BY <2>2, <2>3 DEF MarkParam
  <2> QED  BY <2>4 DEF n
<1> QED  BY <1>3, <1>4

(* A node has a child only on the way of a declared path                   *)
(* (path_trie.cpp:50-77).                                                  *)
LEMMA ChildIsDeclared ==
    ASSUME TrieAgreesWithRoutes, NEW m \in Methods, routes[m] \subseteq Path,
           NEW n \in Seq(Labels), NEW label \in Labels, HasChild(trie[m], n, label)
    PROVE  \E q \in routes[m] : /\ HasPathParam(q)
                                /\ Len(n) < Len(Fragments(q))
                                /\ n = SubSeq(q, 1, Len(n))
                                /\ label = q[Len(n) + 1]
<1>1. Len(n) \in Nat /\ Child(n, label) # Root
  BY LenProperties DEF Child, Root
<1>2. PICK q \in routes[m] : HasPathParam(q) /\ Child(n, label) \in WalkNodes(Fragments(q))
  BY <1>1 DEF TrieAgreesWithRoutes, HasChild
<1> DEFINE f == Fragments(q)
<1>3. /\ f \in Seq(Labels) /\ Len(f) \in Nat
      /\ \A j \in 1..Len(f) : f[j] = q[j]
  BY FragmentsProperties, LenProperties
<1>4. PICK k \in 0..Len(f) : Append(n, label) = SubSeq(f, 1, k)
  BY <1>2 DEF WalkNodes, Child
<1> HIDE DEF f
<1>5. k = Len(n) + 1 /\ f[k] = label /\ n = SubSeq(f, 1, Len(n))
  BY <1>1, <1>3, <1>4
<1>6. SubSeq(f, 1, k - 1) = SubSeq(q, 1, k - 1)
  <2>1. k \in 1..Len(f) /\ q \in Path
    BY <1>1, <1>4, <1>5
  <2> QED  BY <2>1, FragmentPrefixes DEF f
<1>7. k - 1 = Len(n) /\ Len(n) < Len(f) /\ k \in 1..Len(f)
  BY <1>1, <1>3, <1>4, <1>5
<1>8. n = SubSeq(q, 1, Len(n))
  BY <1>5, <1>6, <1>7
<1>9. label = q[Len(n) + 1]
  BY <1>3, <1>5, <1>7
<1> QED  BY <1>2, <1>7, <1>8, <1>9 DEF f

(* A declared path with templates has all its nodes.                       *)
LEMMA DeclaredHasNodes ==
    ASSUME TrieAgreesWithRoutes, NEW m \in Methods, NEW p \in routes[m], p \in Path,
           HasPathParam(p), NEW j \in 1..(Len(Fragments(p)) + 1)
    PROVE  SubSeq(Fragments(p), 1, j - 1) \in DOMAIN trie[m]
BY FragmentsProperties, Prefixes DEF TrieAgreesWithRoutes

(* Where a search stands on the way of a path the request is bound to      *)
(* reach: it cannot leave it (path_trie.cpp:86-101).                       *)
LEMMA AtCertain ==
    ASSUME Inv, BoundInv, AtFragment, NEW p \in Certain(routes[cur], request)
    PROVE  /\ p \in routes[cur] /\ p \in Path /\ HasPathParam(p)
           /\ Fragments(p) = p /\ Len(p) = Len(Fragments(request))
           /\ node = SubSeq(p, 1, beg - 1) /\ oas_path = SubSeq(p, 1, beg - 1)
           /\ beg \in 1..Len(p)
           /\ HasChild(trie[cur], node, p[beg])
           /\ p[beg] \in Params => trie[cur][node].is_param
           /\ p[beg] \notin Params => p[beg] = dir
           /\ \A label \in Labels :
                 p[beg] \in Params /\ HasChild(trie[cur], node, label) /\ label # p[beg] =>
                     beg = Len(p) /\ label \notin Params /\ label # dir
<1> DEFINE F == Fragments(request)
<1>1. /\ request \in Path /\ cur \in Methods /\ routes[cur] \subseteq Path
      /\ beg \in Nat /\ beg >= 1 /\ TrieAgreesWithRoutes
      /\ pc = "search" /\ beg <= Len(F) /\ request \notin routes[cur]
      /\ F \in Seq(Labels) /\ Len(F) \in Nat
  <2>1. /\ pc = "search" /\ beg <= Len(F) /\ cur \in Methods /\ request \in Requests
    BY DEF AtFragment, Inv, CallSound
  <2>2. request \in Path
    BY <2>1, RouterAssumption DEF Path
  <2>3. routes[cur] \subseteq Path
    BY <2>1, RouterAssumption DEF Inv, TypeOK, Path
  <2>4. request \notin routes[cur]
    BY <2>1 DEF BoundInv, SearchCertain
  <2>5. F \in Seq(Labels) /\ Len(F) \in Nat
    BY <2>2, FragmentsProperties, LenProperties
  <2> QED  BY <2>1, <2>2, <2>3, <2>4, <2>5 DEF Inv, TypeOK
<1>2. /\ p \in routes[cur] /\ HasPathParam(p) /\ p[Len(p)] # ""
      /\ Fits(p, F) /\ Unambiguous(routes[cur], p, F)
  BY <1>1 DEF Certain
<1>3. p \in Path /\ Fragments(p) = p /\ Len(p) = Len(F)
  BY <1>1, <1>2 DEF Fragments, Fits
<1>4. beg \in 1..Len(p) /\ node = SubSeq(p, 1, beg - 1) /\ oas_path = SubSeq(p, 1, beg - 1)
  BY <1>1, <1>3 DEF BoundInv, SearchCertain
<1>5. p \in Seq(Labels) /\ p[beg] \in Labels /\ Len(node) = beg - 1 /\ node \in Seq(Labels)
  <2>1. p \in Seq(Labels)
    BY <1>3 DEF Path
  <2> QED  BY <1>4, <2>1, Prefixes, ElementOfSeq
<1>6. HasChild(trie[cur], node, p[beg])
  <2>1. Append(node, p[beg]) = SubSeq(p, 1, beg)
    BY <1>4, <1>5
  <2>2. beg + 1 \in 1..(Len(p) + 1) /\ (beg + 1) - 1 = beg
    BY <1>1, <1>4
  <2>3. SubSeq(p, 1, (beg + 1) - 1) \in DOMAIN trie[cur]
    BY <1>1, <1>2, <1>3, <2>2, DeclaredHasNodes
  <2> QED  BY <2>1, <2>2, <2>3 DEF HasChild, Child
<1>7. ASSUME p[beg] \in Params
      PROVE  trie[cur][node].is_param
  BY <1>1, <1>2, <1>3, <1>4, <1>7 DEF BoundInv, ParamsMarked
<1>8. p[beg] \notin Params => p[beg] = dir
  BY <1>2, <1>4 DEF Fits, dir
<1>9. ASSUME NEW label \in Labels,
             p[beg] \in Params, HasChild(trie[cur], node, label), label # p[beg]
      PROVE  beg = Len(p) /\ label \notin Params /\ label # dir
  <2>1. PICK q \in routes[cur] : /\ HasPathParam(q) /\ Len(node) < Len(Fragments(q))
                                 /\ node = SubSeq(q, 1, Len(node)) /\ label = q[Len(node) + 1]
    BY <1>1, <1>5, <1>9, ChildIsDeclared, SMTT(30)
  <2>2. Len(Fragments(q)) \in Nat
    BY <1>1, FragmentsLength
  <2>3. beg <= Len(Fragments(q)) /\ q[beg] = label /\ SubSeq(q, 1, beg - 1) = SubSeq(p, 1, beg - 1)
    <3>1. Len(node) + 1 = beg
      BY <1>1, <1>5
    <3> QED  BY <1>1, <1>4, <1>5, <2>1, <2>2, <3>1
  <2>4. Fork(p, q, beg)
    BY <1>9, <2>3 DEF Fork
  <2> QED  BY <1>2, <1>4, <1>9, <2>1, <2>3, <2>4 DEF Unambiguous, dir
<1> QED  BY <1>1, <1>2, <1>3, <1>4, <1>6, <1>7, <1>8, <1>9

(* The fragment a search is at is a field of the request.                  *)
LEMMA DirIsLabel ==
    ASSUME Inv, AtFragment
    PROVE  dir \in Labels
<1>1. request \in Path /\ beg \in Nat /\ beg >= 1 /\ beg <= Len(Fragments(request))
  BY RouterAssumption DEF Inv, CallSound, TypeOK, AtFragment, Path
<1>2. Fragments(request) \in Seq(Labels)
  BY <1>1, FragmentsProperties
<1> QED  BY <1>1, <1>2, ElementOfSeq DEF dir

(* A step of the search stays on that way (path_trie.cpp:125-137).         *)
LEMMA FollowCertain ==
    ASSUME Inv, BoundInv, FollowLiteral \/ FollowParam
    PROVE  BoundInv'
<1>1. /\ AtFragment /\ pc = "search" /\ beg \in Nat /\ cur \in Methods
      /\ UNCHANGED <<routes, trie, cur, request, method, untried, pc>> /\ beg' = beg + 1
  BY DEF FollowLiteral, FollowParam, AtFragment, specVars, argVars, Inv, TypeOK, CallSound
<1>2. ASSUME NEW p \in Certain(routes[cur], request)
      PROVE  /\ oas_path' = SubSeq(p, 1, beg' - 1)
             /\ beg' <= Len(p) => node' = SubSeq(p, 1, beg' - 1)
  <2> DEFINE n == SubSeq(p, 1, beg - 1)
  <2>1. /\ p \in Seq(Labels) /\ beg \in 1..Len(p) /\ node = n /\ oas_path = n
        /\ HasChild(trie[cur], n, p[beg])
        /\ p[beg] \in Params => trie[cur][n].is_param
        /\ p[beg] \notin Params => p[beg] = dir
        /\ \A label \in Labels :
              p[beg] \in Params /\ HasChild(trie[cur], n, label) /\ label # p[beg] =>
                  beg = Len(p) /\ label \notin Params /\ label # dir
    BY <1>1, AtCertain DEF Path
  <2>2. Append(n, p[beg]) = SubSeq(p, 1, beg)
    BY <2>1
  <2> HIDE DEF n
  <2>3. CASE FollowLiteral
    <3>1. HasChild(trie[cur], n, dir) /\ oas_path' = Append(n, dir) /\ node' = Append(n, dir)
      BY <2>1, <2>3 DEF FollowLiteral, Child
    <3>2. dir \in Labels
      BY <1>1, DirIsLabel
    <3>3. dir = p[beg]
      BY <2>1, <3>1, <3>2
    <3> QED  BY <1>1, <2>2, <3>1, <3>3
  <2>4. CASE FollowParam
    <3>1. /\ ~HasChild(trie[cur], n, dir) /\ trie[cur][n].is_param
          /\ oas_path' = Append(n, trie[cur][n].dir)
          /\ node' \in FirstChildren(trie[cur], n)
      BY <2>1, <2>4 DEF FollowParam
    <3>2. p[beg] \in Params
      BY <2>1, <3>1
    <3>3. trie[cur][n].dir \in Params /\ HasChild(trie[cur], n, trie[cur][n].dir)
      <4>1. n \in DOMAIN trie[cur]
        BY <1>1, <2>1 DEF Inv, SearchSound
      <4> QED  BY <1>1, <3>1, <4>1 DEF Inv, TrieAgreesWithRoutes
    <3>4. trie[cur][n].dir = p[beg]
      BY <2>1, <3>2, <3>3 DEF Labels
    <3>5. PICK label \in Labels : HasChild(trie[cur], n, label) /\ node' = Append(n, label)
      BY <3>1 DEF FirstChildren, Child
    <3>6. beg' <= Len(p) => label = p[beg]
      BY <1>1, <2>1, <3>2, <3>5
    <3> QED  BY <1>1, <2>2, <3>1, <3>4, <3>5, <3>6
  <2> QED  BY <2>3, <2>4
<1>3. SearchCertain'
  BY <1>1, <1>2 DEF SearchCertain, BoundInv
<1> QED  BY <1>1, <1>3 DEF BoundInv, ParamsMarked, TriedUncertain, AnswerCertain

(* A search that fails, at a node or at the lookup of the path it built,   *)
(* was bound to reach none (path_trie.cpp:94-96, oas_validator_imp.cpp:    *)
(* 221-236).                                                               *)
LEMMA SearchEndCertain ==
    ASSUME Inv, BoundInv, NoSuchChild \/ LookUpPath
    PROVE  BoundInv'
<1>1. /\ pc = "search" /\ cur \in Methods /\ method \in Methods
      /\ cur \in {method} \cup MethodMap[method]
      /\ UNCHANGED <<routes, trie, cur, request, method, untried>>
      /\ request \in Path
  <2>1. pc = "search" /\ UNCHANGED <<routes, trie, cur, request, method, untried>>
    BY DEF NoSuchChild, LookUpPath, AtFragment, specVars, argVars
  <2> QED  BY <2>1, RouterAssumption DEF Inv, CallSound, Path
<1>2. \A m \in ({method} \cup MethodMap[method]) \ (untried \cup {BadMethod}) :
         m # cur => Certain(routes[m], request) = {}
  BY <1>1 DEF BoundInv, TriedUncertain
<1>3. CASE pc' = "mapped" /\ Certain(routes[cur], request) = {}
  BY <1>1, <1>2, <1>3 DEF BoundInv, ParamsMarked, SearchCertain, TriedUncertain, AnswerCertain
<1>4. CASE NoSuchChild
  <2>1. AtFragment /\ ~HasChild(trie[cur], node, dir) /\ ~trie[cur][node].is_param /\ pc' = "mapped"
    BY <1>4 DEF NoSuchChild, NotFound
  <2>2. Certain(routes[cur], request) = {}
    BY <2>1, AtCertain
  <2> QED  BY <1>3, <2>1, <2>2
<1>5. CASE LookUpPath
  <2>1. beg = Len(Fragments(request)) + 1 /\ Len(Fragments(request)) \in Nat
    <3>1. Len(Fragments(request)) \in Nat
      BY <1>1, FragmentsLength
    <3>2. beg \in Nat /\ beg > Len(Fragments(request)) /\ beg <= Len(Fragments(request)) + 1
      BY <1>1, <1>5 DEF LookUpPath, Inv, SearchSound, TypeOK
    <3> QED  BY <3>1, <3>2
  <2>2. ASSUME NEW p \in Certain(routes[cur], request)
        PROVE  p \in routes[cur] /\ Joined(oas_path) = p
    <3>1. /\ request \notin routes[cur] /\ oas_path = SubSeq(p, 1, beg - 1)
      BY <1>1 DEF BoundInv, SearchCertain
    <3>2. p \in routes[cur] /\ Len(p) = Len(Fragments(request))
      BY <3>1 DEF Certain, Fits
    <3>3. p \in Seq(Labels) /\ p # <<>>
      BY <1>1, <3>2, RouterAssumption DEF Inv, TypeOK
    <3>4. oas_path = p
      BY <2>1, <3>1, <3>2, <3>3
    <3> QED  BY <3>2, <3>3, <3>4 DEF Joined
  <2>3. CASE Joined(oas_path) \in routes[cur]
    <3>1. /\ pc' = "done" /\ err' = "NONE" /\ validators' = Joined(oas_path)
      BY <1>5, <2>3 DEF LookUpPath, Found
    <3>2. method \in untried => FALSE
      BY <1>1, RouterAssumption DEF Inv, CallSound
    <3>3. Certain(routes[method], request) # {} =>
             cur = method /\ validators' \in Certain(routes[method], request)
      BY <1>1, <1>2, <2>2, <3>1, <3>2, RouterAssumption
    <3> QED  BY <1>1, <3>1, <3>3 DEF BoundInv, ParamsMarked, SearchCertain, TriedUncertain, AnswerCertain
  <2>4. CASE Joined(oas_path) \notin routes[cur]
    <3>1. pc' = "mapped"
      BY <1>5, <2>4 DEF LookUpPath, NotFound
    <3> QED  BY <1>3, <2>2, <2>4, <3>1
  <2> QED  BY <2>3, <2>4
<1> QED  BY <1>4, <1>5

(* An attempt begins with the exact lookup, which decides the call, or     *)
(* with a search at the root (oas_validator_imp.cpp:211-221).              *)
LEMMA ExactCertain ==
    ASSUME Inv, BoundInv, ExactHit \/ StartSearch
    PROVE  BoundInv'
<1>1. /\ pc = "exact" /\ cur \in Methods /\ method \in Methods
      /\ cur \in {method} \cup MethodMap[method]
      /\ UNCHANGED <<routes, trie, cur, request, method, untried>>
      /\ method \notin untried /\ method # BadMethod
  <2>1. pc = "exact" /\ UNCHANGED <<routes, trie, cur, request, method, untried>>
    BY DEF ExactHit, StartSearch, specVars, argVars
  <2> QED  BY <2>1, RouterAssumption DEF Inv, CallSound
<1>2. \A m \in ({method} \cup MethodMap[method]) \ (untried \cup {BadMethod}) :
         m # cur => Certain(routes[m], request) = {}
  BY <1>1 DEF BoundInv, TriedUncertain
<1>3. CASE ExactHit
  <2>1. /\ pc' = "done" /\ err' = "NONE" /\ validators' = request /\ request \in routes[cur]
    BY <1>3 DEF ExactHit, Found
  <2>2. Certain(routes[cur], request) = {request}
    BY <2>1 DEF Certain
  <2>3. Certain(routes[method], request) # {} =>
           cur = method /\ validators' \in Certain(routes[method], request)
    BY <1>1, <1>2, <2>1, <2>2
  <2> QED  BY <1>1, <2>1, <2>3 DEF BoundInv, ParamsMarked, SearchCertain, TriedUncertain, AnswerCertain
<1>4. CASE StartSearch
  <2>1. /\ pc' = "search" /\ beg' = 1 /\ node' = <<>> /\ oas_path' = <<>>
        /\ request \notin routes[cur]
    BY <1>4 DEF StartSearch, Root
  <2>2. \A p \in Paths : SubSeq(p, 1, beg' - 1) = <<>>
    BY <2>1, RouterAssumption
  <2>3. Certain(routes[cur], request) \subseteq Paths
    BY <1>1, <2>1 DEF Certain, Inv, TypeOK
  <2>4. SearchCertain'
    BY <1>1, <2>1, <2>2, <2>3 DEF SearchCertain
  <2> QED  BY <1>1, <1>2, <2>1, <2>4 DEF BoundInv, ParamsMarked, TriedUncertain, AnswerCertain
<1> QED  BY <1>3, <1>4

(* The loop over the mapped methods gives up a method only after its       *)
(* attempt, and tries the method itself first (oas_validator_imp.cpp:      *)
(* 178-205).                                                               *)
LEMMA MappedCertain ==
    ASSUME Inv, BoundInv, RejectMethod \/ AcceptMethod \/ Mapped
    PROVE  BoundInv'
<1> USE DEF specVars, argVars, walkVars
<1>1. UNCHANGED <<routes, trie, request, method>>
  BY DEF RejectMethod, AcceptMethod, Mapped, MisspeltMapped, NoneMapped, TryMapped
<1>2. ParamsMarked'
  BY <1>1 DEF BoundInv, ParamsMarked
<1>3. CASE RejectMethod
  BY <1>2, <1>3 DEF RejectMethod, BoundInv, SearchCertain, TriedUncertain, AnswerCertain
<1>4. CASE AcceptMethod
  BY <1>1, <1>2, <1>4 DEF AcceptMethod, BoundInv, SearchCertain, TriedUncertain, AnswerCertain
<1>5. CASE Mapped
  <2>1. /\ pc = "mapped" /\ err = "INVALID_ROUTE" /\ err' = err /\ method \in Methods
        /\ method \notin untried /\ method # BadMethod /\ untried \subseteq MethodMap[method]
        /\ \A m \in ({method} \cup MethodMap[method]) \ (untried \cup {BadMethod}) :
              Certain(routes[m], request) = {}
    <3>1. pc = "mapped" /\ err' = err
      BY <1>5 DEF Mapped, MisspeltMapped, NoneMapped, TryMapped
    <3> QED  BY <3>1, RouterAssumption DEF Inv, CallSound, BoundInv, TriedUncertain
  <2>2. CASE MisspeltMapped \/ NoneMapped
    <3>1. pc' = "done" /\ (BadMethod \in untried \/ untried = {})
      BY <2>2 DEF MisspeltMapped, NoneMapped
    <3>2. BadMethod \in MethodMap[method] \/ \A m \in MethodMap[method] : Certain(routes[m], request) = {}
      BY <2>1, <3>1
    <3> QED  BY <1>1, <1>2, <2>1, <3>1, <3>2
             DEF BoundInv, SearchCertain, TriedUncertain, AnswerCertain
  <2>3. ASSUME NEW m \in Methods, TryMapped(m)
        PROVE  BoundInv'
    <3>1. pc' = "exact" /\ cur' = m /\ untried' = untried \ {m}
      BY <2>3 DEF TryMapped
    <3>2. TriedUncertain'
      BY <1>1, <2>1, <3>1 DEF TriedUncertain
    <3> QED  BY <1>1, <1>2, <3>1, <3>2 DEF BoundInv, SearchCertain, AnswerCertain
  <2> QED  BY <1>5, <2>2, <2>3 DEF Mapped
<1> QED  BY <1>3, <1>4, <1>5

(* The constructor marks what it inserts (path_trie.cpp:63-66).            *)
LEMMA ProcessPathCertain ==
    ASSUME Inv, BoundInv, NEW path \in Paths, NEW ms \in SUBSET Methods, ProcessPath(path, ms)
    PROVE  BoundInv'
<1>1. pc = "idle" /\ pc' = "idle" /\ path \in Path
  BY RouterAssumption DEF ProcessPath, Inv, CallSound, Path
<1>2. ASSUME NEW m \in Methods, NEW p \in routes'[m], HasPathParam(p),
             NEW j \in 1..Len(Fragments(p)), Fragments(p)[j] \in Params
      PROVE  trie'[m][SubSeq(Fragments(p), 1, j - 1)].is_param
  <2> DEFINE n == SubSeq(Fragments(p), 1, j - 1)
  <2>1. p \in Path /\ TrieType(trie[m]) /\ (p \in routes[m] \/ (p = path /\ m \in ms))
    <3>1. p \in routes[m] \/ (p = path /\ m \in ms)
      <4>1. routes'[m] = IF m \in ms THEN routes[m] \cup {path} ELSE routes[m]
        BY DEF ProcessPath
      <4> QED  BY <1>2, <4>1
    <3>2. p \in Path
      BY <1>1, <3>1, RouterAssumption DEF Inv, TypeOK, Path
    <3> QED  BY <3>1, <3>2 DEF Inv, TypeOK, TrieType, NodeType
  <2>2. ASSUME p \in routes[m]
        PROVE  n \in DOMAIN trie[m] /\ trie[m][n].is_param
    <3>1. j \in 1..(Len(Fragments(p)) + 1)
      <4>1. Len(Fragments(p)) \in Nat
        BY <2>1, FragmentsLength
      <4> QED  BY <4>1
    <3>2. n \in DOMAIN trie[m]
      BY <1>2, <2>1, <2>2, <3>1, DeclaredHasNodes DEF Inv
    <3> QED  BY <1>2, <2>2, <3>2 DEF BoundInv, ParamsMarked
  <2>3. CASE m \in ms /\ HasPathParam(path)
    <3>1. trie'[m] = Insert(trie[m], path)
      BY <2>3 DEF ProcessPath
    <3>2. /\ \A k \in DOMAIN trie[m] : trie[m][k].is_param => trie'[m][k].is_param
          /\ p = path => trie'[m][n].is_param
      BY <1>1, <1>2, <2>1, <3>1, InsertMarks
    <3> QED  BY <2>1, <2>2, <3>2
  <2>4. CASE ~(m \in ms /\ HasPathParam(path))
    <3>1. trie'[m] = trie[m] /\ p \in routes[m]
      BY <1>2, <2>1, <2>4 DEF ProcessPath
    <3> QED  BY <2>2, <3>1
  <2> QED  BY <2>3, <2>4
<1> QED  BY <1>1, <1>2 DEF BoundInv, ParamsMarked, SearchCertain, TriedUncertain, AnswerCertain

(* All other steps are outside an attempt.                                 *)
LEMMA OthersCertain ==
    ASSUME Inv, BoundInv, Serve \/ Client \/ UNCHANGED vars
    PROVE  BoundInv'
<1> USE DEF specVars, argVars, walkVars
<1>1. UNCHANGED <<routes, trie>>
  BY DEF Serve, Client, Return, Call, vars
<1>2. ParamsMarked'
  BY <1>1 DEF BoundInv, ParamsMarked
<1>3. CASE Serve \/ UNCHANGED vars
  BY <1>2, <1>3 DEF Serve, vars, BoundInv, SearchCertain, TriedUncertain, AnswerCertain
<1>4. CASE Client
  <2>1. pc' \in {"idle", "method"}
    BY <1>4 DEF Client, Return, Call
  <2> QED  BY <1>2, <2>1 DEF BoundInv, SearchCertain, TriedUncertain, AnswerCertain
<1> QED  BY <1>3, <1>4

(* A request reaches the path it is bound to reach, by whatever searches   *)
(* and retries (oas_validator_imp.cpp:174-239).                            *)
THEOREM BoundInvariance == Spec => []BoundInv
<1>1. Init => BoundInv
  BY DEF Init, BoundInv, ParamsMarked, SearchCertain, TriedUncertain, AnswerCertain
<1>2. Inv /\ BoundInv /\ [Next]_vars => BoundInv'
  BY FollowCertain, SearchEndCertain, ExactCertain, MappedCertain, ProcessPathCertain, OthersCertain
     DEF Next, Load, GetValidators, Attempt
<1> QED  BY <1>1, <1>2, Invariance, PTL DEF Spec

-----------------------------------------------------------------------------
(* What the abstract specification sees of a call.                         *)
AbstractCall == IF pc = "idle" THEN [idle |-> TRUE]
                               ELSE [method |-> method, request |-> request]

AbstractAnswer == IF pc # "done" THEN [err |-> "PENDING"]
                  ELSE IF err # "NONE" THEN [err |-> err]
                  ELSE [err |-> err, method |-> cur, path |-> validators]

AnswerAllowed ==
    pc = "done" => AbstractAnswer \in Abstract!Answers([method |-> method, request |-> request])

(* RouteSpec means the same by a path that serves a request, and by one    *)
(* that the request is bound to reach.                                     *)
LEMMA SameMatching ==
    /\ \A p, r : Abstract!Serves(p, r) <=> Serves(p, r)
    /\ \A declared, r : Abstract!Certain(declared, r) = Certain(declared, r)
<1> USE DEF Fragments, Abstract!Fragments
<1>1. \A p, fields : Abstract!Fits(p, fields) <=> Fits(p, fields)
  BY DEF Fits, Abstract!Fits
<1>2. \A p, r : Abstract!Serves(p, r) <=> Serves(p, r)
  BY <1>1 DEF Serves, Abstract!Serves, Joined, Abstract!Joined
<1>3. \A p, q, j : Abstract!Fork(p, q, j) <=> Fork(p, q, j)
  BY DEF Fork, Abstract!Fork
<1>4. \A p : Abstract!HasPathParam(p) <=> HasPathParam(p)
  BY DEF HasPathParam, Abstract!HasPathParam
<1>5. \A declared, p, fields :
         Abstract!Unambiguous(declared, p, fields) <=> Unambiguous(declared, p, fields)
  BY <1>3, <1>4 DEF Unambiguous, Abstract!Unambiguous
<1>6. ASSUME NEW declared, NEW r
      PROVE  Abstract!Certain(declared, r) = Certain(declared, r)
  BY <1>1, <1>4, <1>5, ZenonT(60) DEF Certain, Abstract!Certain
<1> QED  BY <1>2, <1>6

(* The answer of a call is among those RouteSpec allows it                 *)
(* (oas_validator_imp.cpp:174-239).                                        *)
LEMMA AnswersAllowed == Inv /\ BoundInv => AnswerAllowed
<1> SUFFICES ASSUME Inv, BoundInv, pc = "done"
             PROVE  AbstractAnswer \in Abstract!Answers([method |-> method, request |-> request])
  BY DEF AnswerAllowed
<1> DEFINE c == [method |-> method, request |-> request]
           own == Certain(routes[method], request)
<1>1. c.method = method /\ c.request = request
  OBVIOUS
<1>2. CASE method = BadMethod /\ err = "INVALID_METHOD"
  BY <1>1, <1>2 DEF AbstractAnswer, Abstract!Answers
<1>3. CASE /\ method \in Methods /\ err = "NONE" /\ cur \in Methods
           /\ own # {} => cur = method /\ validators \in own
  <2>1. AbstractAnswer = [err |-> "NONE", method |-> cur, path |-> validators]
    BY <1>3 DEF AbstractAnswer
  <2>2. cur \in {method} \cup (MethodMap[method] \ {BadMethod})
    BY <1>3, RouterAssumption DEF Inv, RouteSound
  <2>3. validators \in Abstract!Serving(cur, request)
    BY <1>3, SameMatching DEF Inv, RouteSound, Abstract!Serving
  <2>4. AbstractAnswer \in Abstract!Routed(cur, Abstract!Serving(cur, request))
    BY <2>1, <2>3 DEF Abstract!Routed
  <2>5. own # {} => AbstractAnswer \in Abstract!Routed(method, own)
    BY <1>3, <2>1 DEF Abstract!Routed
  <2>6. AbstractAnswer \in Abstract!KnownAnswers(method, request)
    <3>1. CASE own # {}
      BY <2>5, <3>1, SameMatching DEF Abstract!KnownAnswers
    <3>2. CASE own = {}
      BY <2>2, <2>4, <3>2, SameMatching DEF Abstract!KnownAnswers
    <3> QED  BY <3>1, <3>2
  <2> QED  BY <1>1, <1>3, <2>6, RouterAssumption DEF Abstract!Answers
<1>4. CASE /\ method \in Methods /\ err = "INVALID_ROUTE" /\ own = {}
           /\ \/ BadMethod \in MethodMap[method]
              \/ \A m \in MethodMap[method] : Certain(routes[m], request) = {}
  <2>1. AbstractAnswer = [err |-> "INVALID_ROUTE"]
    BY <1>4 DEF AbstractAnswer
  <2>2. AbstractAnswer \in Abstract!KnownAnswers(method, request)
    <3> DEFINE refused == [err |-> "INVALID_ROUTE"]
               unreached == \/ BadMethod \in MethodMap[method]
                            \/ \A m \in MethodMap[method] \ {BadMethod} :
                                  Abstract!Certain(routes[m], request) = {}
    <3>1. unreached /\ Abstract!Certain(routes[method], request) = {}
      BY <1>4, SameMatching
    <3> HIDE DEF unreached, refused
    <3>2. refused \in {a \in {refused} : unreached}
      BY <3>1
    <3>3. refused \in Abstract!KnownAnswers(method, request)
      BY <3>1, <3>2, Zenon DEF Abstract!KnownAnswers, refused, unreached
    <3> QED  BY <2>1, <3>3 DEF refused
  <2> QED  BY <1>1, <1>4, <2>2, RouterAssumption DEF Abstract!Answers
<1> QED  BY <1>2, <1>3, <1>4 DEF BoundInv, AnswerCertain

(* Every step of the router is a step of RouteSpec or is hidden from it.   *)
LEMMA StepRefines ==
    ASSUME Inv, AnswerAllowed', [Next]_vars
    PROVE  [Abstract!Next]_(Abstract!vars)
<1> USE DEF specVars, argVars, walkVars
<1>1. CASE Load
  <2>1. ~serving /\ UNCHANGED <<pc, method, request, err, cur, validators>>
    BY <1>1 DEF Load, Serve, ProcessPath
  <2>2. UNCHANGED <<AbstractCall, AbstractAnswer>>
    BY <2>1 DEF AbstractCall, AbstractAnswer
  <2>3. CASE Serve
    BY <2>1, <2>2, <2>3
       DEF Serve, AbstractCall, AbstractAnswer, Abstract!Next, Abstract!Serve
  <2>4. ASSUME NEW p \in Paths, NEW ms \in SUBSET Methods, ProcessPath(p, ms)
        PROVE  Abstract!Declare
    BY <2>1, <2>2, <2>4 DEF ProcessPath, AbstractCall, AbstractAnswer, Abstract!Declare
  <2> QED  BY <1>1, <2>3, <2>4 DEF Load, Abstract!Next
<1>2. CASE GetValidators
  <2>1. /\ UNCHANGED <<routes, serving, method, request>>
        /\ pc \in {"method", "exact", "search", "mapped"} /\ pc' # "idle"
    BY <1>2 DEF GetValidators, RejectMethod, AcceptMethod, Attempt, ExactHit, StartSearch,
       FollowLiteral, FollowParam, NoSuchChild, LookUpPath, AtFragment, Found, NotFound,
       Mapped, MisspeltMapped, NoneMapped, TryMapped
  <2>2. UNCHANGED AbstractCall /\ AbstractCall = [method |-> method, request |-> request]
    BY <2>1 DEF AbstractCall
  <2>3. CASE pc' # "done"
    <3>1. UNCHANGED AbstractAnswer
      BY <2>1, <2>3 DEF AbstractAnswer
    <3> QED  BY <2>1, <2>2, <3>1 DEF AbstractCall, AbstractAnswer, Abstract!vars
  <2>4. CASE pc' = "done"
    <3>1. AbstractAnswer' \in Abstract!Answers([method |-> method, request |-> request])'
      BY <2>4 DEF AnswerAllowed
    <3>2. AbstractAnswer' \in Abstract!Answers(AbstractCall)
      BY <2>1, <2>2, <3>1
      DEF Abstract!Answers, Abstract!KnownAnswers, Abstract!Serving, Abstract!Routed
    <3>3. AbstractCall # [idle |-> TRUE] /\ AbstractAnswer = [err |-> "PENDING"]
      BY <2>1, <2>2 DEF AbstractAnswer
    <3>4. Abstract!Answer
      BY <2>1, <2>2, <3>2, <3>3
      DEF AbstractCall, AbstractAnswer, Abstract!Answer, Abstract!NoCall, Abstract!NoAnswer
    <3> QED  BY <3>4 DEF Abstract!Next
  <2> QED  BY <2>3, <2>4
<1>3. CASE Return
  <2>1. pc = "done" /\ pc' = "idle" /\ UNCHANGED <<routes, serving>>
    BY <1>3 DEF Return
  <2>2. err \in {"NONE", "INVALID_METHOD", "INVALID_ROUTE"}
    BY DEF Inv, TypeOK
  <2>3. AbstractAnswer # [err |-> "PENDING"]
    BY <2>1, <2>2 DEF AbstractAnswer
  <2> QED  BY <2>1, <2>3
     DEF AbstractCall, AbstractAnswer, Abstract!Next, Abstract!Return, Abstract!NoCall, Abstract!NoAnswer
<1>4. ASSUME NEW m \in Methods \cup {BadMethod}, NEW r \in Requests, NEW c \in BOOLEAN, Call(m, r, c)
      PROVE  Abstract!Call
  BY <1>4 DEF Call, Abstract!Call, Abstract!NoCall
<1>5. CASE UNCHANGED vars
  BY <1>5 DEF vars, Abstract!vars
<1> QED  BY <1>1, <1>2, <1>3, <1>4, <1>5 DEF Next, Client, Abstract!Next

(* GetValidators, with its exact lookup, the search of the trie, the second*)
(* lookup and the loop over the mapped methods, answers every call in one  *)
(* of the ways RouteSpec allows, for every document, method map and        *)
(* request: the safety part of RefinesRouteSpec.                           *)
THEOREM RoutingRefines == Spec => Abstract!Init /\ [][Abstract!Next]_(Abstract!vars)
<1>1. Init => Abstract!Init
  BY DEF Init, Abstract!Init, Abstract!NoCall, Abstract!NoAnswer
<1>2. Inv /\ AnswerAllowed' /\ [Next]_vars => [Abstract!Next]_(Abstract!vars)
  BY StepRefines
<1> QED  BY <1>1, <1>2, AnswersAllowed, Invariance, BoundInvariance, PTL DEF Spec
=============================================================================
