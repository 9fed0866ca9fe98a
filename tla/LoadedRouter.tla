---------------------------- MODULE LoadedRouter ----------------------------
(***************************************************************************)
(* SpecLoader implements the loading that Router starts from: the maps and *)
(* tries grow by whole members of "paths", and requests are served only    *)
(* once all of the document is in them.  A history variable keeps what the *)
(* loader had built when it last left a member.                            *)
(***************************************************************************)
EXTENDS SpecLoader

CONSTANTS Paths,   \* the keys that "paths" may have
          MaxPaths \* bound on the keys of one document

(* The keys of an object are names of their own; of two that are the same  *)
(* rapidjson keeps both, and the loader then loads them as one path.       *)
ASSUME KeysAssumption ==
    /\ Paths \subseteq Seq(Labels) \ {<<>>}
    /\ MaxPaths \in Nat
    /\ \A d \in Documents :
          /\ Len(d) <= MaxPaths
          /\ \A a \in DOMAIN d : d[a].path \in Paths
          /\ \A a, b \in DOMAIN d : d[a].path = d[b].path => a = b

VARIABLE whole \* [routes, trie] as of the last LeavePath

Whole == [routes |-> [m \in Methods |-> DOMAIN routes'[m]], trie |-> trie']

HInit == /\ Init
         /\ whole = [routes |-> [m \in Methods |-> {}], trie |-> trie]

HNext == /\ Next
         /\ whole' = IF LeavePath THEN Whole ELSE whole

HSpec == HInit /\ [][HNext]_<<vars, whole>>

Loaded == INSTANCE Router WITH
    BadMethod <- "none", MethodMap <- [m \in Methods |-> {}],
    Requests <- { <<"">> },
    routes <- whole.routes, trie <- whole.trie, serving <- outcome = "OK",
    pc <- "idle", method <- "none", request <- <<"">>, collect <- FALSE,
    untried <- {}, cur <- "none", beg <- 1, node <- Root, oas_path <- <<>>,
    param_idxs <- [x \in {} |-> 0], err <- "NONE", validators <- <<>>

(* What the constructor does to the maps and tries, parameter by parameter *)
(* and method by method, is what Router takes it to do: declare one path   *)
(* at a time for a set of methods, with its nodes in their tries, then     *)
(* serve; a constructor that throws serves nothing                         *)
(* (oas_validator_imp.cpp:25-27, 285-315).                                 *)
ImplementsLoading == Loaded!Init /\ [][Loaded!Load]_(Loaded!specVars)

=============================================================================
