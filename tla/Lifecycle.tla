----------------------------- MODULE Lifecycle ------------------------------
(***************************************************************************)
(* Who owns what: a program constructs, copies, assigns, uses and destroys *)
(* OASValidator objects in any order, and each of these creates, shares or *)
(* deletes objects on the heap.                                            *)
(*                                                                         *)
(* Every OASValidatorImp has a number.  What was created with the imp      *)
(* numbered c is a pair <<what, c>>: the imp itself; its "trie", the nodes *)
(* of its path tries; the "spare" roots that copying its tries left; and   *)
(* the "store", a ValidatorsStore, with the validators for the parts of a  *)
(* request its document describes and their deserializers.  One store      *)
(* stands for those of all routes of a document: all are treated alike.    *)
(***************************************************************************)
EXTENDS Naturals

CONSTANTS Handles,   \* the OASValidator objects of the program
          Documents, \* the parts of a request that documents describe
          MaxImps,   \* bound on the OASValidatorImps it creates
          Copying    \* whether it copies and assigns OASValidators

Parts == {"query", "path", "header", "body"}

ASSUME LifecycleAssumption == /\ Documents \subseteq SUBSET Parts
                              /\ MaxImps \in Nat
                              /\ Copying \in BOOLEAN

VARIABLES
    impl,    \* impl[h]: the number of h's OASValidatorImp, 0 when h does not exist
    source,  \* source[c]: the imp whose stores imp c points to, 0 when c is unused
    failed,  \* the imps whose constructor threw
    heap,    \* the objects that exist
    deleted, \* the objects that were deleted
    fault    \* "NONE", or what the program did that has no meaning

vars == <<impl, source, failed, heap, deleted, fault>>

Imps == 1..MaxImps
Deserializer == [query |-> "query deserializer", path |-> "path deserializer",
                 header |-> "header deserializer"]

-----------------------------------------------------------------------------
\* The ValidatorsStores that a document with these parts is given.
Store(parts, c) == ( {"store"} \cup parts \cup { Deserializer[p] : p \in parts \ {"body"} } ) \X {c}

Init ==
    /\ impl = [h \in Handles |-> 0]
    /\ source = [c \in Imps |-> 0]
    /\ failed = {} /\ heap = {} /\ deleted = {}
    /\ fault = "NONE"

Exists(h) == fault = "NONE" /\ impl[h] # 0
MayExist(h) == fault = "NONE" /\ impl[h] = 0
IsNext(c) == source[c] = 0 /\ \A b \in 1..(c - 1) : source[b] # 0

Construct(h, c, parts) ==
    /\ MayExist(h) /\ IsNext(c)
    /\ impl' = [impl EXCEPT ![h] = c]
    /\ source' = [source EXCEPT ![c] = c]
    /\ heap' = heap \cup ({"imp", "trie"} \X {c}) \cup Store(parts, c)
    /\ UNCHANGED <<failed, deleted, fault>>

\* The constructor throws after it made some of the validators: the imp and
\* its members go, the stores that its maps pointed to stay.
ConstructFails(h, c, parts) ==
    /\ MayExist(h) /\ IsNext(c)
    /\ source' = [source EXCEPT ![c] = c]
    /\ failed' = failed \cup {c}
    /\ heap' = heap \cup Store(parts, c)
    /\ deleted' = deleted \cup ({"imp", "trie"} \X {c})
    /\ UNCHANGED <<impl, fault>>

\* Mutant: the stores are left to the runtime.
DoomedButStores(c) == {"imp", "trie"} \X {c}

\* Mutant: the copy of an imp shares the tries as it shares the stores.
DoomedWithSharedTrie(c) ==
    {<<"imp", c>>}
    \cup { o \in heap \cup deleted : /\ o[2] = source[c]
                                     /\ o[1] \in {"trie", "store", "query", "body"} }

(* What delete impl_ deletes: the imp, its tries and its stores, and with  *)
(* these the query parameter validators and the body validator; neither    *)
(* the path and header parameter validators nor any deserializer.          *)
Doomed(c) ==
    ({"imp", "trie"} \X {c})
    \cup { o \in heap \cup deleted : /\ o[2] = source[c]
                                     /\ o[1] \in {"store", "query", "body"} }

\* Mutant: the records of the query parameters delete their validators too.
DeleteInRecordsToo(c, created) ==
    /\ heap' = (heap \ Doomed(c)) \cup created
    /\ deleted' = deleted \cup Doomed(c)
    /\ fault' = IF Doomed(c) \cap deleted = {} /\ <<"query", source[c]>> \notin Doomed(c)
                THEN "NONE" ELSE "deleted twice"

Delete(c, created) ==
    /\ heap' = (heap \ Doomed(c)) \cup created
    /\ deleted' = deleted \cup Doomed(c)
    /\ fault' = IF Doomed(c) \cap deleted = {} THEN "NONE" ELSE "deleted twice"

\* new OASValidatorImp(other): the stores are shared; CopyNode gives each
\* trie a second root and forgets the first.
NewCopy(c) == {"imp", "trie", "spare"} \X {c}

Copy(h, g, c) ==
    /\ Copying
    /\ MayExist(h) /\ Exists(g) /\ IsNext(c)
    /\ impl' = [impl EXCEPT ![h] = c]
    /\ source' = [source EXCEPT ![c] = source[impl[g]]]
    /\ heap' = heap \cup NewCopy(c)
    /\ UNCHANGED <<failed, deleted, fault>>

\* Assigning an object to itself does nothing.
Assign(h, g, c) ==
    /\ Copying
    /\ Exists(h) /\ Exists(g) /\ h # g /\ IsNext(c)
    /\ impl' = [impl EXCEPT ![h] = c]
    /\ source' = [source EXCEPT ![c] = source[impl[g]]]
    /\ Delete(impl[h], NewCopy(c))
    /\ UNCHANGED failed

Destroy(h) ==
    /\ Exists(h)
    /\ impl' = [impl EXCEPT ![h] = 0]
    /\ Delete(impl[h], {})
    /\ UNCHANGED <<source, failed>>

\* What a call of an entry point may read.
Used(h) == ({"imp", "trie"} \X {impl[h]})
           \cup { o \in heap \cup deleted : /\ o[2] = source[impl[h]]
                                            /\ o[1] \notin {"imp", "trie", "spare"} }

Validate(h) ==
    /\ Exists(h)
    /\ fault' = IF Used(h) \cap deleted = {} THEN "NONE" ELSE "used after it was deleted"
    /\ UNCHANGED <<impl, source, failed, heap, deleted>>

Next ==
    \/ \E h \in Handles, c \in Imps, parts \in Documents :
          Construct(h, c, parts) \/ ConstructFails(h, c, parts)
    \/ \E h, g \in Handles, c \in Imps : Copy(h, g, c) \/ Assign(h, g, c)
    \/ \E h \in Handles : Destroy(h) \/ Validate(h)

Spec == Init /\ [][Next]_vars

-----------------------------------------------------------------------------
TypeOK ==
    /\ impl \in [Handles -> {0} \cup Imps]
    /\ source \in [Imps -> {0} \cup Imps]
    /\ failed \subseteq Imps
    /\ heap \cap deleted = {}
    /\ fault \in {"NONE", "deleted twice", "used after it was deleted"}

(* Every OASValidator has an implementation with tries of its own: however *)
(* it came to be, no other object's destruction or assignment deletes them *)
(* (oas_validator.cpp:17-31, path_trie.cpp:15-22, 40-48).                  *)
TriesAreOwned ==
    \A h \in Handles : Exists(h) =>
        /\ {"imp", "trie"} \X {impl[h]} \subseteq heap
        /\ \A g \in Handles : impl[g] = impl[h] => g = h

(* A program that copies no OASValidator deletes nothing twice and uses    *)
(* nothing after it was deleted, and the same holds of copies as long as   *)
(* none of those that share their stores was destroyed or assigned to      *)
(* (oas_validator_imp.cpp:163-172).                                        *)
FaultsNeedTwoOwners ==
    /\ fault # "NONE" => \E c, b \in Imps : c # b /\ source[c] = source[b] /\ source[c] # 0
    /\ \A h \in Handles :
          Exists(h) /\ Used(h) \cap deleted # {} =>
              \E c \in Imps \ {impl[h]} : /\ source[c] = source[impl[h]]
                                          /\ <<"imp", c>> \in deleted

(* Of a validator that was constructed, nothing is left once it is gone    *)
(* but its path and header parameter validators and the deserializers:     *)
(* imps, tries, stores, query parameter and body validators are deleted    *)
(* (validators_store.cpp:119-127, path_trie.cpp:149-164).                  *)
OnlyKnownLeaks ==
    (fault = "NONE" /\ \A h \in Handles : impl[h] = 0) =>
        \A o \in heap : \/ o[2] \in failed
                        \/ o[1] \in {"path", "header", "spare"}
                        \/ \E p \in DOMAIN Deserializer : o[1] = Deserializer[p]

(* oas_validator.hpp:85: "Copy constructor. @param other The OASValidator  *)
(* object to be copied."  The copy shares the stores of the original       *)
(* (oas_validator.cpp:18) and both delete them.                            *)
EachDeletedOnce == fault # "deleted twice"

(* validators_store.cpp:121 "LUA manages garbage collection itself": in    *)
(* any other build the destructors are there to delete what the            *)
(* constructors created.                                                   *)
NothingLeftBehind ==
    (fault = "NONE" /\ failed = {} /\ \A h \in Handles : impl[h] = 0) => heap = {}

=============================================================================
