-------------------------- MODULE LifecycleProofs ---------------------------
(***************************************************************************)
(* However many OASValidators a program has, and whatever documents they   *)
(* are made from: no two share a trie, and a store is deleted twice or     *)
(* used after its deletion only if two implementations share it; and what  *)
(* the destructors leave behind is what they are known to.                 *)
(***************************************************************************)
EXTENDS Lifecycle, TLAPS

Kinds == {"imp", "trie", "spare", "store"} \cup Parts \cup { Deserializer[p] : p \in Parts \ {"body"} }

\* The number of an object is one that was used.
Numbered == /\ heap \cup deleted \subseteq Kinds \X Imps
            /\ \A o \in heap \cup deleted : source[o[2]] # 0
            /\ \A h \in Handles : impl[h] # 0 => source[impl[h]] # 0

\* A part of a store is deleted by an imp that is deleted itself.
DeletedByOwners ==
    \A o \in deleted : \/ o[1] \in {"imp", "trie"}
                       \/ \E c \in Imps : source[c] = o[2] /\ <<"imp", c>> \in deleted

\* The program went wrong over a store of two imps.
Shared(s) == s # 0 /\ \E c, b \in Imps : c # b /\ source[c] = s /\ source[b] = s
FaultIsShared == fault # "NONE" => \E s \in Imps : Shared(s)

OwnersInv == TypeOK /\ Numbered /\ TriesAreOwned /\ DeletedByOwners /\ FaultIsShared

-----------------------------------------------------------------------------
\* What a program starts with.
LEMMA NothingOwned == Init => OwnersInv
  BY LifecycleAssumption DEF Init, OwnersInv, TypeOK, Numbered, TriesAreOwned, DeletedByOwners,
     FaultIsShared, Exists, Imps

\* A new number has no objects, and no imp takes its stores from it.
LEMMA Fresh ==
    ASSUME OwnersInv, NEW c \in Imps, IsNext(c)
    PROVE  /\ c # 0 /\ source[c] = 0
           /\ \A o \in heap \cup deleted : o[2] # c
           /\ \A h \in Handles : impl[h] # c
  BY LifecycleAssumption DEF OwnersInv, Numbered, IsNext, Imps

\* A store that is deleted already, or in use when it is, has two owners.
LEMMA TwoOwners ==
    ASSUME OwnersInv, NEW h \in Handles, Exists(h), NEW o \in deleted,
           o[1] \notin {"imp", "trie"}, o[2] = source[impl[h]]
    PROVE  /\ Shared(source[impl[h]])
           /\ \E c \in Imps \ {impl[h]} : source[c] = source[impl[h]] /\ <<"imp", c>> \in deleted
  <1>1. PICK c \in Imps : source[c] = o[2] /\ <<"imp", c>> \in deleted
    BY DEF OwnersInv, DeletedByOwners
  <1>2. <<"imp", impl[h]>> \in heap /\ heap \cap deleted = {}
    BY DEF OwnersInv, TriesAreOwned, TypeOK
  <1>3. c # impl[h]
    BY <1>1, <1>2
  <1>4. impl[h] \in Imps /\ source[impl[h]] # 0
    BY DEF OwnersInv, TypeOK, Numbered, Exists
  <1> QED  BY <1>1, <1>3, <1>4 DEF Shared

\* The objects of some kinds that have the number c.
LEMMA ObjectsOf ==
    ASSUME NEW kinds, NEW c
    PROVE  \A o \in kinds \X {c} : o[1] \in kinds /\ o[2] = c
  OBVIOUS

\* Objects made of known kinds are known objects.
LEMMA KindsGiveObjects ==
    ASSUME NEW kinds \in SUBSET Kinds, NEW c
    PROVE  kinds \X {c} \in SUBSET (Kinds \X {c})
  OBVIOUS

\* What the inventory of objects must satisfy, whoever holds the handles.
Inventory ==
    /\ source \in [Imps -> {0} \cup Imps]
    /\ heap \cap deleted = {}
    /\ heap \cup deleted \subseteq Kinds \X Imps
    /\ \A o \in heap \cup deleted : source[o[2]] # 0
    /\ DeletedByOwners

\* Objects with a new number are added, and those of an imp that failed deleted.
LEMMA AddsNew ==
    ASSUME OwnersInv, NEW c \in Imps, IsNext(c), NEW s \in Imps,
           NEW made \in SUBSET (Kinds \X {c}), NEW gone \in SUBSET ({"imp", "trie"} \X {c}),
           made \cap gone = {}, source' = [source EXCEPT ![c] = s],
           heap' = heap \cup made, deleted' = deleted \cup gone
    PROVE  Inventory'
  <1>1. /\ source[c] = 0 /\ c # 0
        /\ \A o \in heap \cup deleted : o[2] # c
    BY Fresh
  <1>2. /\ source \in [Imps -> {0} \cup Imps] /\ heap \cap deleted = {}
        /\ heap \cup deleted \subseteq Kinds \X Imps
        /\ \A o \in heap \cup deleted : source[o[2]] # 0
    BY DEF OwnersInv, TypeOK, Numbered
  <1>3. \A o \in made : o \in Kinds \X Imps /\ o[2] = c
    OBVIOUS
  <1>4. \A o \in gone : o \in Kinds \X Imps /\ o[2] = c /\ o[1] \in {"imp", "trie"}
    <2>1. \A o \in gone : o \in {"imp", "trie"} \X {c}
      OBVIOUS
    <2>2. \A o \in gone : o[1] \in {"imp", "trie"} /\ o[2] = c
      BY <2>1, ObjectsOf, Zenon
    <2>3. {"imp", "trie"} \in SUBSET Kinds
      BY DEF Kinds
    <2>4. {"imp", "trie"} \X {c} \in SUBSET (Kinds \X {c})
      BY <2>3, KindsGiveObjects, Zenon
    <2>5. Kinds \X {c} \subseteq Kinds \X Imps
      OBVIOUS
    <2> QED  BY <2>1, <2>2, <2>4, <2>5, Zenon
  <1>5. source' \in [Imps -> {0} \cup Imps] /\ source'[c] = s /\ s # 0
        /\ \A b \in Imps : b # c => source'[b] = source[b]
    BY <1>2 DEF Imps
  <1>6. heap' \cap deleted' = {}
    BY <1>1, <1>2, <1>3, <1>4
  <1>7. heap' \cup deleted' \subseteq Kinds \X Imps
    BY <1>2, <1>3, <1>4
  <1>8. \A o \in heap' \cup deleted' : source'[o[2]] # 0
    BY <1>1, <1>2, <1>3, <1>4, <1>5, <1>7
  <1>9. DeletedByOwners'
    <2> SUFFICES ASSUME NEW o \in deleted', o[1] \notin {"imp", "trie"}
                 PROVE  \E b \in Imps : source'[b] = o[2] /\ <<"imp", b>> \in deleted'
      BY DEF DeletedByOwners
    <2>1. o \in deleted
      BY <1>4
    <2>2. PICK b \in Imps : source[b] = o[2] /\ <<"imp", b>> \in deleted
      BY <2>1 DEF OwnersInv, DeletedByOwners
    <2>3. o[2] # 0
      BY <1>2, <2>1 DEF Imps
    <2> QED  BY <1>1, <1>5, <2>2, <2>3
  <1> QED  BY <1>5, <1>6, <1>7, <1>8, <1>9 DEF Inventory

\* A handle that did not exist refers to a new imp.
LEMMA HandleGiven ==
    ASSUME OwnersInv, NEW h \in Handles, fault = "NONE", fault' = fault, failed' = failed,
           NEW c \in Imps, IsNext(c), NEW s \in Imps, source' = [source EXCEPT ![c] = s],
           impl' = [impl EXCEPT ![h] = c], Inventory', heap \subseteq heap',
           {"imp", "trie"} \X {c} \subseteq heap'
    PROVE  OwnersInv'
  <1>1. /\ source[c] = 0 /\ c # 0 /\ \A g \in Handles : impl[g] # c
    BY Fresh
  <1>2. impl \in [Handles -> {0} \cup Imps] /\ source \in [Imps -> {0} \cup Imps] /\ failed \subseteq Imps
    BY DEF OwnersInv, TypeOK
  <1>3. impl' \in [Handles -> {0} \cup Imps] /\ impl'[h] = c
        /\ \A g \in Handles : g # h => impl'[g] = impl[g]
    BY <1>2
  <1>4. TypeOK'
    BY <1>2, <1>3 DEF TypeOK, Inventory
  <1>5. \A g \in Handles : impl'[g] # 0 => source'[impl'[g]] # 0
    BY <1>1, <1>2, <1>3 DEF OwnersInv, Numbered, Imps
  <1>6. TriesAreOwned'
    BY <1>1, <1>3 DEF OwnersInv, TriesAreOwned, Exists
  <1>7. FaultIsShared'
    BY DEF FaultIsShared
  <1> QED  BY <1>4, <1>5, <1>6, <1>7 DEF OwnersInv, Numbered, Inventory

\* What a constructor makes of a document.
LEMMA StoreObjects ==
    ASSUME NEW parts \in Documents, NEW c \in Imps
    PROVE  /\ Store(parts, c) \in SUBSET (Kinds \X {c})
           /\ Store(parts, c) \cap ({"imp", "trie"} \X {c}) = {}
  <1> DEFINE kinds == {"store"} \cup parts \cup { Deserializer[p] : p \in parts \ {"body"} }
  <1>1. parts \in SUBSET Parts
    BY LifecycleAssumption
  <1>2. kinds \in SUBSET Kinds
    BY <1>1 DEF Kinds
  <1>9. \A p \in parts \ {"body"} : Deserializer[p] \notin {"imp", "trie"}
    <2>1. \A p \in parts \ {"body"} : p \in {"query", "path", "header"}
      BY <1>1 DEF Parts
    <2>2. /\ Deserializer["query"] = "query deserializer"
          /\ Deserializer["path"] = "path deserializer"
          /\ Deserializer["header"] = "header deserializer"
      BY DEF Deserializer
    <2>3. \A p \in {"query", "path", "header"} : Deserializer[p] \notin {"imp", "trie"}
      BY <2>2
    <2> QED  BY <2>1, <2>3
  <1>8. "imp" \notin kinds /\ "trie" \notin kinds
    BY <1>1, <1>9 DEF Parts
  <1>3. Store(parts, c) = kinds \X {c}
    BY DEF Store
  <1>4. kinds \X {c} \in SUBSET (Kinds \X {c})
    BY <1>2, KindsGiveObjects, Zenon
  <1>5. \A o \in kinds \X {c} : o[1] \in kinds
    BY ObjectsOf, Zenon
  <1>6. \A o \in {"imp", "trie"} \X {c} : o[1] \in {"imp", "trie"}
    BY ObjectsOf, Zenon
  <1> QED  BY <1>3, <1>4, <1>5, <1>6, <1>8, Zenon

\* The constructor (oas_validator.cpp:10-14) keeps the invariant.
LEMMA ConstructKeeps ==
    ASSUME OwnersInv, NEW h \in Handles, NEW c \in Imps, NEW parts \in Documents,
           Construct(h, c, parts)
    PROVE  OwnersInv'
  <1>1. PICK made \in SUBSET (Kinds \X {c}) : made = ({"imp", "trie"} \X {c}) \cup Store(parts, c)
    <2>1. {"imp", "trie"} \X {c} \in SUBSET (Kinds \X {c})
      <3>1. {"imp", "trie"} \in SUBSET Kinds
        BY DEF Kinds
      <3> QED  BY <3>1, KindsGiveObjects, Zenon
    <2>2. Store(parts, c) \in SUBSET (Kinds \X {c})
      BY StoreObjects
    <2> QED  BY <2>1, <2>2, Zenon
  <1>2. IsNext(c) /\ source' = [source EXCEPT ![c] = c] /\ heap' = heap \cup made
        /\ deleted' = deleted \cup {} /\ impl' = [impl EXCEPT ![h] = c]
        /\ fault = "NONE" /\ fault' = fault /\ failed' = failed
    BY <1>1 DEF Construct, MayExist
  <1>3. Inventory'
    BY <1>1, <1>2, AddsNew, ZenonT(60)
  <1> QED  BY <1>1, <1>2, <1>3, HandleGiven

\* So does one that throws: its objects have a number nothing else has.
LEMMA ConstructFailsKeeps ==
    ASSUME OwnersInv, NEW h \in Handles, NEW c \in Imps, NEW parts \in Documents,
           ConstructFails(h, c, parts)
    PROVE  OwnersInv'
  <1>1. IsNext(c) /\ source' = [source EXCEPT ![c] = c] /\ heap' = heap \cup Store(parts, c)
        /\ deleted' = deleted \cup ({"imp", "trie"} \X {c}) /\ impl' = impl
        /\ fault = "NONE" /\ fault' = fault /\ failed' = failed \cup {c}
    BY DEF ConstructFails, MayExist
  <1>2. Inventory'
    BY <1>1, AddsNew, StoreObjects
  <1>3. source[c] = 0 /\ (\A g \in Handles : impl[g] # c)
        /\ \A o \in heap \cup deleted : o[2] # c
    BY <1>1, Fresh
  <1>4. impl \in [Handles -> {0} \cup Imps] /\ source \in [Imps -> {0} \cup Imps] /\ failed \subseteq Imps
    BY DEF OwnersInv, TypeOK
  <1>5. TypeOK'
    BY <1>1, <1>2, <1>4 DEF TypeOK, Inventory, OwnersInv
  <1>6. \A g \in Handles : impl'[g] # 0 => source'[impl'[g]] # 0
    BY <1>1, <1>3, <1>4 DEF OwnersInv, Numbered
  <1>7. TriesAreOwned'
    BY <1>1 DEF OwnersInv, TriesAreOwned, Exists
  <1>8. FaultIsShared'
    BY <1>1 DEF FaultIsShared
  <1> QED  BY <1>2, <1>5, <1>6, <1>7, <1>8 DEF OwnersInv, Numbered, Inventory

\* The copy constructor (oas_validator.cpp:16-19) gives its imp tries of its own.
LEMMA CopyKeeps ==
    ASSUME OwnersInv, NEW h \in Handles, NEW g \in Handles, NEW c \in Imps, Copy(h, g, c)
    PROVE  OwnersInv'
  <1>1. PICK s \in Imps : s = source[impl[g]]
    BY DEF Copy, Exists, OwnersInv, TypeOK, Numbered
  <1>2. PICK made \in SUBSET (Kinds \X {c}) : made = {"imp", "trie", "spare"} \X {c}
    <2>1. {"imp", "trie", "spare"} \X {c} \in SUBSET (Kinds \X {c})
      <3>1. {"imp", "trie", "spare"} \in SUBSET Kinds
        BY DEF Kinds
      <3> QED  BY <3>1, KindsGiveObjects, Zenon
    <2> QED  BY <2>1, Zenon
  <1>3. IsNext(c) /\ source' = [source EXCEPT ![c] = s] /\ heap' = heap \cup made
        /\ deleted' = deleted \cup {} /\ impl' = [impl EXCEPT ![h] = c]
        /\ fault = "NONE" /\ fault' = fault /\ failed' = failed
    BY <1>1, <1>2 DEF Copy, NewCopy, MayExist
  <1>4. Inventory'
    BY <1>2, <1>3, AddsNew
  <1> QED  BY <1>2, <1>3, <1>4, HandleGiven

\* What delete takes of the imp of a handle that exists.
LEMMA DoomedObjects ==
    ASSUME OwnersInv, NEW h \in Handles, Exists(h)
    PROVE  /\ \A o \in Doomed(impl[h]) : o \in Kinds \X Imps /\ source[o[2]] # 0
           /\ \A o \in Doomed(impl[h]) : o[1] \notin {"imp", "trie"} => o[2] = source[impl[h]]
           /\ <<"imp", impl[h]>> \in Doomed(impl[h])
           /\ Doomed(impl[h]) \cap deleted # {} => Shared(source[impl[h]])
           /\ \A g \in Handles \ {h} : Doomed(impl[h]) \cap ({"imp", "trie"} \X {impl[g]}) = {}
  <1> DEFINE i == impl[h]
             own == {"imp", "trie"} \X {i}
  <1>1. /\ i \in Imps /\ source[i] # 0 /\ heap \cap deleted = {} /\ own \subseteq heap
        /\ heap \cup deleted \subseteq Kinds \X Imps
        /\ \A o \in heap \cup deleted : source[o[2]] # 0
    BY DEF OwnersInv, TypeOK, Numbered, TriesAreOwned, Exists
  <1>2. \A o \in own : o[1] \in {"imp", "trie"} /\ o[2] = i
    BY ObjectsOf, Zenon
  <1>3. \A o \in Doomed(i) : \/ o \in own
                             \/ /\ o \in heap \cup deleted /\ o[2] = source[i]
                                /\ o[1] \in {"store", "query", "body"}
    BY DEF Doomed
  <1>4. \A o \in Doomed(i) : o \in heap \cup deleted
    BY <1>1, <1>3
  <1>5. \A o \in Doomed(i) : o[1] \notin {"imp", "trie"} => o[2] = source[i]
    BY <1>2, <1>3
  <1>6. <<"imp", i>> \in Doomed(i)
    BY DEF Doomed
  <1>7. ASSUME NEW o \in Doomed(i) \cap deleted PROVE Shared(source[i])
    <2>1. o \notin own
      BY <1>1, <1>7
    <2>2. o[2] = source[i] /\ o[1] \in {"store", "query", "body"}
      BY <1>3, <1>7, <2>1
    <2>3. o[1] \notin {"imp", "trie"}
      BY <2>2
    <2> QED  BY <1>7, <2>2, <2>3, TwoOwners
  <1>8. ASSUME NEW g \in Handles \ {h}, NEW o \in Doomed(i) \cap ({"imp", "trie"} \X {impl[g]})
        PROVE  FALSE
    <2>1. o[1] \in {"imp", "trie"} /\ o[2] = impl[g]
      BY <1>8, ObjectsOf, Zenon
    <2>2. o \in own
      BY <1>3, <2>1
    <2>3. impl[g] = i
      BY <1>2, <2>1, <2>2
    <2> QED  BY <2>3 DEF OwnersInv, TriesAreOwned
  <1> QED  BY <1>1, <1>4, <1>5, <1>6, <1>7, <1>8

\* Of the numbers only unused ones change, and what is created has one of these.
Begun(created) ==
    /\ source' \in [Imps -> {0} \cup Imps]
    /\ \A b \in Imps : source[b] # 0 => source'[b] = source[b]
    /\ \A o \in created : o \in Kinds \X Imps /\ source[o[2]] = 0 /\ source'[o[2]] # 0

\* What delete leaves.
LEMMA DeleteKeeps ==
    ASSUME OwnersInv, NEW h \in Handles, Exists(h), NEW created, Begun(created),
           Delete(impl[h], created)
    PROVE  /\ Inventory' /\ FaultIsShared' /\ fault' \in {"NONE", "deleted twice"}
           /\ \A g \in Handles \ {h} : Exists(g) => {"imp", "trie"} \X {impl[g]} \subseteq heap'
  <1> DEFINE s == source[impl[h]]
  <1>1. PICK doomed : doomed = Doomed(impl[h])
    OBVIOUS
  <1>2. /\ heap' = (heap \ doomed) \cup created /\ deleted' = deleted \cup doomed
        /\ fault' = IF doomed \cap deleted = {} THEN "NONE" ELSE "deleted twice"
    BY <1>1 DEF Delete
  <1>3. /\ \A o \in doomed : o \in Kinds \X Imps /\ source[o[2]] # 0
        /\ \A o \in doomed : o[1] \notin {"imp", "trie"} => o[2] = s
        /\ <<"imp", impl[h]>> \in doomed
        /\ doomed \cap deleted # {} => Shared(s)
        /\ \A g \in Handles \ {h} : doomed \cap ({"imp", "trie"} \X {impl[g]}) = {}
    BY <1>1, DoomedObjects
  <1>4. /\ impl[h] \in Imps /\ source \in [Imps -> {0} \cup Imps] /\ s \in Imps
        /\ heap \cap deleted = {} /\ heap \cup deleted \subseteq Kinds \X Imps
        /\ \A o \in heap \cup deleted : source[o[2]] # 0
    BY DEF OwnersInv, TypeOK, Numbered, Exists
  <1>5. heap' \cap deleted' = {}
    BY <1>2, <1>3, <1>4 DEF Begun
  <1>6. heap' \cup deleted' \subseteq Kinds \X Imps
    BY <1>2, <1>3, <1>4 DEF Begun
  <1>7. \A o \in heap' \cup deleted' : source'[o[2]] # 0
    BY <1>2, <1>3, <1>4 DEF Begun
  <1>8. ASSUME NEW o \in deleted', o[1] \notin {"imp", "trie"}
        PROVE  \E b \in Imps : source'[b] = o[2] /\ <<"imp", b>> \in deleted'
    <2>1. CASE o \in deleted
      <3>1. PICK b \in Imps : source[b] = o[2] /\ <<"imp", b>> \in deleted
        BY <1>8, <2>1 DEF OwnersInv, DeletedByOwners
      <3>2. o[2] # 0
        BY <1>4, <2>1 DEF Imps
      <3> QED  BY <1>2, <3>1, <3>2 DEF Begun
    <2>2. CASE o \in doomed
      <3>1. o[2] = s /\ s # 0
        BY <1>3, <1>4, <1>8, <2>2 DEF Imps
      <3> QED  BY <1>2, <1>3, <1>4, <3>1 DEF Begun
    <2> QED  BY <1>2, <2>1, <2>2
  <1>9. Inventory'
    BY <1>5, <1>6, <1>7, <1>8 DEF Inventory, DeletedByOwners, Begun
  <1>10. FaultIsShared'
    <2>1. PICK r \in Imps : r = s
      BY <1>4
    <2> SUFFICES ASSUME fault' # "NONE" PROVE Shared(r)'
      BY DEF FaultIsShared
    <2>2. Shared(r)
      BY <1>2, <1>3, <2>1
    <2>3. PICK b \in Imps, c \in Imps : r # 0 /\ b # c /\ source[b] = r /\ source[c] = r
      BY <2>2 DEF Shared
    <2>4. source'[b] = r /\ source'[c] = r
      BY <2>3 DEF Begun
    <2> QED  BY <2>3, <2>4 DEF Shared
  <1>11. ASSUME NEW g \in Handles \ {h}, Exists(g)
         PROVE  {"imp", "trie"} \X {impl[g]} \subseteq heap'
    <2>1. {"imp", "trie"} \X {impl[g]} \subseteq heap
      BY <1>11 DEF OwnersInv, TriesAreOwned
    <2> QED  BY <1>2, <1>3, <2>1
  <1> QED  BY <1>2, <1>9, <1>10, <1>11

\* The destructor (oas_validator.cpp:90-93) keeps the invariant, or two imps share a store.
LEMMA DestroyKeeps ==
    ASSUME OwnersInv, NEW h \in Handles, Destroy(h)
    PROVE  OwnersInv'
  <1>1. /\ Exists(h) /\ impl' = [impl EXCEPT ![h] = 0] /\ source' = source /\ failed' = failed
        /\ Delete(impl[h], {})
    BY DEF Destroy
  <1>2. impl \in [Handles -> {0} \cup Imps] /\ source \in [Imps -> {0} \cup Imps] /\ failed \subseteq Imps
    BY DEF OwnersInv, TypeOK
  <1>3. Begun({})
    BY <1>1, <1>2 DEF Begun
  <1>4. /\ Inventory' /\ FaultIsShared' /\ fault' \in {"NONE", "deleted twice"}
        /\ \A g \in Handles \ {h} : Exists(g) => {"imp", "trie"} \X {impl[g]} \subseteq heap'
    BY <1>1, <1>3, DeleteKeeps
  <1>5. /\ impl' \in [Handles -> {0} \cup Imps] /\ impl'[h] = 0
        /\ \A g \in Handles \ {h} : impl'[g] = impl[g]
    BY <1>1, <1>2
  <1>6. TypeOK'
    BY <1>1, <1>2, <1>4, <1>5 DEF TypeOK, Inventory
  <1>7. \A g \in Handles : impl'[g] # 0 => source'[impl'[g]] # 0
    BY <1>1, <1>5 DEF OwnersInv, Numbered
  <1>8. fault = "NONE"
    BY <1>1 DEF Exists
  <1>9. TriesAreOwned'
    <2> SUFFICES ASSUME NEW g \in Handles, Exists(g)'
                 PROVE  /\ {"imp", "trie"} \X {impl'[g]} \subseteq heap'
                        /\ \A f \in Handles : impl'[f] = impl'[g] => f = g
      BY DEF TriesAreOwned
    <2>1. g # h /\ impl'[g] # 0
      BY <1>5 DEF Exists
    <2>2. Exists(g) /\ impl'[g] = impl[g]
      BY <1>5, <1>8, <2>1 DEF Exists
    <2> QED  BY <1>4, <1>5, <2>1, <2>2 DEF OwnersInv, TriesAreOwned
  <1> QED  BY <1>4, <1>6, <1>7, <1>9 DEF OwnersInv, Numbered, Inventory

\* The assignment (oas_validator.cpp:21-30) is a delete and a copy.
LEMMA AssignKeeps ==
    ASSUME OwnersInv, NEW h \in Handles, NEW g \in Handles, NEW c \in Imps, Assign(h, g, c)
    PROVE  OwnersInv'
  <1>1. /\ Exists(h) /\ Exists(g) /\ IsNext(c) /\ impl' = [impl EXCEPT ![h] = c]
        /\ source' = [source EXCEPT ![c] = source[impl[g]]] /\ failed' = failed
        /\ Delete(impl[h], NewCopy(c))
    BY DEF Assign
  <1>2. impl \in [Handles -> {0} \cup Imps] /\ source \in [Imps -> {0} \cup Imps] /\ failed \subseteq Imps
    BY DEF OwnersInv, TypeOK
  <1>3. source[c] = 0 /\ c # 0 /\ \A f \in Handles : impl[f] # c
    BY <1>1, Fresh
  <1>4. impl[g] \in Imps /\ source[impl[g]] \in Imps
    BY <1>1, <1>2 DEF Exists, OwnersInv, Numbered
  <1>5. /\ source' \in [Imps -> {0} \cup Imps] /\ source'[c] # 0
        /\ \A b \in Imps : source[b] # 0 => source'[b] = source[b]
    BY <1>1, <1>2, <1>3, <1>4 DEF Imps
  <1>6. \A o \in NewCopy(c) : o \in Kinds \X Imps /\ o[2] = c
    <2>1. {"imp", "trie", "spare"} \in SUBSET Kinds
      BY DEF Kinds
    <2>2. NewCopy(c) \in SUBSET (Kinds \X {c})
      BY <2>1, KindsGiveObjects, Zenon DEF NewCopy
    <2>3. \A o \in NewCopy(c) : o[2] = c
      BY ObjectsOf, Zenon DEF NewCopy
    <2>4. Kinds \X {c} \subseteq Kinds \X Imps
      OBVIOUS
    <2> QED  BY <2>2, <2>3, <2>4, Zenon
  <1>7. Begun(NewCopy(c))
    BY <1>3, <1>5, <1>6 DEF Begun
  <1>8. /\ Inventory' /\ FaultIsShared' /\ fault' \in {"NONE", "deleted twice"}
        /\ \A f \in Handles \ {h} : Exists(f) => {"imp", "trie"} \X {impl[f]} \subseteq heap'
    BY <1>1, <1>7, DeleteKeeps
  <1>9. {"imp", "trie"} \X {c} \subseteq heap'
    BY <1>1 DEF Delete, NewCopy
  <1>10. /\ impl' \in [Handles -> {0} \cup Imps] /\ impl'[h] = c
         /\ \A f \in Handles \ {h} : impl'[f] = impl[f]
    BY <1>1, <1>2
  <1>11. TypeOK'
    BY <1>1, <1>2, <1>8, <1>10 DEF TypeOK, Inventory
  <1>12. \A f \in Handles : impl'[f] # 0 => source'[impl'[f]] # 0
    BY <1>2, <1>5, <1>10 DEF OwnersInv, Numbered
  <1>13. fault = "NONE"
    BY <1>1 DEF Exists
  <1>14. TriesAreOwned'
    <2> SUFFICES ASSUME NEW f \in Handles, Exists(f)'
                 PROVE  /\ {"imp", "trie"} \X {impl'[f]} \subseteq heap'
                        /\ \A e \in Handles : impl'[e] = impl'[f] => e = f
      BY DEF TriesAreOwned
    <2>1. CASE f = h
      BY <1>3, <1>9, <1>10, <2>1
    <2>2. CASE f # h
      <3>1. impl'[f] = impl[f] /\ Exists(f)
        BY <1>10, <1>13, <2>2 DEF Exists
      <3> QED  BY <1>3, <1>8, <1>10, <2>2, <3>1 DEF OwnersInv, TriesAreOwned
    <2> QED  BY <2>1, <2>2
  <1> QED  BY <1>8, <1>11, <1>12, <1>14 DEF OwnersInv, Numbered, Inventory

\* A use reads no imp or trie that was deleted: only a store can be gone.
LEMMA UsedThenDeleted ==
    ASSUME OwnersInv, NEW h \in Handles, Exists(h), Used(h) \cap deleted # {}
    PROVE  /\ Shared(source[impl[h]])
           /\ \E c \in Imps \ {impl[h]} : source[c] = source[impl[h]] /\ <<"imp", c>> \in deleted
  <1>1. PICK o \in deleted : o \in Used(h)
    OBVIOUS
  <1>2. {"imp", "trie"} \X {impl[h]} \subseteq heap /\ heap \cap deleted = {}
    BY DEF OwnersInv, TypeOK, TriesAreOwned
  <1>3. o[2] = source[impl[h]] /\ o[1] \notin {"imp", "trie", "spare"}
    BY <1>1, <1>2 DEF Used
  <1>4. o[1] \notin {"imp", "trie"}
    BY <1>3
  <1> QED  BY <1>1, <1>3, <1>4, TwoOwners

\* An entry point reads what its imp owns.
LEMMA ValidateKeeps ==
    ASSUME OwnersInv, NEW h \in Handles, Validate(h)
    PROVE  OwnersInv'
  <1>1. /\ Exists(h) /\ UNCHANGED <<impl, source, failed, heap, deleted>>
        /\ fault' = IF Used(h) \cap deleted = {} THEN "NONE" ELSE "used after it was deleted"
    BY DEF Validate
  <1>2. TypeOK'
    BY <1>1 DEF OwnersInv, TypeOK
  <1>3. Numbered' /\ DeletedByOwners'
    BY <1>1 DEF OwnersInv, Numbered, DeletedByOwners
  <1>4. TriesAreOwned'
    BY <1>1 DEF OwnersInv, TriesAreOwned, Exists
  <1>5. source[impl[h]] \in Imps
    BY <1>1 DEF OwnersInv, TypeOK, Numbered, Exists
  <1>6. FaultIsShared'
    <2>1. PICK s \in Imps : s = source[impl[h]]
      BY <1>5
    <2>2. fault' # "NONE" => Shared(s)
      BY <1>1, <2>1, UsedThenDeleted
    <2>3. fault' # "NONE" => Shared(s)'
      BY <1>1, <2>2 DEF Shared
    <2> QED  BY <2>3 DEF FaultIsShared
  <1> QED  BY <1>2, <1>3, <1>4, <1>6 DEF OwnersInv

-----------------------------------------------------------------------------
\* The invariant is inductive.
LEMMA StepKeepsOwners == OwnersInv /\ [Next]_vars => OwnersInv'
  <1> SUFFICES ASSUME OwnersInv, [Next]_vars PROVE OwnersInv'
    OBVIOUS
  <1>1. CASE UNCHANGED vars
    <2>1. /\ impl' = impl /\ source' = source /\ failed' = failed /\ heap' = heap
          /\ deleted' = deleted /\ fault' = fault
      BY <1>1 DEF vars
    <2>2. TypeOK' /\ Numbered' /\ DeletedByOwners'
      BY <2>1 DEF OwnersInv, TypeOK, Numbered, DeletedByOwners
    <2>3. TriesAreOwned'
      BY <2>1 DEF OwnersInv, TriesAreOwned, Exists
    <2>4. FaultIsShared'
      BY <2>1 DEF OwnersInv, FaultIsShared, Shared
    <2> QED  BY <2>2, <2>3, <2>4 DEF OwnersInv
  <1>2. CASE \E h \in Handles, c \in Imps, parts \in Documents : Construct(h, c, parts)
    BY <1>2, ConstructKeeps
  <1>3. CASE \E h \in Handles, c \in Imps, parts \in Documents : ConstructFails(h, c, parts)
    BY <1>3, ConstructFailsKeeps
  <1>4. CASE \E h, g \in Handles, c \in Imps : Copy(h, g, c)
    BY <1>4, CopyKeeps
  <1>5. CASE \E h, g \in Handles, c \in Imps : Assign(h, g, c)
    BY <1>5, AssignKeeps
  <1>6. CASE \E h \in Handles : Destroy(h)
    BY <1>6, DestroyKeeps
  <1>7. CASE \E h \in Handles : Validate(h)
    BY <1>7, ValidateKeeps
  <1> QED  BY <1>1, <1>2, <1>3, <1>4, <1>5, <1>6, <1>7 DEF Next

\* The invariant holds in every state.
THEOREM Ownership == Spec => []OwnersInv
  <1>1. Init => OwnersInv
    BY NothingOwned
  <1>2. OwnersInv /\ [Next]_vars => OwnersInv'
    BY StepKeepsOwners
  <1> QED  BY <1>1, <1>2, PTL DEF Spec

\* An OASValidator's tries are its own (oas_validator.cpp:17-31, path_trie.cpp:15-22, 40-48).
THEOREM OwnTries == Spec => []TriesAreOwned
  <1>1. OwnersInv => TriesAreOwned
    BY DEF OwnersInv
  <1> QED  BY <1>1, Ownership, PTL

\* A store is deleted twice or used after its deletion only where two share it
\* (oas_validator_imp.cpp:163-172).
THEOREM TwoOwnersPerFault == Spec => []FaultsNeedTwoOwners
  <1>1. OwnersInv => FaultsNeedTwoOwners
    <2> SUFFICES ASSUME OwnersInv PROVE FaultsNeedTwoOwners
      OBVIOUS
    <2>1. fault # "NONE" => \E c, b \in Imps : c # b /\ source[c] = source[b] /\ source[c] # 0
      BY DEF OwnersInv, FaultIsShared, Shared
    <2>2. ASSUME NEW h \in Handles, Exists(h), Used(h) \cap deleted # {}
          PROVE  \E c \in Imps \ {impl[h]} : source[c] = source[impl[h]] /\ <<"imp", c>> \in deleted
      BY <2>2, UsedThenDeleted
    <2> QED  BY <2>1, <2>2 DEF FaultsNeedTwoOwners
  <1> QED  BY <1>1, Ownership, PTL

-----------------------------------------------------------------------------
(* What is left behind.                                                    *)

\* The kinds of objects that the destructor of a store deletes with it.
StoreKinds == {"store", "query", "body"}

\* An imp and its tries belong to a handle.  What an imp's destructor deletes
\* of a store belongs to one too, or to no imp since the constructor threw.
HeapIsHeld ==
    \A o \in heap :
       /\ o[1] \in {"imp", "trie"} => \E h \in Handles : impl[h] = o[2]
       /\ o[1] \in StoreKinds => \/ o[2] \in failed
                                 \/ \E h \in Handles : impl[h] # 0 /\ source[impl[h]] = o[2]

\* Handles other than h keep what they hold, whatever becomes of h.
LEMMA OthersHold ==
    ASSUME OwnersInv, HeapIsHeld, NEW h \in Handles, NEW o \in heap,
           failed \subseteq failed',
           \A g \in Handles \ {h} : impl'[g] = impl[g],
           \A b \in Imps : source[b] # 0 => source'[b] = source[b]
    PROVE  /\ o[1] \in {"imp", "trie"} =>
                 impl[h] = o[2] \/ \E g \in Handles : impl'[g] = o[2]
           /\ o[1] \in StoreKinds =>
                 \/ o[2] \in failed'
                 \/ impl[h] # 0 /\ source[impl[h]] = o[2]
                 \/ \E g \in Handles : impl'[g] # 0 /\ source'[impl'[g]] = o[2]
<1>1. \A g \in Handles \ {h} : impl[g] # 0 =>
         impl'[g] # 0 /\ source'[impl'[g]] = source[impl[g]]
  BY DEF OwnersInv, TypeOK, Numbered
<1>2. ASSUME o[1] \in {"imp", "trie"}
      PROVE  impl[h] = o[2] \/ \E g \in Handles : impl'[g] = o[2]
  <2>1. PICK g \in Handles : impl[g] = o[2]
    BY <1>2 DEF HeapIsHeld
  <2>2. CASE g = h
    BY <2>1, <2>2
  <2>3. CASE g # h
    BY <2>1, <2>3
  <2> QED  BY <2>2, <2>3
<1>3. ASSUME o[1] \in StoreKinds, o[2] \notin failed
      PROVE  \/ impl[h] # 0 /\ source[impl[h]] = o[2]
             \/ \E g \in Handles : impl'[g] # 0 /\ source'[impl'[g]] = o[2]
  <2>1. PICK g \in Handles : impl[g] # 0 /\ source[impl[g]] = o[2]
    BY <1>3 DEF HeapIsHeld
  <2> QED  BY <1>1, <2>1
<1> QED  BY <1>2, <1>3

\* What a constructor makes is held by its handle, or left to a failed number
\* (oas_validator.cpp:10-19).
LEMMA MadeIsHeld ==
    ASSUME OwnersInv, HeapIsHeld, NEW h \in Handles, NEW c \in Imps,
           \/ \E parts \in Documents : Construct(h, c, parts) \/ ConstructFails(h, c, parts)
           \/ \E g \in Handles : Copy(h, g, c)
    PROVE  HeapIsHeld'
<1>1. /\ impl[h] = 0 /\ IsNext(c) /\ failed \subseteq failed'
      /\ \A g \in Handles \ {h} : impl'[g] = impl[g]
      /\ impl \in [Handles -> {0} \cup Imps] /\ source \in [Imps -> {0} \cup Imps]
      /\ c # 0
  BY Fresh, ZenonT(60) DEF Construct, ConstructFails, Copy, MayExist, OwnersInv, TypeOK
<1>2. \A b \in Imps : source[b] # 0 => source'[b] = source[b]
  BY <1>1, Fresh DEF Construct, ConstructFails, Copy
<1>3. ASSUME NEW o \in heap
      PROVE  /\ o[1] \in {"imp", "trie"} => \E g \in Handles : impl'[g] = o[2]
             /\ o[1] \in StoreKinds =>
                   \/ o[2] \in failed'
                   \/ \E g \in Handles : impl'[g] # 0 /\ source'[impl'[g]] = o[2]
  <2>1. o[2] # 0
    BY DEF OwnersInv, Numbered, Imps
  <2> QED  BY <1>1, <1>2, <2>1, OthersHold
<1>4. ASSUME NEW o \in heap' \ heap
      PROVE  /\ o[1] \in {"imp", "trie"} => \E g \in Handles : impl'[g] = o[2]
             /\ o[1] \in StoreKinds =>
                   \/ o[2] \in failed'
                   \/ \E g \in Handles : impl'[g] # 0 /\ source'[impl'[g]] = o[2]
  <2>1. ASSUME NEW parts \in Documents, Construct(h, c, parts)
        PROVE  o[2] = c /\ impl'[h] = c /\ source'[c] = c
    <3>1. \A p \in Store(parts, c) : p[2] = c
      BY ObjectsOf, Zenon DEF Store
    <3>2. \A p \in {"imp", "trie"} \X {c} : p[2] = c
      BY ObjectsOf, Zenon
    <3> QED  BY <1>1, <2>1, <3>1, <3>2 DEF Construct
  <2>2. ASSUME NEW parts \in Documents, ConstructFails(h, c, parts)
        PROVE  o[2] \in failed' /\ o[1] \notin {"imp", "trie"}
    <3>1. o \in Store(parts, c)
      BY <1>4, <2>2 DEF ConstructFails
    <3>2. o[2] = c
      BY <3>1, ObjectsOf, Zenon DEF Store
    <3>3. o[1] \notin {"imp", "trie"}
      <4>1. o = <<o[1], o[2]>>
        BY <3>1, StoreObjects
      <4>2. <<o[1], o[2]>> \notin {"imp", "trie"} \X {c}
        BY <3>1, <4>1, StoreObjects
      <4> QED  BY <3>2, <4>2
    <3> QED  BY <2>2, <3>2, <3>3 DEF ConstructFails
  <2>3. ASSUME NEW g \in Handles, Copy(h, g, c)
        PROVE  o[2] = c /\ o[1] \in {"imp", "trie", "spare"} /\ impl'[h] = c
    <3>1. o \in {"imp", "trie", "spare"} \X {c}
      BY <1>4, <2>3 DEF Copy, NewCopy
    <3> QED  BY <1>1, <2>3, <3>1, ObjectsOf DEF Copy
  <2>4. "imp" \notin StoreKinds /\ "trie" \notin StoreKinds /\ "spare" \notin StoreKinds
    BY DEF StoreKinds
  <2> QED  BY <1>1, <2>1, <2>2, <2>3, <2>4
<1> QED  BY <1>3, <1>4 DEF HeapIsHeld

\* What a destroyed or overwritten handle held is deleted (oas_validator.cpp:
\* 21-30, 90-93, validators_store.cpp:119-127).
LEMMA DeletedIsNotHeld ==
    ASSUME OwnersInv, HeapIsHeld, NEW h \in Handles,
           Destroy(h) \/ \E g \in Handles, c \in Imps : Assign(h, g, c)
    PROVE  HeapIsHeld'
<1>1. PICK created :
        /\ Exists(h) /\ Delete(impl[h], created) /\ failed' = failed
        /\ \A g \in Handles \ {h} : impl'[g] = impl[g]
        /\ \A b \in Imps : source[b] # 0 => source'[b] = source[b]
        /\ \A o \in created : o[2] = impl'[h] /\ o[1] \in {"imp", "trie", "spare"}
  <2>1. CASE Destroy(h)
    <3>1. impl \in [Handles -> {0} \cup Imps]
      BY DEF OwnersInv, TypeOK
    <3> QED  BY <2>1, <3>1 DEF Destroy
  <2>2. CASE \E g \in Handles, c \in Imps : Assign(h, g, c)
    <3>1. PICK g \in Handles, c \in Imps : Assign(h, g, c)
      BY <2>2
    <3>2. source[c] = 0 /\ impl \in [Handles -> {0} \cup Imps] /\ source \in [Imps -> {0} \cup Imps]
      BY <3>1, Fresh DEF Assign, OwnersInv, TypeOK
    <3>3. \A o \in NewCopy(c) : o[2] = c /\ o[1] \in {"imp", "trie", "spare"}
      BY ObjectsOf, Zenon DEF NewCopy
    <3> QED  BY <3>1, <3>2, <3>3 DEF Assign
  <2> QED  BY <2>1, <2>2
<1>2. heap' = (heap \ Doomed(impl[h])) \cup created
  BY <1>1 DEF Delete
<1>3. ASSUME NEW o \in heap \ Doomed(impl[h])
      PROVE  /\ o[1] \in {"imp", "trie"} => \E g \in Handles : impl'[g] = o[2]
             /\ o[1] \in StoreKinds =>
                   \/ o[2] \in failed'
                   \/ \E g \in Handles : impl'[g] # 0 /\ source'[impl'[g]] = o[2]
  <2>1. o = <<o[1], o[2]>>
    BY DEF OwnersInv, Numbered
  <2>2. ~(o[1] \in {"imp", "trie"} /\ o[2] = impl[h])
    BY <1>3, <2>1 DEF Doomed
  <2>3. ~(o[1] \in StoreKinds /\ o[2] = source[impl[h]])
    BY <1>3 DEF Doomed, StoreKinds
  <2> QED  BY <1>1, <2>2, <2>3, OthersHold
<1>4. "imp" \notin StoreKinds /\ "trie" \notin StoreKinds /\ "spare" \notin StoreKinds
  BY DEF StoreKinds
<1> QED  BY <1>1, <1>2, <1>3, <1>4 DEF HeapIsHeld

\* Whatever exists in any state is held, or one of the known leaks.
THEOREM HeldHeap == Spec => []HeapIsHeld
<1>1. Init => HeapIsHeld
  BY DEF Init, HeapIsHeld
<1>2. OwnersInv /\ HeapIsHeld /\ [Next]_vars => HeapIsHeld'
  <2> SUFFICES ASSUME OwnersInv, HeapIsHeld, [Next]_vars PROVE HeapIsHeld'
    OBVIOUS
  <2>1. CASE UNCHANGED vars
    BY <2>1 DEF vars, HeapIsHeld
  <2>2. CASE \E h \in Handles, c \in Imps, parts \in Documents :
               Construct(h, c, parts) \/ ConstructFails(h, c, parts)
    BY <2>2, MadeIsHeld
  <2>3. CASE \E h, g \in Handles, c \in Imps : Copy(h, g, c)
    BY <2>3, MadeIsHeld
  <2>4. CASE \E h, g \in Handles, c \in Imps : Assign(h, g, c)
    BY <2>4, DeletedIsNotHeld
  <2>5. CASE \E h \in Handles : Destroy(h)
    BY <2>5, DeletedIsNotHeld
  <2>6. CASE \E h \in Handles : Validate(h)
    BY <2>6 DEF Validate, HeapIsHeld
  <2> QED  BY <2>1, <2>2, <2>3, <2>4, <2>5, <2>6 DEF Next
<1> QED  BY <1>1, <1>2, Ownership, PTL DEF Spec

\* Once a program has destroyed every OASValidator it made, nothing of them is
\* left but path and header parameter validators, deserializers and the spare
\* roots of copied tries (validators_store.cpp:119-127, path_trie.cpp:149-164).
THEOREM KnownLeaks == Spec => []OnlyKnownLeaks
<1>1. OwnersInv /\ HeapIsHeld => OnlyKnownLeaks
  <2> SUFFICES ASSUME OwnersInv, HeapIsHeld, \A h \in Handles : impl[h] = 0,
                      NEW o \in heap, o[2] \notin failed
               PROVE  \/ o[1] \in {"path", "header", "spare"}
                      \/ \E p \in DOMAIN Deserializer : o[1] = Deserializer[p]
    BY DEF OnlyKnownLeaks
  <2>1. o[1] \in Kinds /\ o[2] \in Imps
    BY DEF OwnersInv, Numbered
  <2>2. o[2] # 0
    BY <2>1 DEF Imps
  <2>3. o[1] \notin {"imp", "trie"} /\ o[1] \notin StoreKinds
    BY <2>2 DEF HeapIsHeld
  <2>4. Parts \ {"body"} \subseteq DOMAIN Deserializer
    BY DEF Parts, Deserializer
  <2> QED  BY <2>1, <2>3, <2>4 DEF Kinds, Parts, StoreKinds
<1> QED  BY <1>1, Ownership, HeldHeap, PTL
=============================================================================
