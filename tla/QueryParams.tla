----------------------------- MODULE QueryParams ----------------------------
(***************************************************************************)
(* ValidatorsStore::ValidateQueryParams on the characters of a query       *)
(* string: a first loop looks for the name of every declared parameter, a  *)
(* second passes to each validator the range from its name to the next     *)
(* name found.                                                             *)
(*                                                                         *)
(* Positions count from 1, as in sequences; a range is its first position  *)
(* and the position after its last.                                        *)
(***************************************************************************)
EXTENDS Naturals, Sequences, FiniteSetsExt

CONSTANTS Stores, \* vectors of query parameters: their names and whether
                  \* they are required
          Queries \* http_path from its '?' on, empty when it has none

Separators == {"?", "&"}

ASSUME QueriesAssumption ==
    /\ Stores \subseteq Seq([name : Seq(STRING), required : BOOLEAN])
    /\ Queries \subseteq Seq(STRING)
    /\ \A s \in Stores : \A k \in 1..Len(s) :
         /\ s[k].name # <<>>
         /\ \A j \in 1..Len(s[k].name) : s[k].name[j] \notin Separators \cup {"="}
         /\ \A j \in 1..(k - 1) : s[j].name # s[k].name
    /\ \A q \in Queries : q = <<>> \/ q[1] = "?"

VARIABLES pc,        \* "locate" and "validate" are the two loops
          store,     \* query_param_validators_
          query,     \* the string
          i,         \* the parameter a loop is at
          start_map, \* where the name of a parameter was found
          starts,    \* the places found and the end
          passed,    \* the ranges passed to ValidateParam so far
          outcome    \* why the call ended

locals == <<i, start_map, starts, passed>>
vars == <<pc, store, query, locals, outcome>>

NoStarts == [n \in {} |-> 1]

Init == /\ pc = "idle"
        /\ store = <<>> /\ query = <<>>
        /\ i = 1 /\ start_map = NoStarts /\ starts = {} /\ passed = <<>>
        /\ outcome = "PENDING"

Call(s, q) ==
    /\ pc = "idle"
    /\ pc' = "locate"
    /\ store' = s
    /\ query' = q
    /\ UNCHANGED <<locals, outcome>>

-----------------------------------------------------------------------------
(* The first loop: query.find(name).                                       *)

OccursAt(name, k) == /\ k + Len(name) <= Len(query) + 1
                     /\ SubSeq(query, k, k + Len(name) - 1) = name
Occurrences(name) == { k \in 1..Len(query) : OccursAt(name, k) }

AfterSeparator(k) == k > 1 /\ query[k - 1] \in Separators

AtLocate == pc = "locate" /\ i <= Len(store)
param == store[i]
found == Occurrences(param.name)
start == Min(found)

Done(result) == pc' = "done" /\ outcome' = result

Omitted ==
    /\ AtLocate
    /\ found = {}
    /\ ~param.required
    /\ i' = i + 1
    /\ UNCHANGED <<pc, store, query, start_map, starts, passed, outcome>>

Missing ==
    /\ AtLocate
    /\ found = {}
    /\ param.required
    /\ Done("MISSING")
    /\ UNCHANGED <<store, query, locals>>

Misplaced ==
    /\ AtLocate
    /\ found # {}
    /\ ~AfterSeparator(start)
    /\ Done("MISPLACED")
    /\ UNCHANGED <<store, query, locals>>

\* Mutant: what precedes the name is not looked at.
LocatedAnywhere ==
    /\ AtLocate
    /\ found # {}
    /\ i' = i + 1
    /\ start_map' = [n \in DOMAIN start_map \cup {param.name} |->
                        IF n = param.name THEN start ELSE start_map[n]]
    /\ starts' = starts \cup {start}
    /\ UNCHANGED <<pc, store, query, passed, outcome>>

Located ==
    /\ AtLocate
    /\ found # {}
    /\ AfterSeparator(start)
    /\ i' = i + 1
    /\ start_map' = [n \in DOMAIN start_map \cup {param.name} |->
                        IF n = param.name THEN start ELSE start_map[n]]
    /\ starts' = starts \cup {start}
    /\ UNCHANGED <<pc, store, query, passed, outcome>>

\* Mutant: the end is the length, and every range gives up one character.
AllLocatedShort ==
    /\ pc = "locate"
    /\ i > Len(store)
    /\ pc' = "validate"
    /\ i' = 1
    /\ starts' = starts \cup {Len(query) + 1}
    /\ UNCHANGED <<store, query, start_map, passed, outcome>>

\* The end counts as the place of a name after one more separator.
AllLocated ==
    /\ pc = "locate"
    /\ i > Len(store)
    /\ pc' = "validate"
    /\ i' = 1
    /\ starts' = starts \cup {Len(query) + 2}
    /\ UNCHANGED <<store, query, start_map, passed, outcome>>

-----------------------------------------------------------------------------
(* The second loop.                                                        *)

AtValidate == pc = "validate" /\ i <= Len(store)

Skipped ==
    /\ AtValidate
    /\ param.name \notin DOMAIN start_map
    /\ i' = i + 1
    /\ UNCHANGED <<pc, store, query, start_map, starts, passed, outcome>>

\* *std::next(starts.find(beg)) - 1: up to the separator of the next name.
EndOf(beg) == Min({ k \in starts : k > beg }) - 1

(* ValidateParam is given the range, and may accept it or not.             *)
Validated ==
    /\ AtValidate
    /\ param.name \in DOMAIN start_map
    /\ LET beg == start_map[param.name]
       IN  passed' = Append(passed, [name |-> param.name, beg |-> beg, end |-> EndOf(beg)])
    /\ \/ i' = i + 1 /\ UNCHANGED <<pc, outcome>>
       \/ Done("INVALID") /\ UNCHANGED i
    /\ UNCHANGED <<store, query, start_map, starts>>

AllValidated ==
    /\ pc = "validate"
    /\ i > Len(store)
    /\ Done("NONE")
    /\ UNCHANGED <<store, query, locals>>

Return ==
    /\ pc = "done"
    /\ pc' = "idle"
    /\ store' = <<>> /\ query' = <<>>
    /\ i' = 1 /\ start_map' = NoStarts /\ starts' = {} /\ passed' = <<>>
    /\ outcome' = "PENDING"

-----------------------------------------------------------------------------
ValidateQueryParams ==
    \/ Omitted \/ Missing \/ Misplaced \/ Located \/ AllLocated
    \/ Skipped \/ Validated \/ AllValidated

Next == \/ ValidateQueryParams
        \/ Return
        \/ pc = "idle" /\ \E s \in Stores, q \in Queries : Call(s, q)

Spec == Init /\ [][Next]_vars

-----------------------------------------------------------------------------
Names == { store[k].name : k \in 1..Len(store) }

TypeOK ==
    /\ pc \in {"idle", "locate", "validate", "done"}
    /\ i \in 1..(Len(store) + 1)
    /\ DOMAIN start_map \subseteq Names
    /\ \A n \in DOMAIN start_map : start_map[n] \in 1..Len(query)
    /\ starts \subseteq 1..(Len(query) + 2)
    /\ Len(passed) <= Len(store)
    /\ outcome \in {"PENDING", "NONE", "MISSING", "MISPLACED", "INVALID"}

(* Whatever the query, a range passed to a validator lies in the string,   *)
(* begins with the parameter's name where a parameter may begin, and holds *)
(* the place of another parameter found only if both begin there; two      *)
(* ranges with different beginnings are apart (validators_store.cpp:65-93).*)
RangesApart ==
    \A k \in 1..Len(passed) :
        LET r == passed[k]
        IN  /\ AfterSeparator(r.beg)
            /\ OccursAt(r.name, r.beg)
            /\ r.end <= Len(query) + 1
            /\ \A n \in DOMAIN start_map : start_map[n] <= r.beg \/ start_map[n] > r.end
            /\ \A j \in 1..(k - 1) : \/ passed[j].beg = r.beg
                                     \/ passed[j].end < r.beg
                                     \/ r.end < passed[j].beg

-----------------------------------------------------------------------------
(* A reference: the query split at its separators.                         *)

PieceStarts == { k \in 1..(Len(query) + 1) : AfterSeparator(k) }

Owns(name, k) == /\ OccursAt(name, k)
                 /\ k + Len(name) <= Len(query)
                 /\ query[k + Len(name)] = "="

PiecesOf(name) == { k \in PieceStarts : Owns(name, k) }

(* A query that nothing can be mistaken in: each piece is a declared name, *)
(* '=' and a value, the names occur nowhere else, and the pieces of one    *)
(* parameter are together.                                                 *)
Regular ==
    /\ \A k \in PieceStarts : \E n \in Names : Owns(n, k)
    /\ \A n \in Names : Occurrences(n) = PiecesOf(n)
    /\ \A n \in Names : \A j, k \in PiecesOf(n) :
         \A m \in PieceStarts : j < m /\ m < k => m \in PiecesOf(n)

\* From the first piece of a parameter to the end of its last one.
Reference(name) ==
    LET last == Max(PiecesOf(name))
    IN  [name |-> name, beg |-> Min(PiecesOf(name)),
         end |-> Min({ k \in last..(Len(query) + 1) :
                         k = Len(query) + 1 \/ query[k] \in Separators })]

(* In a regular query every validator is given exactly the pieces of its   *)
(* parameter, in the order of the document, and a call ends without one    *)
(* only for a required parameter that has none                             *)
(* (validators_store.cpp:63-100).                                          *)
RegularQueriesAreSplit ==
    pc = "done" /\ Regular =>
        /\ \A k \in 1..Len(passed) : passed[k] = Reference(passed[k].name)
        /\ outcome # "MISPLACED"
        /\ outcome = "MISSING" <=> \E k \in 1..Len(store) :
                                       store[k].required /\ PiecesOf(store[k].name) = {}
        /\ outcome = "NONE" => { passed[k].name : k \in 1..Len(passed) } =
                               { n \in Names : PiecesOf(n) # {} }

(* The message of validators_store.cpp:77, "should start with '?' or '&'", *)
(* is written of a parameter that does not do so anywhere.                 *)
MisplacedNowhereInPlace ==
    pc = "done" /\ outcome = "MISPLACED" => PiecesOf(param.name) = {}

=============================================================================
