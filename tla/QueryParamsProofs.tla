------------------------- MODULE QueryParamsProofs --------------------------
(***************************************************************************)
(* The lookup of query parameters: for every vector of parameters and      *)
(* every query, the ranges passed to the validators begin with their       *)
(* parameters' names and are apart, and a query without anything to        *)
(* mistake is split as its separators split it.                            *)
(*                                                                         *)
(* The first loop's maps are what the rest depends on.  The invariant says *)
(* that start_map holds the first occurrence of every name the loop has    *)
(* passed and found, that starts holds those places and in the second loop *)
(* the end, and that every range passed is the one that the maps give.     *)
(***************************************************************************)
EXTENDS QueryParams, SequenceTheorems, WellFoundedInduction, TLAPS

\* The calls that find every name they look for, up to their end.
Locating == pc = "locate" \/ (pc = "done" /\ outcome \in {"MISSING", "MISPLACED"})
Validating == pc = "validate" \/ (pc = "done" /\ outcome \in {"NONE", "INVALID"})

CallInv ==
    /\ pc \in {"idle", "locate", "validate", "done"}
    /\ (pc # "done") <=> (outcome = "PENDING")
    /\ outcome \in {"PENDING", "NONE", "MISSING", "MISPLACED", "INVALID"}
    /\ store \in Stores \cup {<<>>} /\ query \in Queries \cup {<<>>}
    /\ i \in Nat \ {0}

\* A name in start_map is a declared one, at its first occurrence.
MapInv ==
    \A n \in DOMAIN start_map :
       /\ n \in Names /\ Occurrences(n) # {}
       /\ start_map[n] = Min(Occurrences(n)) /\ AfterSeparator(start_map[n])

Places == { start_map[n] : n \in DOMAIN start_map }

\* The loop has found the k-th parameter, or may do without it.
Seen(k) == \/ store[k].name \in DOMAIN start_map
           \/ Occurrences(store[k].name) = {} /\ ~store[k].required

LocateInv ==
    /\ pc = "idle" => DOMAIN start_map = {} /\ starts = {} /\ i = 1
    /\ Locating => starts = Places
    /\ pc = "idle" \/ Locating => passed = <<>>
    /\ pc = "locate" => \A k \in 1..Len(store) : k < i => Seen(k)
    /\ outcome = "MISSING" =>
          \E k \in 1..Len(store) : store[k].required /\ Occurrences(store[k].name) = {}
    /\ outcome = "MISPLACED" =>
          \E n \in Names : Occurrences(n) # {} /\ ~AfterSeparator(Min(Occurrences(n)))

\* The ranges of the parameters found.
RangeOf(n) == [name |-> n, beg |-> start_map[n], end |-> EndOf(start_map[n])]
Ranges == { RangeOf(n) : n \in DOMAIN start_map }

ValidateInv ==
    Validating =>
        /\ starts = Places \cup {Len(query) + 2}
        /\ \A k \in 1..Len(store) : Seen(k)
        /\ passed \in Seq(Ranges)
        /\ outcome \in {"PENDING", "NONE"} =>
              \A k \in 1..Len(store) : k < i /\ store[k].name \in DOMAIN start_map =>
                 \E j \in 1..Len(passed) : passed[j].name = store[k].name
        /\ outcome = "NONE" => i > Len(store)

Inv == CallInv /\ MapInv /\ LocateInv /\ ValidateInv

-----------------------------------------------------------------------------
(* Positions.                                                              *)

\* *starts.find, std::next and query.find are the first of some positions.
LEMMA LeastExists ==
    ASSUME NEW S \in SUBSET Nat, S # {}
    PROVE  Min(S) \in S /\ \A k \in S : Min(S) <= k
<1>1. PICK n \in S : \A m \in S : ~ (<<m, n>> \in OpToRel(<, Nat))
  BY NatLessThanWellFounded, WFMin
<1>2. \A k, m \in Nat : k < m => <<k, m>> \in OpToRel(<, Nat)
  BY Zenon DEF OpToRel
<1>3. n \in Nat /\ \A m \in S : m \in Nat /\ ~ (m < n)
  BY <1>1, <1>2, Zenon
<1>4. \A m \in S : n <= m
  BY <1>3
<1> QED  BY <1>4 DEF Min

LEMMA LeastIs ==
    ASSUME NEW S \in SUBSET Nat, NEW m \in S, \A k \in S : m <= k
    PROVE  Min(S) = m
<1>1. Min(S) \in S /\ Min(S) <= m
  BY LeastExists
<1>2. Min(S) \in Nat /\ m \in Nat /\ m <= Min(S)
  BY <1>1
<1> QED  BY <1>1, <1>2

LEMMA GreatestExists ==
    ASSUME NEW n \in Nat, NEW S \in SUBSET (1..n), S # {}
    PROVE  Max(S) \in S /\ \A k \in S : k <= Max(S)
<1> DEFINE T == { n - k : k \in S }
<1>1. T \in SUBSET Nat /\ T # {}
  <2>1. \A k \in S : n - k \in Nat
    OBVIOUS
  <2>2. PICK k \in S : TRUE
    OBVIOUS
  <2> QED  BY <2>1, <2>2
<1>2. Min(T) \in T /\ \A k \in T : Min(T) <= k
  BY <1>1, LeastExists
<1> HIDE DEF T
<1>3. PICK k \in S : Min(T) = n - k
  BY <1>2 DEF T
<1>4. \A j \in S : n - k <= n - j
  BY <1>2, <1>3 DEF T
<1>5. \A j \in S : j <= k
  BY <1>4
<1> QED  BY <1>5 DEF Max

\* A call's store and query are sequences.
LEMMA Typed ==
    ASSUME CallInv
    PROVE  /\ Len(store) \in Nat /\ Len(query) \in Nat /\ query \in Seq(STRING)
           /\ \A k \in 1..Len(store) : /\ store[k].name \in Seq(STRING) /\ store[k].name \in Names
                                       /\ store[k].required \in BOOLEAN
<1> DEFINE Params == [name : Seq(STRING), required : BOOLEAN]
<1>1. store \in Seq(Params) /\ query \in Seq(STRING)
  <2>1. \A S : <<>> \in Seq(S)
    BY EmptySeq, Zenon
  <2>2. Stores \subseteq Seq(Params) /\ Queries \subseteq Seq(STRING)
    BY QueriesAssumption
  <2> HIDE DEF Params
  <2> QED  BY <2>1, <2>2 DEF CallInv
<1> HIDE DEF Params
<1>2. Len(store) \in Nat /\ Len(query) \in Nat /\ \A k \in 1..Len(store) : store[k] \in Params
  BY <1>1, LenProperties, ElementOfSeq
<1> QED  BY <1>1, <1>2 DEF Names, Params

\* A name in start_map is at a position of the query, as are all the places.
LEMMA PlacesInQuery ==
    ASSUME CallInv, MapInv
    PROVE  /\ \A n \in DOMAIN start_map :
                 /\ start_map[n] \in 1..Len(query) /\ OccursAt(n, start_map[n])
                 /\ \A k \in Occurrences(n) : start_map[n] <= k
           /\ Places \subseteq 1..Len(query) /\ Len(query) \in Nat
<1>1. Len(query) \in Nat
  BY Typed
<1>2. ASSUME NEW n \in DOMAIN start_map
      PROVE  /\ start_map[n] \in 1..Len(query) /\ OccursAt(n, start_map[n])
             /\ \A k \in Occurrences(n) : start_map[n] <= k
  <2>1. Occurrences(n) \in SUBSET Nat /\ Occurrences(n) # {} /\ start_map[n] = Min(Occurrences(n))
    <3>1. Occurrences(n) # {} /\ start_map[n] = Min(Occurrences(n))
      BY Zenon DEF MapInv
    <3>2. Occurrences(n) \in SUBSET Nat
      BY <1>1 DEF Occurrences
    <3> QED  BY <3>1, <3>2
  <2>2. start_map[n] \in Occurrences(n) /\ \A k \in Occurrences(n) : start_map[n] <= k
    BY <2>1, LeastExists
  <2> QED  BY <2>2 DEF Occurrences
<1> QED  BY <1>1, <1>2 DEF Places

\* A range ends before the place after its beginning, whichever that is
\* (validators_store.cpp:86-93).
LEMMA RangeEnds ==
    ASSUME CallInv, MapInv, starts = Places \cup {Len(query) + 2}, NEW n \in DOMAIN start_map
    PROVE  LET r == RangeOf(n)
           IN  /\ r.name = n /\ r.beg = start_map[n]
               /\ r.beg \in Nat /\ r.end \in Nat /\ r.beg \in starts
               /\ r.beg <= r.end /\ r.end <= Len(query) + 1
               /\ r.end + 1 \in starts
               /\ \A k \in starts : k \in Nat /\ (k <= r.beg \/ k > r.end)
<1> DEFINE beg == start_map[n]
           later == { k \in starts : k > beg }
           m == Min(later)
<1>1. /\ Len(query) \in Nat /\ beg \in 1..Len(query) /\ beg \in Places
      /\ \A k \in starts : k \in Nat /\ k <= Len(query) + 2
  BY PlacesInQuery DEF Places
<1>2. later \in SUBSET Nat /\ Len(query) + 2 \in later
  BY <1>1
<1>3. m \in later /\ \A k \in later : m <= k
  BY <1>2, LeastExists
<1>4. EndOf(beg) = m - 1
  BY DEF EndOf
<1> HIDE DEF m, beg
<1>5. \A k \in starts : k \in Nat /\ (k <= beg \/ k > m - 1)
  BY <1>1, <1>3
<1>6. /\ beg \in Nat /\ m - 1 \in Nat /\ beg <= m - 1 /\ m - 1 <= Len(query) + 1
      /\ m - 1 + 1 \in starts /\ beg \in starts
  BY <1>1, <1>3
<1>7. RangeOf(n).name = n /\ RangeOf(n).beg = beg /\ RangeOf(n).end = m - 1
  BY <1>4 DEF RangeOf, beg
<1> QED  BY <1>5, <1>6, <1>7 DEF beg

-----------------------------------------------------------------------------
(* The steps.                                                              *)

\* What is said of the query and the store stays as long as they do.
LEMMA SameCall ==
    ASSUME UNCHANGED <<store, query>>
    PROVE  /\ \A n : Occurrences(n)' = Occurrences(n)
           /\ \A k : AfterSeparator(k)' <=> AfterSeparator(k)
           /\ Names' = Names
BY DEF Occurrences, OccursAt, AfterSeparator, Names

LEMMA SameMap ==
    ASSUME MapInv, UNCHANGED <<store, query, start_map>>
    PROVE  /\ MapInv'
           /\ Places' = Places
           /\ \A k : Seen(k)' <=> Seen(k)
           /\ starts' = starts => Ranges' = Ranges
<1>1. MapInv'
  BY SameCall DEF MapInv
<1>2. Places' = Places
  BY DEF Places
<1>3. \A k : Seen(k)' <=> Seen(k)
  BY SameCall DEF Seen
<1>4. starts' = starts => Ranges' = Ranges
  BY DEF Ranges, RangeOf, EndOf
<1> QED  BY <1>1, <1>2, <1>3, <1>4

\* The parameter a loop is at.
LEMMA AtParam ==
    ASSUME CallInv, i <= Len(store)
    PROVE  /\ i \in 1..Len(store) /\ param = store[i] /\ param.name \in Names
           /\ \A k \in 1..Len(store) : k < i + 1 => k < i \/ k = i
BY Typed DEF CallInv, param

(* The first loop goes on when a name is not there and not needed          *)
(* (validators_store.cpp:67-72).                                           *)
LEMMA OmittedInv ==
    ASSUME Inv, Omitted
    PROVE  Inv'
<1> USE DEF Omitted, AtLocate
<1>1. /\ i \in 1..Len(store) /\ pc = "locate" /\ Seen(i)
      /\ \A k \in 1..Len(store) : k < i' => k < i \/ k = i
  BY AtParam DEF Inv, Seen, found, param
<1>2. CallInv'
  BY DEF Inv, CallInv
<1>3. MapInv' /\ Places' = Places /\ \A k : Seen(k)' <=> Seen(k)
  BY SameMap DEF Inv
<1>4. LocateInv'
  <2>1. \A k \in 1..Len(store) : k < i' => Seen(k)
    BY <1>1 DEF Inv, LocateInv
  <2>2. starts = Places /\ passed = <<>> /\ outcome = "PENDING"
    BY <1>1 DEF Inv, CallInv, LocateInv, Locating
  <2> QED  BY <1>1, <1>3, <2>1, <2>2 DEF LocateInv
<1>5. ValidateInv'
  BY <1>1, <1>2 DEF ValidateInv, Validating
<1> QED  BY <1>2, <1>3, <1>4, <1>5 DEF Inv

(* A call ends for want of a required parameter (validators_store.cpp:     *)
(* 67-71), or at a name that is not after a separator (73-77).             *)
LEMMA NotLocatedInv ==
    ASSUME Inv, Missing \/ Misplaced
    PROVE  Inv'
<1> USE DEF Missing, Misplaced, AtLocate, Done
<1>1. /\ i \in 1..Len(store) /\ pc = "locate" /\ pc' = "done" /\ UNCHANGED <<store, query, locals>>
      /\ param = store[i] /\ param.name \in Names
  BY AtParam DEF Inv
<1>2. CallInv' /\ outcome' \in {"MISSING", "MISPLACED"}
  BY <1>1 DEF Inv, CallInv, locals
<1>3. MapInv' /\ Places' = Places
  BY <1>1, SameMap DEF Inv, locals
<1>4. \A n : Occurrences(n)' = Occurrences(n) /\ \A k : AfterSeparator(k)' <=> AfterSeparator(k)
  BY <1>1, SameCall
<1>5. starts = Places /\ passed = <<>>
  BY <1>1 DEF Inv, LocateInv, Locating
<1>6. outcome' = "MISSING" =>
         \E k \in 1..Len(store) : store[k].required /\ Occurrences(store[k].name) = {}
  BY <1>1 DEF found
<1>7. outcome' = "MISPLACED" =>
         \E n \in Names : Occurrences(n) # {} /\ ~AfterSeparator(Min(Occurrences(n)))
  BY <1>1 DEF found, start
<1>8. Names' = Names
  BY <1>1, SameCall
<1>9. LocateInv'
  BY <1>1, <1>2, <1>3, <1>4, <1>5, <1>6, <1>7, <1>8 DEF LocateInv, locals
<1>10. ValidateInv'
  BY <1>1, <1>2 DEF ValidateInv, Validating
<1> QED  BY <1>2, <1>3, <1>9, <1>10 DEF Inv

(* A name found after a separator joins the maps (validators_store.cpp:    *)
(* 73-80).                                                                 *)
LEMMA LocatedInv ==
    ASSUME Inv, Located
    PROVE  Inv'
<1> USE DEF Located, AtLocate
<1>1. /\ i \in 1..Len(store) /\ pc = "locate" /\ param = store[i] /\ param.name \in Names
      /\ \A k \in 1..Len(store) : k < i' => k < i \/ k = i
  BY AtParam DEF Inv
<1>2. CallInv'
  BY DEF Inv, CallInv
<1>3. /\ \A n : Occurrences(n)' = Occurrences(n)
      /\ \A k : AfterSeparator(k)' <=> AfterSeparator(k)
      /\ Names' = Names
  BY SameCall
<1>4. /\ DOMAIN start_map' = DOMAIN start_map \cup {param.name}
      /\ start_map'[param.name] = start
      /\ \A n \in DOMAIN start_map : start_map'[n] = start_map[n]
  <2>1. param.name \in DOMAIN start_map => start_map[param.name] = start
    BY DEF Inv, MapInv, start, found
  <2> QED  BY <2>1
<1>5. MapInv'
  <2> SUFFICES ASSUME NEW n \in DOMAIN start_map'
               PROVE  /\ n \in Names /\ Occurrences(n) # {}
                      /\ start_map'[n] = Min(Occurrences(n)) /\ AfterSeparator(start_map'[n])
    BY <1>3 DEF MapInv
  <2>1. CASE n = param.name
    BY <1>1, <1>4, <2>1 DEF start, found
  <2>2. CASE n \in DOMAIN start_map
    BY <1>4, <2>2 DEF Inv, MapInv
  <2> QED  BY <1>4, <2>1, <2>2
<1>6. starts = Places /\ passed = <<>> /\ outcome = "PENDING"
  BY <1>1 DEF Inv, CallInv, LocateInv, Locating
<1>7. starts' = Places'
  <2>1. Places' = Places \cup {start}
    BY <1>4 DEF Places
  <2> QED  BY <1>6, <2>1
<1>8. ASSUME NEW k \in 1..Len(store), k < i'
      PROVE  Seen(k)'
  BY <1>1, <1>3, <1>4, <1>8 DEF Inv, LocateInv, Seen
<1>9. LocateInv'
  BY <1>1, <1>6, <1>7, <1>8 DEF LocateInv
<1>10. ValidateInv'
  BY <1>1, <1>2 DEF ValidateInv, Validating
<1> QED  BY <1>2, <1>5, <1>9, <1>10 DEF Inv

(* The end joins the places found before the second loop begins            *)
(* (validators_store.cpp:84).                                              *)
LEMMA AllLocatedInv ==
    ASSUME Inv, AllLocated
    PROVE  Inv'
<1> USE DEF AllLocated
<1>1. pc = "locate" /\ pc' = "validate" /\ Len(store) \in Nat /\ i \in Nat /\ i > Len(store)
  BY Typed DEF Inv, CallInv
<1>2. CallInv'
  BY DEF Inv, CallInv
<1>3. MapInv' /\ Places' = Places /\ \A k : Seen(k)' <=> Seen(k)
  BY SameMap DEF Inv
<1>4. starts = Places /\ passed = <<>> /\ outcome = "PENDING" /\ \A k \in 1..Len(store) : Seen(k)
  BY <1>1 DEF Inv, CallInv, LocateInv, Locating
<1>5. LocateInv'
  BY <1>1, <1>4 DEF LocateInv, Locating
<1>6. <<>> \in Seq(Ranges')
  BY EmptySeq, Zenon
<1>7. \A k \in 1..Len(store) : ~(k < i')
  OBVIOUS
<1>8. ValidateInv'
  BY <1>3, <1>4, <1>6, <1>7 DEF ValidateInv
<1> QED  BY <1>2, <1>3, <1>5, <1>8 DEF Inv

(* The second loop passes over what was not found (validators_store.cpp:   *)
(* 87-88), and ends (96).                                                  *)
LEMMA SkippedInv ==
    ASSUME Inv, Skipped \/ AllValidated
    PROVE  Inv'
<1> USE DEF Skipped, AllValidated, AtValidate, Done
<1>1. /\ pc = "validate" /\ UNCHANGED <<store, query, start_map, starts, passed>>
      /\ i' \in Nat \ {0}
      /\ \/ outcome' = "NONE" /\ pc' = "done" /\ i' = i /\ i > Len(store)
         \/ /\ outcome' = outcome /\ pc' = pc /\ i' = i + 1 /\ i \in 1..Len(store)
            /\ param = store[i] /\ param.name \notin DOMAIN start_map
            /\ \A k \in 1..Len(store) : k < i' => k < i \/ k = i
  BY AtParam DEF Inv, CallInv, locals
<1>2. CallInv'
  BY <1>1 DEF Inv, CallInv
<1>3. MapInv' /\ Places' = Places /\ Ranges' = Ranges /\ \A k : Seen(k)' <=> Seen(k)
  BY <1>1, SameMap DEF Inv
<1>4. LocateInv'
  BY <1>1, <1>2 DEF Inv, CallInv, LocateInv, Locating
<1>5. outcome = "PENDING" /\ Validating
  BY <1>1 DEF Inv, CallInv, Validating
<1>6. \A k \in 1..Len(store) : k < i' /\ store[k].name \in DOMAIN start_map =>
         \E j \in 1..Len(passed) : passed[j].name = store[k].name
  BY <1>1, <1>5 DEF Inv, ValidateInv
<1>7. outcome' = "NONE" => i' > Len(store)
  BY <1>1, <1>5
<1>8. ValidateInv'
  BY <1>1, <1>3, <1>5, <1>6, <1>7 DEF Inv, ValidateInv
<1> QED  BY <1>2, <1>3, <1>4, <1>8 DEF Inv

(* A validator is given the range of a parameter that was found            *)
(* (validators_store.cpp:86-94).                                           *)
LEMMA ValidatedInv ==
    ASSUME Inv, Validated
    PROVE  Inv'
<1> USE DEF Validated, AtValidate, Done
<1>1. /\ pc = "validate" /\ UNCHANGED <<store, query, start_map, starts>>
      /\ i' \in Nat \ {0}
      /\ i \in 1..Len(store) /\ param = store[i] /\ param.name \in DOMAIN start_map
      /\ \/ outcome' = "INVALID" /\ pc' = "done" /\ i' = i
         \/ outcome' = outcome /\ pc' = pc /\ i' = i + 1
      /\ \A k \in 1..Len(store) : k < i' => k < i \/ k = i
  BY AtParam DEF Inv, CallInv
<1>2. CallInv'
  BY <1>1 DEF Inv, CallInv
<1>3. MapInv' /\ Places' = Places /\ Ranges' = Ranges /\ \A k : Seen(k)' <=> Seen(k)
  BY <1>1, SameMap DEF Inv
<1>4. LocateInv'
  BY <1>1, <1>2 DEF Inv, CallInv, LocateInv, Locating
<1>5. outcome = "PENDING" /\ Validating
  BY <1>1 DEF Inv, CallInv, Validating
<1>6. passed' = Append(passed, RangeOf(param.name)) /\ passed \in Seq(Ranges)
  BY <1>1, <1>5 DEF Inv, ValidateInv, RangeOf
<1>7. /\ passed' \in Seq(Ranges)
      /\ Len(passed) \in Nat /\ Len(passed') = Len(passed) + 1
      /\ \A j \in 1..Len(passed) : passed'[j] = passed[j]
      /\ passed'[Len(passed) + 1].name = store[i].name
  BY <1>1, <1>6, AppendProperties, LenProperties DEF Ranges, RangeOf
<1>8. ASSUME NEW k \in 1..Len(store), k < i', store[k].name \in DOMAIN start_map
      PROVE  \E j \in 1..Len(passed') : passed'[j].name = store[k].name
  <2>1. CASE k = i
    <3>1. Len(passed) + 1 \in 1..Len(passed')
      BY <1>7
    <3> QED  BY <1>7, <2>1, <3>1
  <2>2. CASE k < i
    <3>1. PICK j \in 1..Len(passed) : passed[j].name = store[k].name
      BY <1>5, <1>8, <2>2 DEF Inv, ValidateInv
    <3>2. j \in 1..Len(passed') /\ passed'[j] = passed[j]
      BY <1>7
    <3> QED  BY <3>1, <3>2
  <2> QED  BY <1>1, <1>8, <2>1, <2>2
<1>9. ValidateInv'
  BY <1>1, <1>3, <1>5, <1>7, <1>8 DEF Inv, ValidateInv
<1> QED  BY <1>2, <1>3, <1>4, <1>9 DEF Inv

(* A call begins with empty maps, and leaves none behind.                  *)
LEMMA ClientInv ==
    ASSUME Inv, Return \/ (pc = "idle" /\ \E s \in Stores, q \in Queries : Call(s, q))
    PROVE  Inv'
<1>1. CASE Return
  BY <1>1 DEF Return, Inv, CallInv, MapInv, LocateInv, ValidateInv, Locating, Validating, NoStarts
<1>2. ASSUME pc = "idle", NEW s \in Stores, NEW q \in Queries, Call(s, q)
      PROVE  Inv'
  <2>1. /\ pc' = "locate" /\ store' = s /\ query' = q /\ UNCHANGED <<locals, outcome>>
        /\ i = 1 /\ passed = <<>> /\ starts = {} /\ DOMAIN start_map = {} /\ outcome = "PENDING"
    BY <1>2 DEF Call, Inv, CallInv, LocateInv
  <2>2. CallInv'
    BY <1>2, <2>1 DEF CallInv, locals
  <2>3. MapInv' /\ Places' = {}
    BY <2>1 DEF MapInv, Places, locals
  <2>4. LocateInv'
    BY <2>1, <2>3 DEF LocateInv, Locating, locals
  <2>5. ValidateInv'
    BY <2>1 DEF ValidateInv, Validating, locals
  <2> QED  BY <2>2, <2>3, <2>4, <2>5 DEF Inv
<1> QED  BY <1>1, <1>2

(* Every step of a lookup, and of its caller, preserves the invariant      *)
(* (validators_store.cpp:56-100).                                          *)
THEOREM NextInv == Inv /\ [Next]_vars => Inv'
<1> SUFFICES ASSUME Inv, [Next]_vars PROVE Inv'
  OBVIOUS
<1>1. CASE ValidateQueryParams
  BY <1>1, OmittedInv, NotLocatedInv, LocatedInv, AllLocatedInv, SkippedInv, ValidatedInv
     DEF ValidateQueryParams
<1>2. CASE UNCHANGED vars
  <2>1. UNCHANGED <<pc, store, query, i, start_map, starts, passed, outcome>>
    BY <1>2 DEF vars, locals
  <2>2. /\ MapInv' /\ Places' = Places /\ Ranges' = Ranges /\ \A k : Seen(k)' <=> Seen(k)
    BY <2>1, SameMap DEF Inv
  <2>3. CallInv'
    BY <2>1 DEF Inv, CallInv
  <2>4. LocateInv'
    BY <2>1, <2>2, SameCall DEF Inv, LocateInv, Locating
  <2>5. ValidateInv'
    BY <2>1, <2>2 DEF Inv, ValidateInv, Validating
  <2> QED  BY <2>2, <2>3, <2>4, <2>5 DEF Inv
<1> QED  BY <1>1, <1>2, ClientInv DEF Next

(* The invariant holds in every reachable state.                           *)
THEOREM Invariance == Spec => []Inv
<1>1. Init => Inv
  BY DEF Init, Inv, CallInv, MapInv, LocateInv, ValidateInv, Locating, Validating, NoStarts
<1> QED  BY <1>1, NextInv, PTL DEF Spec

-----------------------------------------------------------------------------
(* The ranges.                                                             *)

\* What was passed are ranges of parameters found, in the second loop.
LEMMA PassedAreRanges ==
    ASSUME Inv, NEW k \in 1..Len(passed)
    PROVE  /\ Validating /\ starts = Places \cup {Len(query) + 2}
           /\ \E n \in DOMAIN start_map : passed[k] = RangeOf(n)
<1>1. Validating
  <2>1. CASE pc = "idle" \/ Locating
    <3>1. passed = <<>> /\ Len(<<>>) = 0
      BY <2>1, EmptySeq DEF Inv, LocateInv
    <3> QED  BY <3>1
  <2> QED  BY <2>1 DEF Inv, CallInv, Locating, Validating
<1>2. passed[k] \in Ranges
  BY <1>1, ElementOfSeq DEF Inv, ValidateInv
<1> QED  BY <1>1, <1>2 DEF Inv, ValidateInv, Ranges

(* For all parameters and queries, every range given to a validator lies   *)
(* in the query, begins with its parameter's name after a separator, and   *)
(* overlaps no other range that begins elsewhere.                          *)
THEOREM RangesAreApart == Spec => []RangesApart
<1>1. Inv => RangesApart
  <2> SUFFICES ASSUME Inv, NEW k \in 1..Len(passed)
               PROVE  LET r == passed[k]
                      IN  /\ AfterSeparator(r.beg)
                          /\ OccursAt(r.name, r.beg)
                          /\ r.end <= Len(query) + 1
                          /\ \A n \in DOMAIN start_map :
                                start_map[n] <= r.beg \/ start_map[n] > r.end
                          /\ \A j \in 1..(k - 1) : \/ passed[j].beg = r.beg
                                                   \/ passed[j].end < r.beg
                                                   \/ r.end < passed[j].beg
    BY DEF RangesApart
  <2>1. PICK n \in DOMAIN start_map : passed[k] = RangeOf(n)
    BY PassedAreRanges
  <2>2. starts = Places \cup {Len(query) + 2}
    BY PassedAreRanges
  <2>3. /\ passed[k].name = n /\ passed[k].beg = start_map[n]
        /\ passed[k].beg \in Nat /\ passed[k].end \in Nat /\ passed[k].beg \in starts
        /\ passed[k].end <= Len(query) + 1
        /\ \A s \in starts : s \in Nat /\ (s <= passed[k].beg \/ s > passed[k].end)
    BY <2>1, <2>2, RangeEnds DEF Inv
  <2>4. AfterSeparator(passed[k].beg) /\ OccursAt(passed[k].name, passed[k].beg)
    BY <2>3, PlacesInQuery DEF Inv, MapInv
  <2>5. \A m \in DOMAIN start_map : start_map[m] <= passed[k].beg \/ start_map[m] > passed[k].end
    BY <2>2, <2>3 DEF Places
  <2>6. ASSUME NEW j \in 1..(k - 1)
        PROVE  \/ passed[j].beg = passed[k].beg
               \/ passed[j].end < passed[k].beg
               \/ passed[k].end < passed[j].beg
    <3>1. j \in 1..Len(passed)
      <4>1. Len(passed) \in Nat
        BY PassedAreRanges, LenProperties DEF Inv, ValidateInv
      <4> QED  BY <4>1
    <3>2. PICK m \in DOMAIN start_map : passed[j] = RangeOf(m)
      BY <3>1, PassedAreRanges
    <3>3. /\ passed[j].beg \in Nat /\ passed[j].end \in Nat /\ passed[j].beg \in starts
          /\ \A s \in starts : s \in Nat /\ (s <= passed[j].beg \/ s > passed[j].end)
      BY <2>2, <3>2, RangeEnds DEF Inv
    <3> QED  BY <2>3, <3>3
  <2> QED  BY <2>3, <2>4, <2>5, <2>6
<1> QED  BY <1>1, Invariance, PTL

-----------------------------------------------------------------------------
(* Regular queries.                                                        *)

\* The characters of a name are those of the query where it occurs.
LEMMA NameInQuery ==
    ASSUME CallInv, NEW n \in Names, NEW k \in Nat \ {0}, OccursAt(n, k)
    PROVE  /\ n \in Seq(STRING) /\ Len(n) \in Nat
           /\ \A j \in 1..Len(n) : n[j] = query[k + j - 1]
           /\ \A j \in 1..Len(n) : n[j] # "="
<1>1. n \in Seq(STRING) /\ Len(n) \in Nat /\ Len(query) \in Nat /\ query \in Seq(STRING)
  BY Typed, LenProperties DEF Names
<1>2. n = SubSeq(query, k, k + Len(n) - 1) /\ k + Len(n) - 1 <= Len(query)
  BY <1>1 DEF OccursAt
<1>3. \A m \in k..(k + Len(n) - 1) : query[m] \in STRING
  BY <1>1, <1>2, ElementOfSeq
<1>4. k \in Int /\ k + Len(n) - 1 \in Int
  BY <1>1
<1> DEFINE last == k + Len(n) - 1
<1>5. \A j \in 1..(last - k + 1) : SubSeq(query, k, last)[j] = query[k + j - 1]
  <2> HIDE DEF last
  <2> QED  BY <1>3, <1>4, SubSeqProperties DEF last
<1>6. last - k + 1 = Len(n)
  BY <1>1
<1>7. \A j \in 1..Len(n) : n[j] # "="
  <2>1. PICK m \in 1..Len(store) : n = store[m].name
    BY DEF Names
  <2>2. store \in Stores
    <3>1. Len(<<>>) = 0
      OBVIOUS
    <3> QED  BY <2>1, <3>1 DEF CallInv
  <2> QED  BY <2>1, <2>2, QueriesAssumption
<1> QED  BY <1>1, <1>2, <1>5, <1>6, <1>7

\* A piece has one owner: names have no '=', which ends them.
LEMMA OneOwner ==
    ASSUME CallInv, NEW m \in Names, NEW n \in Names, NEW k \in Nat \ {0}, Owns(m, k), Owns(n, k)
    PROVE  m = n
<1>1. /\ m \in Seq(STRING) /\ Len(m) \in Nat /\ n \in Seq(STRING) /\ Len(n) \in Nat
      /\ \A j \in 1..Len(m) : m[j] = query[k + j - 1] /\ m[j] # "="
      /\ \A j \in 1..Len(n) : n[j] = query[k + j - 1] /\ n[j] # "="
      /\ query[k + Len(m)] = "=" /\ query[k + Len(n)] = "="
  BY NameInQuery DEF Owns
<1>2. ~(Len(m) < Len(n))
  <2> SUFFICES ASSUME Len(m) < Len(n) PROVE FALSE
    OBVIOUS
  <2>1. Len(m) + 1 \in 1..Len(n) /\ k + (Len(m) + 1) - 1 = k + Len(m)
    BY <1>1
  <2> QED  BY <1>1, <2>1
<1>3. ~(Len(n) < Len(m))
  <2> SUFFICES ASSUME Len(n) < Len(m) PROVE FALSE
    OBVIOUS
  <2>1. Len(n) + 1 \in 1..Len(m) /\ k + (Len(n) + 1) - 1 = k + Len(n)
    BY <1>1
  <2> QED  BY <1>1, <2>1
<1>4. Len(m) = Len(n)
  BY <1>1, <1>2, <1>3
<1> QED  BY <1>1, <1>4, SeqEqual

\* In a regular query a range ends where the last piece of its parameter does
\* (validators_store.cpp:84-93).
LEMMA RegularRange ==
    ASSUME Inv, Validating, Regular, NEW name \in DOMAIN start_map
    PROVE  RangeOf(name) = Reference(name)
<1> DEFINE beg == start_map[name]
           last == Max(PiecesOf(name))
           ends == { k \in last..(Len(query) + 1) :
                       k = Len(query) + 1 \/ query[k] \in Separators }
           e == Min(ends)
<1>1. /\ CallInv /\ Len(query) \in Nat /\ starts = Places \cup {Len(query) + 2}
      /\ \A k \in 1..Len(store) : Seen(k)
  BY Typed DEF Inv, ValidateInv
<1>2. ASSUME NEW k \in PieceStarts
      PROVE  /\ k \in Nat \ {0} /\ k - 1 \in Nat \ {0} /\ k <= Len(query) + 1
             /\ query[k - 1] \in Separators
  BY <1>1 DEF PieceStarts, AfterSeparator
<1>3. ASSUME NEW n \in DOMAIN start_map
      PROVE  /\ n \in Names /\ Occurrences(n) = PiecesOf(n)
             /\ start_map[n] \in PiecesOf(n) /\ start_map[n] = Min(PiecesOf(n))
             /\ \A k \in PiecesOf(n) : start_map[n] <= k
  <2>1. n \in Names /\ start_map[n] = Min(Occurrences(n)) /\ Occurrences(n) # {}
    BY DEF Inv, MapInv
  <2>2. Occurrences(n) = PiecesOf(n)
    BY <2>1 DEF Regular
  <2>3. Occurrences(n) \in SUBSET Nat
    BY <1>1 DEF Occurrences
  <2>4. start_map[n] \in Occurrences(n) /\ \A k \in Occurrences(n) : start_map[n] <= k
    BY <2>1, <2>3, LeastExists
  <2> QED  BY <2>1, <2>2, <2>4
<1>4. \A n : \A k \in PiecesOf(n) : k \in PieceStarts /\ Owns(n, k) /\ k \in Nat \ {0}
  BY <1>2 DEF PiecesOf
<1>5. /\ name \in Names /\ PiecesOf(name) \in SUBSET (1..Len(query)) /\ PiecesOf(name) # {}
      /\ beg \in PiecesOf(name) /\ beg \in Nat /\ beg = Min(PiecesOf(name))
  BY <1>3, <1>4 DEF Occurrences
<1>6. last \in PiecesOf(name) /\ \A k \in PiecesOf(name) : k <= last
  BY <1>1, <1>5, GreatestExists
<1>7. last \in Nat \ {0} /\ last <= Len(query) /\ beg <= last
  BY <1>1, <1>5, <1>6
<1> HIDE DEF beg, last
<1>8. ends \in SUBSET Nat /\ Len(query) + 1 \in ends
  BY <1>1, <1>7
<1>9. e \in ends /\ \A k \in ends : e <= k
  BY <1>8, LeastExists
<1> HIDE DEF e
<1>10. e \in Nat /\ last <= e /\ e <= Len(query) + 1
       /\ (e = Len(query) + 1 \/ query[e] \in Separators)
  BY <1>1, <1>7, <1>9
<1>11. \A k \in PieceStarts : k > last => k - 1 \in ends
  BY <1>1, <1>2, <1>7
<1>12. ASSUME NEW n \in Names, n # name, Owns(n, last)
       PROVE  FALSE
  BY <1>1, <1>4, <1>5, <1>6, <1>7, <1>12, OneOwner
<1>13. ASSUME NEW s \in starts, s > beg
       PROVE  s \in Nat /\ s - 1 \in ends
  <2>1. CASE s = Len(query) + 2
    BY <1>1, <1>8, <2>1
  <2>2. CASE s \in Places
    <3>1. PICK n \in DOMAIN start_map : s = start_map[n]
      BY <2>2 DEF Places
    <3>2. n # name /\ n \in Names /\ s \in PieceStarts /\ Owns(n, s) /\ s \in Nat \ {0}
      BY <1>3, <1>4, <1>5, <1>13, <3>1 DEF beg
    <3>3. ~(s < last)
      <4> SUFFICES ASSUME s < last PROVE FALSE
        OBVIOUS
      <4>1. s \in PiecesOf(name)
        BY <1>5, <1>6, <1>13, <3>2 DEF Regular
      <4> QED  BY <1>1, <1>4, <1>5, <3>2, <4>1, OneOwner
    <3>4. s # last
      BY <1>12, <3>2
    <3>5. s > last
      BY <1>7, <3>2, <3>3, <3>4
    <3> QED  BY <1>11, <3>2, <3>5
  <2> QED  BY <1>1, <2>1, <2>2
<1>14. e + 1 \in starts
  <2>1. CASE e = Len(query) + 1
    BY <1>1, <2>1
  <2>2. CASE e # Len(query) + 1
    <3>1. e + 1 \in PieceStarts /\ e + 1 > last
      <4>1. e + 1 \in 1..(Len(query) + 1) /\ e + 1 > 1 /\ e + 1 - 1 = e
        BY <1>1, <1>7, <1>10, <2>2
      <4> QED  BY <1>7, <1>10, <2>2, <4>1 DEF PieceStarts, AfterSeparator
    <3>2. PICK n \in Names : Owns(n, e + 1)
      BY <3>1 DEF Regular
    <3>3. e + 1 \in PiecesOf(n) /\ n # name
      BY <1>6, <1>7, <1>10, <3>1, <3>2 DEF PiecesOf
    <3>4. n \in DOMAIN start_map
      <4>1. PICK k \in 1..Len(store) : n = store[k].name
        BY DEF Names
      <4>2. Occurrences(n) # {}
        BY <3>3 DEF Regular
      <4> QED  BY <1>1, <4>1, <4>2 DEF Seen
    <3> DEFINE j == start_map[n]
    <3>5. j \in PiecesOf(n) /\ j \in PieceStarts /\ Owns(n, j) /\ j \in Nat \ {0} /\ j <= e + 1
      BY <1>3, <1>4, <3>3, <3>4
    <3> HIDE DEF j
    <3>6. ~(j < last)
      <4> SUFFICES ASSUME j < last PROVE FALSE
        OBVIOUS
      <4>1. last \in PiecesOf(n)
        BY <1>4, <1>6, <3>1, <3>3, <3>5 DEF Regular
      <4> QED  BY <1>4, <1>12, <3>3, <4>1
    <3>7. j # last
      BY <1>12, <3>3, <3>5
    <3>8. j > last
      BY <1>7, <3>5, <3>6, <3>7
    <3>9. e <= j - 1
      BY <1>9, <1>11, <3>5, <3>8
    <3>10. j = e + 1
      BY <1>10, <3>5, <3>9
    <3> QED  BY <1>1, <3>4, <3>10 DEF Places, j
  <2> QED  BY <2>1, <2>2
<1> DEFINE later == { k \in starts : k > beg }
<1>15. later \in SUBSET Nat /\ e + 1 \in later /\ \A k \in later : e + 1 <= k
  BY <1>5, <1>7, <1>9, <1>10, <1>13, <1>14
<1>16. Min(later) = e + 1
  <2> HIDE DEF later
  <2> QED  BY <1>15, LeastIs
<1>17. EndOf(beg) = e
  BY <1>10, <1>16 DEF EndOf
<1> QED  BY <1>5, <1>17 DEF RangeOf, Reference, beg, last, e

(* For all parameters and queries: when nothing in a query can be mistaken *)
(* for a name, every validator is given exactly the pieces of its own      *)
(* parameter, the call never complains of a misplaced name, and of a       *)
(* missing parameter exactly when a required one has no piece.             *)
THEOREM RegularSplit == Spec => []RegularQueriesAreSplit
<1>1. Inv => RegularQueriesAreSplit
  <2> SUFFICES ASSUME Inv, pc = "done", Regular
               PROVE  /\ \A k \in 1..Len(passed) : passed[k] = Reference(passed[k].name)
                      /\ outcome # "MISPLACED"
                      /\ (outcome = "MISSING") <=>
                            \E k \in 1..Len(store) :
                               store[k].required /\ PiecesOf(store[k].name) = {}
                      /\ outcome = "NONE" =>
                            { passed[k].name : k \in 1..Len(passed) } =
                            { n \in Names : PiecesOf(n) # {} }
    BY DEF RegularQueriesAreSplit
  <2>1. \A n \in Names : Occurrences(n) = PiecesOf(n)
    BY DEF Regular
  <2>2. /\ Len(store) \in Nat
        /\ \A k \in 1..Len(store) : store[k].name \in Names /\ store[k].required \in BOOLEAN
    BY Typed DEF Inv
  <2>3. \A k \in 1..Len(passed) : passed[k] = Reference(passed[k].name)
    <3> SUFFICES ASSUME NEW k \in 1..Len(passed) PROVE passed[k] = Reference(passed[k].name)
      OBVIOUS
    <3>1. PICK n \in DOMAIN start_map : passed[k] = RangeOf(n)
      BY PassedAreRanges
    <3>2. RangeOf(n) = Reference(n) /\ passed[k].name = n
      BY <3>1, PassedAreRanges, RegularRange DEF RangeOf
    <3> QED  BY <3>1, <3>2
  <2>4. outcome # "MISPLACED"
    <3>1. ASSUME NEW n \in Names, Occurrences(n) # {}
          PROVE  AfterSeparator(Min(Occurrences(n)))
      <4>1. PiecesOf(n) \in SUBSET Nat /\ PiecesOf(n) # {}
        BY <2>1, <3>1, Typed DEF Inv, PiecesOf, PieceStarts
      <4>2. Min(PiecesOf(n)) \in PiecesOf(n)
        BY <4>1, LeastExists
      <4> QED  BY <2>1, <4>2 DEF PiecesOf, PieceStarts
    <3> QED  BY <3>1 DEF Inv, LocateInv
  <2>5. outcome \in {"NONE", "INVALID"} \/ outcome = "MISSING"
    BY <2>4 DEF Inv, CallInv
  <2>6. outcome \in {"NONE", "INVALID"} => \A k \in 1..Len(store) : Seen(k)
    BY DEF Inv, ValidateInv, Validating
  <2>7. ASSUME NEW k \in 1..Len(store), Seen(k), PiecesOf(store[k].name) = {}
        PROVE  ~store[k].required
    BY <2>1, <2>2, <2>7 DEF Inv, MapInv, Seen
  <2>8. (outcome = "MISSING") <=> \E k \in 1..Len(store) :
                                    store[k].required /\ PiecesOf(store[k].name) = {}
    <3>1. outcome = "MISSING" => \E k \in 1..Len(store) :
                                    store[k].required /\ PiecesOf(store[k].name) = {}
      BY <2>1, <2>2 DEF Inv, LocateInv
    <3> QED  BY <2>5, <2>6, <2>7, <3>1
  <2>9. ASSUME outcome = "NONE"
        PROVE  { passed[k].name : k \in 1..Len(passed) } = { n \in Names : PiecesOf(n) # {} }
    <3>1. ASSUME NEW k \in 1..Len(passed)
          PROVE  passed[k].name \in Names /\ PiecesOf(passed[k].name) # {}
      <4>1. PICK n \in DOMAIN start_map : passed[k] = RangeOf(n)
        BY PassedAreRanges
      <4>2. passed[k].name = n
        BY <4>1 DEF RangeOf
      <4> QED  BY <2>1, <4>2 DEF Inv, MapInv
    <3>2. ASSUME NEW n \in Names, PiecesOf(n) # {}
          PROVE  \E j \in 1..Len(passed) : passed[j].name = n
      <4>1. PICK k \in 1..Len(store) : n = store[k].name
        BY DEF Names
      <4>2. n \in DOMAIN start_map
        BY <2>1, <2>6, <2>9, <3>2, <4>1 DEF Seen
      <4>3. k < i
        BY <2>2, <2>9 DEF Inv, CallInv, ValidateInv, Validating
      <4> QED  BY <2>9, <4>1, <4>2, <4>3 DEF Inv, ValidateInv, Validating
    <3> QED  BY <3>1, <3>2
  <2> QED  BY <2>3, <2>4, <2>8, <2>9
<1> QED  BY <1>1, Invariance, PTL
=============================================================================
