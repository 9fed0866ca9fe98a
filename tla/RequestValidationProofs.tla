----------------------- MODULE RequestValidationProofs -----------------------
(***************************************************************************)
(* Validation of requests: for every set of stores and of requests, a call *)
(* reports the first error in the documented order of the stages its entry *)
(* point runs, reaches a stage only with a request that the stages before  *)
(* it accept, and ends.                                                    *)
(*                                                                         *)
(* What a call returns depends on all the stages it went through, of which *)
(* its state keeps only the ones still to run.  The inductive invariant    *)
(* says where in the entry point's list a call is, that the request passes *)
(* the stages before, and in each loop what the request says of the        *)
(* parameters before the loop's place.                                     *)
(***************************************************************************)
EXTENDS RequestValidation, SequenceTheorems, FiniteSetTheorems, TLAPS

StageName == {"body", "path", "query", "header"}

\* The stage a call is at; a query parameter's value belongs to its stage.
AtStage == IF pc = "values" THEN "query" ELSE pc

RouteError == Message("INVALID_ROUTE", "route")

\* What the caller's string may hold while no stage has found an error.
StringSound ==
    error_msg \in IF req.route = "own" THEN { <<>>, <<OldMessage>> } ELSE { <<RouteError>> }

\* The first n stages of the entry point accept the request.
Passed(n) == \A m \in 1..n : Culprits(req, Stages[entry][m]) = {}

\* The stages after the first n.
Remaining(n) == SubSeq(Stages[entry], n + 1, Len(Stages[entry]))

\* A call has not failed yet, and knows which stages the request has passed.
CallInv ==
    /\ entry \in DOMAIN Stages
    /\ pc # "idle" => req \in Requests
    /\ pc # "done" => err = "NONE"
    /\ pc \in {"method", "route", "mapped"} => todo = Stages[entry]
    /\ pc \in {"method", "route"} => error_msg \in { <<>>, <<OldMessage>> }
    /\ pc \in {"route", "mapped"} => req.method = "good"
    /\ pc = "mapped" => req.route # "own" /\ error_msg = <<RouteError>>

StageInv ==
    AtStage \in StageName =>
        /\ req.method = "good" /\ req.route # "none" /\ StringSound
        /\ \E n \in 1..Len(Stages[entry]) :
              AtStage = Stages[entry][n] /\ todo = Remaining(n) /\ Passed(n - 1)

\* A query parameter that the first loop lets pass was found or may be omitted.
Located(q) == \/ req.query[q] \in {"good", "bad"} /\ q \in found
              \/ req.query[q] = "absent" /\ q \notin Store.required /\ q \notin found

\* What the loop of a stage knows of the parameters it has seen.
LoopInv ==
    /\ i \in Nat /\ i >= 1
    /\ pc = "path" => \A k \in 1..(i - 1) :
          k <= Len(Store.path) => req.path[Store.path[k]] = "good"
    /\ pc \in {"query", "values"} =>
          \A q \in found : q \in Names(Store.query) /\ req.query[q] \in {"good", "bad"}
    /\ pc = "query" => \A k \in 1..(i - 1) :
          k <= Len(Store.query) => Located(Store.query[k])
    /\ pc = "values" =>
          /\ \A q \in Names(Store.query) : Located(q)
          /\ \A k \in 1..(i - 1) :
                k <= Len(Store.query) /\ Store.query[k] \in found =>
                   req.query[Store.query[k]] = "good"
    /\ pc = "header" =>
          /\ left \subseteq Store.header
          /\ \A h \in Store.header : h \notin left => ~HeaderRefused(h)

Inv == CallInv /\ StageInv /\ LoopInv /\ ReportsFirstError

-----------------------------------------------------------------------------
(* The stages of the entry points.                                         *)

StageLists == { <<>>, <<"body">>, <<"path">>, <<"query">>, <<"header">>, <<"path", "query">>,
                <<"body", "path", "query">>, <<"path", "query", "header">>,
                <<"body", "path", "query", "header">> }

\* Every entry point runs one of these lists (oas_validator_imp.cpp:30-161).
LEMMA StagesType ==
    ASSUME NEW e \in DOMAIN Stages
    PROVE  Stages[e] \in StageLists /\ Stages[e] \in Seq(StageName) /\ Len(Stages[e]) \in Nat
<1>1. Stages[e] \in StageLists
  BY DEF Stages, StageLists
<1>2. /\ <<>> \in Seq(StageName) /\ <<"body">> \in Seq(StageName) /\ <<"path">> \in Seq(StageName)
      /\ <<"query">> \in Seq(StageName) /\ <<"header">> \in Seq(StageName)
      /\ <<"path", "query">> \in Seq(StageName) /\ <<"body", "path", "query">> \in Seq(StageName)
      /\ <<"path", "query", "header">> \in Seq(StageName)
      /\ <<"body", "path", "query", "header">> \in Seq(StageName)
  BY DEF StageName
<1>3. \A s \in StageLists : s \in Seq(StageName)
  BY <1>2, Zenon DEF StageLists
<1> QED  BY <1>1, <1>3, LenProperties

\* The place of each stage in the documented order (README.md:48-56).
LEMMA DocumentedPlaces ==
    /\ Len(Documented) = 4
    /\ Documented[1] = "body" /\ Documented[2] = "path"
    /\ Documented[3] = "query" /\ Documented[4] = "header"
    /\ \A k \in 1..4 : (CHOOSE j \in 1..Len(Documented) : Documented[j] = Documented[k]) = k
<1>1. /\ Len(Documented) = 4
      /\ Documented[1] = "body" /\ Documented[2] = "path"
      /\ Documented[3] = "query" /\ Documented[4] = "header"
  BY DEF Documented
<1>2. \A j, k \in 1..4 : Documented[j] = Documented[k] => j = k
  <2>1. \A j \in 1..4 : j = 1 \/ j = 2 \/ j = 3 \/ j = 4
    OBVIOUS
  <2> QED  BY <1>1, <2>1
<1>3. ASSUME NEW k \in 1..4
      PROVE  (CHOOSE j \in 1..Len(Documented) : Documented[j] = Documented[k]) = k
  BY <1>1, <1>2
<1> QED  BY <1>1, <1>3

\* An entry point runs its stages in the documented order: a stage that comes
\* before the n-th in the documentation is one of the first n - 1.
LEMMA StagesInOrder ==
    ASSUME NEW e \in DOMAIN Stages, NEW n \in 1..Len(Stages[e]),
           NEW j \in 1..4, NEW k \in 1..4, j < k,
           Documented[k] = Stages[e][n], Documented[j] \in Names(Stages[e])
    PROVE  \E m \in 1..(n - 1) : Documented[j] = Stages[e][m]
<1>2. PICK m \in 1..Len(Stages[e]) : Documented[j] = Stages[e][m]
  BY DEF Names
<1>3. m \in Nat /\ n \in Nat
  BY StagesType
<1>4. m < n
  <2>1. \A s \in StageLists : \A a, b \in 1..Len(s) :
           Documented[j] = s[a] /\ Documented[k] = s[b] => a < b
    BY DocumentedPlaces DEF StageLists
  <2> QED  BY StagesType, <1>2, <2>1
<1> QED  BY <1>2, <1>3, <1>4

-----------------------------------------------------------------------------
(* The first parameter at fault, and what it makes of a call.              *)

\* The element at which a loop stops is the first of its kind.
LEMMA FirstOfProperties ==
    ASSUME NEW seq, NEW S
    PROVE  /\ \A k \in 1..Len(seq) :
                 seq[k] \in S /\ (\A m \in 1..(k - 1) : seq[m] \notin S) =>
                    seq[k] \in FirstOf(seq, S)
           /\ (\A k \in 1..Len(seq) : seq[k] \notin S) => FirstOf(seq, S) = {}
BY DEF FirstOf

(* A stage that finds a culprit after the stages before it found none gives*)
(* the verdict of the call (the CHECK_ERROR chains).                       *)
LEMMA FirstError ==
    ASSUME entry \in DOMAIN Stages, req.method = "good", req.route # "none",
           NEW n \in 1..Len(Stages[entry]), Passed(n - 1),
           NEW c \in Culprits(req, Stages[entry][n])
    PROVE  Message(Code[Stages[entry][n]], c) \in Verdicts(entry, req)
<1> DEFINE stage == Stages[entry][n]
           failing == {s \in Names(Stages[entry]) : Culprits(req, s) # {}}
<1>1. stage \in StageName /\ stage \in Names(Stages[entry]) /\ stage \in failing
  BY StagesType, ElementOfSeq DEF Names
<1>2. PICK k \in 1..4 : Documented[k] = stage
  BY <1>1, DocumentedPlaces DEF StageName
<1>3. ASSUME NEW j \in 1..(k - 1), Documented[j] \in failing
      PROVE  FALSE
  <2>1. PICK m \in 1..(n - 1) : Documented[j] = Stages[entry][m]
    <3>1. j \in 1..4 /\ j < k
      BY <1>2
    <3> QED  BY <1>2, <1>3, <3>1, StagesInOrder
  <2> QED  BY <1>3, <2>1 DEF Passed
<1>4. stage \in FailingStage(entry, req)
  <2> HIDE DEF failing
  <2>1. Documented[k] \in FirstOf(Documented, failing)
    BY <1>1, <1>2, <1>3, DocumentedPlaces, FirstOfProperties
  <2> QED  BY <1>2, <2>1 DEF FailingStage, failing
<1> HIDE DEF stage
<1> QED  BY <1>4 DEF Verdicts, stage

(* A call whose stages all pass has no verdict.                            *)
LEMMA NoError ==
    ASSUME entry \in DOMAIN Stages, req.method = "good", req.route # "none",
           Passed(Len(Stages[entry]))
    PROVE  Verdicts(entry, req) = {}
<1>1. {s \in Names(Stages[entry]) : Culprits(req, s) # {}} = {}
  BY DEF Passed, Names
<1>2. FailingStage(entry, req) = {}
  BY <1>1 DEF FailingStage, FirstOf
<1> QED  BY <1>2 DEF Verdicts

(* The next stage is called, or the call returns, when the stages so far   *)
(* have passed.                                                            *)
LEMMA Advance ==
    ASSUME CallInv, NEW n \in 0..Len(Stages[entry]), pc # "idle", pc # "done",
           todo = Remaining(n), Passed(n), req.method = "good", req.route # "none", StringSound,
           NextStage, UNCHANGED <<entry, req, err, error_msg>>
    PROVE  Inv'
<1> DEFINE stages == Stages[entry]
<1>1. /\ stages \in Seq(StageName) /\ Len(stages) \in Nat /\ n \in Nat
      /\ entry \in DOMAIN Stages /\ req \in Requests /\ err = "NONE"
  BY StagesType DEF CallInv
<1>2. /\ i' = 1 /\ found' = {} /\ left' = Store.header
      /\ Store' = Store
  BY DEF NextStage, Store
<1>3. CASE n = Len(stages)
  <2>1. todo = <<>>
    BY <1>1, <1>3 DEF Remaining
  <2>2. pc' = "done"
    BY <2>1 DEF NextStage
  <2>3. Verdicts(entry, req) = {}
    BY <1>1, <1>3, NoError
  <2>4. ReportsFirstError'
    BY <1>1, <2>3 DEF ReportsFirstError, StringSound, RouteError
  <2> QED  BY <1>1, <1>2, <2>2, <2>4 DEF Inv, CallInv, StageInv, LoopInv, AtStage, StageName
<1>4. CASE n < Len(stages)
  <2>1. n + 1 \in 1..Len(stages) /\ stages[n + 1] \in StageName
    BY <1>1, <1>4, ElementOfSeq
  <2>2. todo # <<>> /\ Head(todo) = stages[n + 1] /\ Tail(todo) = Remaining(n + 1)
    <3> HIDE DEF stages
    <3>1. /\ SubSeq(stages, n + 1, Len(stages)) # <<>>
          /\ Head(SubSeq(stages, n + 1, Len(stages))) = stages[n + 1]
          /\ Tail(SubSeq(stages, n + 1, Len(stages))) = SubSeq(stages, (n + 1) + 1, Len(stages))
      <4>1. n + 1 \in 1..Len(stages) /\ Len(stages) \in (n + 1)..Len(stages)
        BY <1>1, <1>4
      <4>2. Len(SubSeq(stages, n + 1, Len(stages))) > 0
        BY <1>1, <1>4
      <4>3. /\ Head(SubSeq(stages, n + 1, Len(stages))) = stages[n + 1]
            /\ Tail(SubSeq(stages, n + 1, Len(stages))) = SubSeq(stages, (n + 1) + 1, Len(stages))
        BY <1>1, <4>1, HeadTailOfSubSeq
      <4>4. SubSeq(stages, n + 1, Len(stages)) # <<>>
        <5> DEFINE rest == SubSeq(stages, n + 1, Len(stages))
        <5> HIDE DEF rest
        <5>1. Len(<<>>) = 0 /\ ~(0 > 0)
          OBVIOUS
        <5>2. rest # <<>>
          BY <4>2, <5>1, Zenon DEF rest
        <5> QED  BY <5>2 DEF rest
      <4> QED  BY <4>3, <4>4
    <3> QED  BY <3>1 DEF Remaining, stages
  <2>3. pc' = stages[n + 1] /\ todo' = Remaining(n + 1)
    BY <2>2 DEF NextStage
  <2>4. pc' \in StageName /\ AtStage' = stages[n + 1]
    BY <2>1, <2>3 DEF AtStage, StageName
  <2>5. StageInv'
    <3>1. (n + 1) - 1 = n
      BY <1>1
    <3>2. todo' = Remaining(n + 1)' /\ Passed((n + 1) - 1)'
      BY <2>3, <3>1 DEF Remaining, Passed
    <3>3. \E k \in 1..Len(Stages[entry']) :
             AtStage' = Stages[entry'][k] /\ (todo = Remaining(k) /\ Passed(k - 1))'
      BY <2>1, <2>4, <3>2
    <3>4. StringSound'
      BY DEF StringSound
    <3> QED  BY <3>3, <3>4 DEF StageInv
  <2> QED  BY <1>1, <1>2, <2>4, <2>5
           DEF Inv, CallInv, LoopInv, ReportsFirstError, StageName, Names
<1> QED  BY <1>1, <1>3, <1>4

(* The first culprit of the stage a call is at ends the call with the      *)
(* verdict (validators_store.cpp:39-118).                                  *)
LEMMA Failure ==
    ASSUME Inv, AtStage \in StageName, NEW c \in Culprits(req, AtStage),
           Fail(Code[AtStage], c), UNCHANGED <<entry, req, locals>>
    PROVE  Inv'
<1>1. /\ pc' = "done" /\ err' = Code[AtStage] /\ error_msg' = <<Message(Code[AtStage], c)>>
      /\ UNCHANGED <<entry, req, i>>
  BY DEF Fail, locals
<1>2. /\ req.method = "good" /\ req.route # "none" /\ entry \in DOMAIN Stages
      /\ req \in Requests
  BY DEF Inv, StageInv, CallInv, AtStage, StageName
<1>3. PICK n \in 1..Len(Stages[entry]) : AtStage = Stages[entry][n] /\ Passed(n - 1)
  BY DEF Inv, StageInv
<1>4. Message(Code[AtStage], c) \in Verdicts(entry, req)
  BY <1>2, <1>3, FirstError
<1>5. ReportsFirstError'
  <2>1. /\ Len(error_msg') = 1 /\ error_msg'[Len(error_msg')] = Message(Code[AtStage], c)
        /\ Message(Code[AtStage], c).code = Code[AtStage]
    BY <1>1 DEF Message
  <2> QED  BY <1>1, <1>4, <2>1 DEF ReportsFirstError
<1> QED  BY <1>1, <1>2, <1>5 DEF Inv, CallInv, StageInv, LoopInv, AtStage, StageName

(* A stage that finds no culprit hands over to the next one.               *)
LEMMA StagePassed ==
    ASSUME Inv, AtStage \in StageName, Culprits(req, AtStage) = {},
           NextStage, UNCHANGED <<entry, req, err, error_msg>>
    PROVE  Inv'
<1>1. PICK n \in 1..Len(Stages[entry]) :
         AtStage = Stages[entry][n] /\ todo = Remaining(n) /\ Passed(n - 1)
  BY DEF Inv, StageInv
<1>2. n \in Nat /\ n >= 1 /\ n \in 0..Len(Stages[entry])
  BY StagesType DEF Inv, CallInv
<1>3. Passed(n)
  <2>1. \A m \in 1..n : m \in 1..(n - 1) \/ m = n
    BY <1>2
  <2> QED  BY <1>1, <2>1 DEF Passed
<1> QED  BY <1>1, <1>2, <1>3, Advance DEF Inv, StageInv, AtStage, StageName

(* A step inside the loops of one stage changes nothing else.              *)
LEMMA LoopStep ==
    ASSUME Inv, AtStage \in StageName, AtStage' = AtStage,
           UNCHANGED <<entry, req, todo, err, error_msg>>, LoopInv'
    PROVE  Inv'
BY DEF Inv, CallInv, StageInv, Remaining, Passed, StringSound, ReportsFirstError, AtStage, StageName

-----------------------------------------------------------------------------
(* The steps of a call.                                                    *)

(* The method and the route are checked first (oas_validator_imp.cpp:      *)
(* 174-239).                                                               *)
LEMMA GetValidatorsInv == Inv /\ GetValidators => Inv'
<1> SUFFICES ASSUME Inv, GetValidators PROVE Inv'
  OBVIOUS
<1> USE DEF Inv
<1>1. CASE MethodGood
  BY <1>1 DEF MethodGood, locals, CallInv, StageInv, LoopInv, ReportsFirstError, AtStage, StageName
<1>2. CASE MethodBad
  <2>1. /\ pc' = "done" /\ err' = "INVALID_METHOD" /\ UNCHANGED <<entry, req, i>>
        /\ error_msg' = Append(error_msg, Message("INVALID_METHOD", "method"))
        /\ error_msg \in { <<>>, <<OldMessage>> }
        /\ req \in Requests /\ entry \in DOMAIN Stages
    BY <1>2 DEF MethodBad, CallInv, locals
  <2>2. Verdicts(entry, req) = { Message("INVALID_METHOD", "method") }
    BY <1>2 DEF MethodBad, Verdicts
  <2>3. /\ error_msg'[Len(error_msg')] = Message("INVALID_METHOD", "method")
        /\ Len(error_msg') = 1 \/ (Len(error_msg') = 2 /\ error_msg'[1] = OldMessage)
    <3> DEFINE m == Message("INVALID_METHOD", "method")
    <3> HIDE DEF m
    <3>1. CASE error_msg = <<>>
      <4>1. error_msg' = Append(<<>>, m)
        BY <2>1, <3>1 DEF m
      <4> QED  BY <4>1 DEF m
    <3>2. CASE error_msg = <<OldMessage>>
      <4>1. error_msg' = Append(<<OldMessage>>, m)
        BY <2>1, <3>2 DEF m
      <4> QED  BY <4>1 DEF m
    <3> QED  BY <2>1, <3>1, <3>2
  <2>4. Message("INVALID_METHOD", "method").code = "INVALID_METHOD"
    BY DEF Message
  <2>5. ReportsFirstError'
    BY <2>1, <2>2, <2>3, <2>4 DEF ReportsFirstError
  <2> QED  BY <2>1, <2>5 DEF CallInv, StageInv, LoopInv, AtStage, StageName
<1>3. ASSUME pc \in {"route", "mapped"}, req.route # "none", StringSound,
             NextStage, UNCHANGED <<entry, req, err, error_msg>>
      PROVE  Inv'
  <2>1. todo = Stages[entry] /\ req.method = "good" /\ Stages[entry] \in Seq(StageName)
    BY <1>3, StagesType DEF CallInv
  <2>2. todo = Remaining(0)
    BY <2>1, SubSeqFull DEF Remaining
  <2>3. Passed(0) /\ 0 \in 0..Len(Stages[entry])
    BY StagesType DEF Passed, CallInv
  <2> QED  BY <1>3, <2>1, <2>2, <2>3, Advance
<1>4. CASE RouteOwn
  <2>1. StringSound
    BY <1>4 DEF RouteOwn, CallInv, StringSound
  <2> QED  BY <1>3, <1>4, <2>1 DEF RouteOwn
<1>5. CASE RouteNotOwn
  BY <1>5 DEF RouteNotOwn, locals, RouteError, CallInv, StageInv, LoopInv, ReportsFirstError,
     AtStage, StageName
<1>6. CASE RouteMapped
  <2>1. StringSound
    BY <1>6 DEF RouteMapped, CallInv, StringSound
  <2> QED  BY <1>3, <1>6, <2>1 DEF RouteMapped
<1>7. CASE RouteNone
  <2>1. /\ pc' = "done" /\ err' = "INVALID_ROUTE" /\ UNCHANGED <<entry, req, i>>
        /\ error_msg' = <<Message("INVALID_ROUTE", "route")>>
        /\ req \in Requests /\ entry \in DOMAIN Stages
    BY <1>7 DEF RouteNone, Fail, CallInv, locals
  <2>2. Verdicts(entry, req) = { Message("INVALID_ROUTE", "route") }
    BY <1>7 DEF RouteNone, CallInv, Verdicts
  <2>3. Message("INVALID_ROUTE", "route").code = "INVALID_ROUTE"
    BY DEF Message
  <2>4. ReportsFirstError'
    BY <2>1, <2>2, <2>3 DEF ReportsFirstError
  <2> QED  BY <2>1, <2>4 DEF CallInv, StageInv, LoopInv, AtStage, StageName
<1> QED  BY <1>1, <1>2, <1>4, <1>5, <1>6, <1>7 DEF GetValidators

(* The body is one part, validated or not declared                         *)
(* (validators_store.cpp:39-45).                                           *)
LEMMA BodyInv == Inv /\ ValidateBody => Inv'
<1> SUFFICES ASSUME Inv, ValidateBody PROVE Inv'
  OBVIOUS
<1>1. pc = "body" /\ AtStage = "body" /\ AtStage \in StageName
  BY DEF ValidateBody, BodyGood, BodyBad, AtStage, StageName
<1>2. Culprits(req, "body") = IF Store.body /\ req.body = "bad" THEN {"body"} ELSE {}
  BY DEF Culprits, Store
<1>3. CASE BodyGood
  BY <1>1, <1>2, <1>3, StagePassed DEF BodyGood
<1>4. CASE BodyBad
  <2>1. "body" \in Culprits(req, AtStage) /\ Code[AtStage] = "INVALID_BODY"
    BY <1>1, <1>2, <1>4 DEF BodyBad, Code
  <2> QED  BY <1>1, <1>4, <2>1, Failure DEF BodyBad
<1> QED  BY <1>3, <1>4 DEF ValidateBody

(* The loop over the path parameters (validators_store.cpp:47-60).         *)
LEMMA PathInv == Inv /\ ValidatePathParams => Inv'
<1> SUFFICES ASSUME Inv, ValidatePathParams PROVE Inv'
  OBVIOUS
<1> DEFINE s == Store.path
           bad == {p \in Names(s) : req.path[p] # "good"}
<1>1. /\ pc = "path" /\ AtStage = "path" /\ AtStage \in StageName
      /\ i \in Nat /\ i >= 1 /\ Len(s) \in Nat
      /\ \A k \in 1..(i - 1) : k <= Len(s) => req.path[s[k]] = "good"
  <2>1. pc = "path" /\ req \in Requests
    BY DEF ValidatePathParams, PathGood, PathBad, PathDone, AtPath, Inv, CallInv
  <2>2. s \in Seq(STRING)
    BY <2>1, RequestsAssumption DEF Store
  <2> QED  BY <2>1, <2>2, LenProperties DEF Inv, LoopInv, AtStage, StageName
<1>2. Culprits(req, "path") = FirstOf(s, bad)
  BY DEF Culprits, Store
<1>3. CASE PathGood
  <2>1. /\ UNCHANGED <<pc, entry, req, todo, found, left, err, error_msg>> /\ i' = i + 1
        /\ i <= Len(s) /\ req.path[s[i]] = "good"
    BY <1>3 DEF PathGood, AtPath
  <2>2. \A k \in 1..(i' - 1) : k <= Len(s) => req.path[s[k]] = "good"
    BY <1>1, <2>1
  <2>3. LoopInv'
    BY <1>1, <2>1, <2>2 DEF LoopInv, Store
  <2> QED  BY <1>1, <2>1, <2>3, LoopStep DEF AtStage
<1>4. CASE PathBad
  <2>1. i \in 1..Len(s) /\ s[i] \in bad /\ \A m \in 1..(i - 1) : s[m] \notin bad
    BY <1>1, <1>4 DEF PathBad, AtPath, Names
  <2>2. s[i] \in Culprits(req, AtStage) /\ Code[AtStage] = "INVALID_PATH_PARAM"
    BY <1>1, <1>2, <2>1, FirstOfProperties DEF Code
  <2> QED  BY <1>1, <1>4, <2>2, Failure DEF PathBad
<1>5. CASE PathDone
  <2>1. \A k \in 1..Len(s) : s[k] \notin bad
    BY <1>1, <1>5 DEF PathDone
  <2>2. Culprits(req, AtStage) = {}
    BY <1>1, <1>2, <2>1, FirstOfProperties
  <2> QED  BY <1>1, <1>5, <2>2, StagePassed DEF PathDone
<1> QED  BY <1>3, <1>4, <1>5 DEF ValidatePathParams

(* The two loops over the query parameters: the first looks for each, the  *)
(* second validates the values of those found (validators_store.cpp:67-98).*)
LEMMA QueryInv == Inv /\ ValidateQueryParams => Inv'
<1> SUFFICES ASSUME Inv, ValidateQueryParams PROVE Inv'
  OBVIOUS
<1> DEFINE s == Store.query
           unlocated == { q \in Names(s) : \/ req.query[q] = "misplaced"
                                           \/ req.query[q] = "absent" /\ q \in Store.required }
           bad == {q \in Names(s) : req.query[q] = "bad"}
<1>1. /\ pc \in {"query", "values"} /\ AtStage = "query" /\ AtStage \in StageName
      /\ i \in Nat /\ i >= 1 /\ Len(s) \in Nat
      /\ \A q \in found : q \in Names(s) /\ req.query[q] \in {"good", "bad"}
  <2>1. pc \in {"query", "values"} /\ req \in Requests
    BY DEF ValidateQueryParams, QueryFound, QueryOmitted, QueryNotFound, QueriesFound,
       ValueGood, ValueBad, ValuesDone, AtQuery, AtValue, Inv, CallInv
  <2>2. s \in Seq(STRING)
    BY <2>1, RequestsAssumption DEF Store
  <2> QED  BY <2>1, <2>2, LenProperties DEF Inv, LoopInv, AtStage, StageName
<1>2. /\ pc = "query" => \A k \in 1..(i - 1) : k <= Len(s) => Located(s[k])
      /\ pc = "values" => \A q \in Names(s) : Located(q)
      /\ pc = "values" => \A k \in 1..(i - 1) :
            k <= Len(s) /\ s[k] \in found => req.query[s[k]] = "good"
  BY DEF Inv, LoopInv
<1>3. /\ Culprits(req, "query") = IF unlocated # {} THEN FirstOf(s, unlocated) ELSE FirstOf(s, bad)
      /\ Code["query"] = "INVALID_QUERY_PARAM"
  BY DEF Culprits, Store, Code
<1>4. \A q : Located(q) => q \notin unlocated
  BY DEF Located
<1>5. CASE QueryFound \/ QueryOmitted
  <2>1. /\ pc = "query" /\ UNCHANGED <<pc, entry, req, todo, left, err, error_msg>> /\ i' = i + 1
        /\ i \in 1..Len(s) /\ found' \in {found, found \cup {s[i]}}
    BY <1>1, <1>5 DEF QueryFound, QueryOmitted, AtQuery, name
  <2>2. s[i] \in Names(s)
    BY <2>1 DEF Names
  <2>3. \A q \in found' : q \in Names(s) /\ req.query[q] \in {"good", "bad"}
    BY <1>1, <1>5, <2>1, <2>2 DEF QueryFound, QueryOmitted, name
  <2>4. ASSUME NEW q, Located(q) \/ q = s[i]
        PROVE  Located(q)'
    <3>1. CASE q = s[i] /\ QueryFound
      BY <2>1, <3>1 DEF QueryFound, name, Located, Store
    <3>2. CASE q = s[i] /\ QueryOmitted
      <4>1. req.query[q] = "absent" /\ q \notin Store.required /\ found' = found
        BY <3>2 DEF QueryOmitted, name
      <4>2. q \notin found
        BY <1>1, <4>1
      <4> QED  BY <2>1, <4>1, <4>2 DEF Located, Store
    <3>3. CASE q # s[i] /\ Located(q)
      BY <2>1, <3>3 DEF Located, Store
    <3> QED  BY <1>5, <2>4, <3>1, <3>2, <3>3
  <2>5. ASSUME NEW k \in 1..(i' - 1), k <= Len(s), NEW q, q = s[k]
        PROVE  Located(q)'
    <3>1. k \in 1..(i - 1) \/ k = i
      BY <1>1, <2>1
    <3> QED  BY <1>2, <2>1, <2>4, <2>5, <3>1
  <2>6. Store' = Store /\ i' \in Nat /\ i' >= 1 /\ pc' = "query"
    BY <1>1, <2>1 DEF Store
  <2>7. LoopInv'
    BY <2>1, <2>3, <2>5, <2>6 DEF LoopInv, Located
  <2> QED  BY <1>1, <2>1, <2>7, LoopStep DEF AtStage
<1>6. CASE QueryNotFound
  <2>1. pc = "query" /\ i \in 1..Len(s) /\ s[i] \in Names(s) /\ s[i] \in unlocated
    BY <1>1, <1>6 DEF QueryNotFound, AtQuery, name, Names
  <2>2. \A m \in 1..(i - 1) : s[m] \notin unlocated
    <3> HIDE DEF unlocated
    <3> QED  BY <1>1, <1>2, <1>4, <2>1
  <2>3. s[i] \in Culprits(req, AtStage)
    <3> HIDE DEF unlocated, bad, s
    <3>1. s[i] \in FirstOf(s, unlocated)
      BY <2>1, <2>2, FirstOfProperties
    <3> QED  BY <1>1, <1>3, <2>1, <3>1
  <2> QED  BY <1>1, <1>3, <1>6, <2>3, Failure DEF QueryNotFound, name
<1>7. CASE QueriesFound
  <2>1. /\ pc = "query" /\ i > Len(s) /\ pc' = "values" /\ i' = 1
        /\ UNCHANGED <<entry, req, todo, found, left, err, error_msg>>
    BY <1>7 DEF QueriesFound
  <2>2. \A q \in Names(s) : Located(q)
    BY <1>1, <1>2, <2>1 DEF Names
  <2>3. LoopInv'
    BY <1>1, <2>1, <2>2 DEF LoopInv, Located, Store
  <2> QED  BY <1>1, <2>1, <2>3, LoopStep DEF AtStage
<1>8. CASE ValueGood
  <2>1. /\ pc = "values" /\ UNCHANGED <<pc, entry, req, todo, found, left, err, error_msg>>
        /\ i' = i + 1 /\ i <= Len(s)
        /\ s[i] \in found => req.query[s[i]] = "good"
    BY <1>8 DEF ValueGood, AtValue, name
  <2>2. \A k \in 1..(i' - 1) : k <= Len(s) /\ s[k] \in found => req.query[s[k]] = "good"
    <3>1. \A k \in 1..(i' - 1) : k \in 1..(i - 1) \/ k = i
      BY <1>1, <2>1
    <3> QED  BY <1>2, <2>1, <3>1
  <2>3. LoopInv'
    BY <1>1, <1>2, <2>1, <2>2 DEF LoopInv, Located, Store
  <2> QED  BY <1>1, <2>1, <2>3, LoopStep DEF AtStage
<1>9. ASSUME pc = "values"
      PROVE  /\ Culprits(req, AtStage) = FirstOf(s, bad)
             /\ \A q \in bad : q \in found
  <2>1. unlocated = {}
    BY <1>2, <1>4, <1>9
  <2>2. \A q \in bad : q \in found
    BY <1>2, <1>9 DEF Located
  <2> HIDE DEF unlocated, bad, s
  <2> QED  BY <1>1, <1>3, <2>1, <2>2
<1>10. CASE ValueBad
  <2>1. pc = "values" /\ i \in 1..Len(s) /\ s[i] \in Names(s) /\ s[i] \in bad
    BY <1>1, <1>10 DEF ValueBad, AtValue, name, Names
  <2>2. \A m \in 1..(i - 1) : s[m] \notin bad
    BY <1>1, <1>2, <1>9, <2>1
  <2>3. s[i] \in Culprits(req, AtStage)
    <3> HIDE DEF bad, s
    <3> QED  BY <1>9, <2>1, <2>2, FirstOfProperties
  <2> QED  BY <1>1, <1>3, <1>10, <2>3, Failure DEF ValueBad, name
<1>11. CASE ValuesDone
  <2>1. pc = "values" /\ i > Len(s)
    BY <1>11 DEF ValuesDone
  <2>2. \A k \in 1..Len(s) : s[k] \notin bad
    BY <1>1, <1>2, <1>9, <2>1
  <2>3. Culprits(req, AtStage) = {}
    <3> HIDE DEF bad, s
    <3> QED  BY <1>9, <2>1, <2>2, FirstOfProperties
  <2> QED  BY <1>1, <1>11, <2>3, StagePassed DEF ValuesDone
<1> QED  BY <1>5, <1>6, <1>7, <1>8, <1>10, <1>11 DEF ValidateQueryParams

(* The loop over the header parameters, in whatever order                  *)
(* (validators_store.cpp:100-118).                                         *)
LEMMA HeaderInv == Inv /\ ValidateHeaderParams => Inv'
<1> SUFFICES ASSUME Inv, ValidateHeaderParams PROVE Inv'
  OBVIOUS
<1>1. /\ pc = "header" /\ AtStage = "header" /\ AtStage \in StageName
      /\ i \in Nat /\ i >= 1 /\ left \subseteq Store.header
      /\ \A h \in Store.header : h \notin left => ~HeaderRefused(h)
  <2>1. pc = "header"
    BY DEF ValidateHeaderParams, HeadersDone, HeaderGood, HeaderBad
  <2> QED  BY <2>1 DEF Inv, LoopInv, AtStage, StageName
<1>2. /\ Culprits(req, AtStage) = {h \in Store.header : HeaderRefused(h)}
      /\ Code[AtStage] = "INVALID_HEADER_PARAM"
  BY <1>1 DEF Culprits, Store, HeaderRefused, Code
<1>3. CASE HeadersDone
  <2>1. Culprits(req, AtStage) = {}
    BY <1>1, <1>2, <1>3 DEF HeadersDone
  <2> QED  BY <1>1, <1>3, <2>1, StagePassed DEF HeadersDone
<1>4. ASSUME NEW h \in left, HeaderGood(h)
      PROVE  Inv'
  <2>1. /\ UNCHANGED <<pc, entry, req, todo, i, found, err, error_msg>> /\ left' = left \ {h}
        /\ ~HeaderRefused(h)
    BY <1>4 DEF HeaderGood
  <2>2. LoopInv'
    <3>1. /\ left' \subseteq Store.header
          /\ \A k \in Store.header : k \notin left' => ~HeaderRefused(k)
      BY <1>1, <2>1
    <3>2. UNCHANGED Store /\ \A k : HeaderRefused(k)' <=> HeaderRefused(k)
      BY <2>1 DEF HeaderRefused, Store
    <3> QED  BY <1>1, <2>1, <3>1, <3>2 DEF LoopInv
  <2> QED  BY <1>1, <2>1, <2>2, LoopStep DEF AtStage
<1>5. ASSUME NEW h \in left, HeaderBad(h)
      PROVE  Inv'
  <2>1. h \in Store.header
    BY <1>1
  <2>2. h \in Culprits(req, AtStage)
    BY <1>2, <1>5, <2>1 DEF HeaderBad
  <2> QED  BY <1>1, <1>2, <1>5, <2>2, Failure DEF HeaderBad
<1> QED  BY <1>3, <1>4, <1>5 DEF ValidateHeaderParams

(* The end of a call and the beginning of the next.                        *)
LEMMA ClientInv ==
    ASSUME Inv,
           \/ Return
           \/ /\ pc = "idle"
              /\ \E e \in DOMAIN Stages, r \in Requests, string \in {<<>>, <<OldMessage>>} :
                    Call(e, r, string)
    PROVE  Inv'
<1>1. CASE Return
  <2>1. "ValidateRoute" \in DOMAIN Stages
    BY DEF Stages
  <2> QED  BY <1>1, <2>1 DEF Return, Inv, CallInv, StageInv, LoopInv, ReportsFirstError,
           AtStage, StageName
<1>2. ASSUME pc = "idle", NEW e \in DOMAIN Stages, NEW r \in Requests,
             NEW string \in {<<>>, <<OldMessage>>}, Call(e, r, string)
      PROVE  Inv'
  BY <1>2 DEF Call, Inv, CallInv, StageInv, LoopInv, ReportsFirstError, AtStage, StageName
<1> QED  BY <1>1, <1>2

(* A validator that serves no request satisfies the invariant.             *)
THEOREM InitInv == Init => Inv
<1> SUFFICES ASSUME Init PROVE Inv
  OBVIOUS
<1>1. "ValidateRoute" \in DOMAIN Stages
  BY DEF Stages
<1> QED  BY <1>1 DEF Init, Inv, CallInv, StageInv, LoopInv, ReportsFirstError, AtStage, StageName

(* Every action of a call, and of its client, preserves the invariant      *)
(* (oas_validator_imp.cpp:30-161, validators_store.cpp:39-118).            *)
THEOREM NextInv == Inv /\ [Next]_vars => Inv'
<1> SUFFICES ASSUME Inv, [Next]_vars PROVE Inv'
  OBVIOUS
<1>1. CASE Work
  BY <1>1, GetValidatorsInv, BodyInv, PathInv, QueryInv, HeaderInv DEF Work
<1>2. CASE UNCHANGED vars
  <2>1. UNCHANGED <<pc, entry, req, todo, i, found, left, err, error_msg, Store, AtStage>>
    BY <1>2 DEF vars, locals, Store, AtStage
  <2>2. CallInv'
    BY <2>1 DEF Inv, CallInv
  <2>3. StageInv'
    BY <2>1 DEF Inv, StageInv, Remaining, Passed, StringSound
  <2>4. (\A q : Located(q)' <=> Located(q)) /\ (\A h : HeaderRefused(h)' <=> HeaderRefused(h))
    BY <2>1 DEF Located, HeaderRefused
  <2>5. LoopInv'
    BY <2>1, <2>4 DEF Inv, LoopInv
  <2>6. ReportsFirstError'
    BY <2>1 DEF Inv, ReportsFirstError
  <2> QED  BY <2>2, <2>3, <2>5, <2>6 DEF Inv
<1> QED  BY <1>1, <1>2, ClientInv DEF Next

(* The inductive invariant holds in every reachable state.                 *)
THEOREM Invariance == Spec => []Inv
BY InitInv, NextInv, PTL DEF Spec

(* For all stores and requests, a call returns the first error in the      *)
(* documented order of the stages it runs, with its message in the string, *)
(* and no error exactly when none of its stages finds one.                 *)
THEOREM FirstErrorReported == Spec => []ReportsFirstError
BY Invariance, PTL DEF Inv

(* For all stores and requests, a stage is reached only by a request that  *)
(* the stages before it accept, and a value of the query string is         *)
(* deserialised only after every query parameter was looked for.           *)
THEOREM LazyContent == Spec => []ContentIsLazy
<1>1. Inv => ContentIsLazy
  <2> SUFFICES ASSUME Inv, AtStage \in Names(Documented)
               PROVE  /\ req.method = "good" /\ req.route # "none"
                      /\ \A stage \in Names(Stages[entry]) :
                           (CHOOSE k \in 1..Len(Documented) : Documented[k] = stage)
                             < (CHOOSE k \in 1..Len(Documented) : Documented[k] = AtStage)
                           => Culprits(req, stage) = {}
                      /\ pc = "values" =>
                           found = { q \in Names(Store.query) :
                                       q \in Store.required \/ req.query[q] # "absent" }
    BY DEF ContentIsLazy, AtStage
  <2> DEFINE place(stage) == CHOOSE k \in 1..Len(Documented) : Documented[k] = stage
  <2>1. PICK k \in 1..4 : Documented[k] = AtStage
    BY DocumentedPlaces DEF Names
  <2>2. AtStage \in StageName
    BY <2>1, DocumentedPlaces DEF StageName
  <2>3. req.method = "good" /\ req.route # "none" /\ entry \in DOMAIN Stages
    BY <2>2 DEF Inv, StageInv, CallInv
  <2>4. PICK n \in 1..Len(Stages[entry]) : AtStage = Stages[entry][n] /\ Passed(n - 1)
    BY <2>2 DEF Inv, StageInv
  <2>5. ASSUME NEW stage \in Names(Stages[entry]), place(stage) < place(AtStage)
        PROVE  Culprits(req, stage) = {}
    <3>1. stage \in StageName
      BY <2>3, StagesType, ElementOfSeq DEF Names
    <3>2. PICK j \in 1..4 : Documented[j] = stage
      BY <3>1, DocumentedPlaces DEF StageName
    <3>3. place(stage) = j /\ place(AtStage) = k
      BY <2>1, <3>2, DocumentedPlaces
    <3> HIDE DEF place
    <3>4. PICK m \in 1..(n - 1) : stage = Stages[entry][m]
      BY <2>1, <2>3, <2>4, <2>5, <3>2, <3>3, StagesInOrder
    <3> QED  BY <2>4, <3>4 DEF Passed
  <2>6. ASSUME pc = "values"
        PROVE  found = { q \in Names(Store.query) :
                           q \in Store.required \/ req.query[q] # "absent" }
    BY <2>6 DEF Inv, LoopInv, Located
  <2> QED  BY <2>3, <2>5, <2>6
<1> QED  BY <1>1, Invariance, PTL

-----------------------------------------------------------------------------
(* Types.                                                                  *)

\* The locals of a call are as Call found them until its first stage.
TypeInv == /\ TypeOK
           /\ todo \in Seq(StageName)
           /\ pc \in {"idle", "method", "route", "mapped"} => i = 1 /\ found = {} /\ left = {}

\* How far the loop of a stage may go.
LoopEnd == Len(IF pc = "path" THEN Store.path
             ELSE IF pc \in {"query", "values"} THEN Store.query
             ELSE Store.path \o Store.query)

(* The loop over both vectors is the longest.                              *)
LEMMA Lengths ==
    \A p, q \in Seq(STRING) :
       /\ Len(p) \in Nat /\ Len(q) \in Nat /\ Len(p \o q) \in Nat
       /\ Len(p) <= Len(p \o q) /\ Len(q) <= Len(p \o q) /\ Len(p \o q) <= Len(p \o q)
<1> SUFFICES ASSUME NEW p \in Seq(STRING), NEW q \in Seq(STRING)
             PROVE  /\ Len(p) \in Nat /\ Len(q) \in Nat /\ Len(p \o q) \in Nat
                    /\ Len(p) <= Len(p \o q) /\ Len(q) <= Len(p \o q) /\ Len(p \o q) <= Len(p \o q)
  OBVIOUS
<1>1. Len(p) \in Nat /\ Len(q) \in Nat /\ Len(p \o q) = Len(p) + Len(q)
  BY LenProperties, ConcatProperties
<1> QED  BY <1>1

(* The vectors of a store are sequences.                                   *)
LEMMA StoreType ==
    ASSUME Store = NoStore \/ Store \in Stores
    PROVE  /\ Len(Store.path) \in Nat /\ Len(Store.query) \in Nat
           /\ Len(Store.path \o Store.query) \in Nat
           /\ LoopEnd \in Nat /\ LoopEnd <= Len(Store.path \o Store.query)
<1>1. Store.path \in Seq(STRING) /\ Store.query \in Seq(STRING)
  <2>1. CASE Store = NoStore
    <3>1. <<>> \in Seq(STRING) /\ NoStore.path = <<>> /\ NoStore.query = <<>>
      BY EmptySeq DEF NoStore
    <3> QED  BY <2>1, <3>1
  <2>2. CASE Store \in Stores
    BY <2>2, RequestsAssumption
  <2> QED  BY <2>1, <2>2
<1>2. LoopEnd \in {Len(Store.path), Len(Store.query), Len(Store.path \o Store.query)}
  BY DEF LoopEnd
<1>3. \/ LoopEnd = Len(Store.path)
      \/ LoopEnd = Len(Store.query)
      \/ LoopEnd = Len(Store.path \o Store.query)
  BY <1>2, Zenon
<1> QED  BY <1>1, <1>3, Lengths, Zenon

(* Bounds of a loop.                                                       *)
LEMMA LoopBounds ==
    ASSUME NEW l \in Nat
    PROVE  /\ \A first : first = 1 => first \in 1..(l + 1)
           /\ \A m \in Nat, k \in 1..(l + 1) : l <= m => k \in 1..(m + 1)
OBVIOUS

(* The place after one the loop has not passed.                            *)
LEMMA NextPlace ==
    ASSUME NEW l \in Nat, NEW k \in 1..(l + 1), k <= l
    PROVE  k + 1 \in 1..(l + 1)
OBVIOUS

(* A stage begins at the first of its parameters.                          *)
LEMMA NextStageType ==
    ASSUME TypeInv, NextStage, UNCHANGED <<entry, req, err>>
    PROVE  TypeInv'
<1>1. /\ i' = 1 /\ found' = {} /\ left' = Store.header /\ Store' = Store
      /\ pc' \in StageName \cup {"done"} /\ todo' \in Seq(StageName)
  <2>1. CASE todo = <<>>
    BY <2>1 DEF NextStage, TypeInv, Store
  <2>2. CASE todo # <<>>
    <3>1. todo \in Seq(StageName)
      BY DEF TypeInv
    <3>2. Head(todo) \in StageName /\ Tail(todo) \in Seq(StageName)
      BY <2>2, <3>1, HeadTailProperties
    <3> QED  BY <2>2, <3>2 DEF NextStage, Store
  <2> QED  BY <2>1, <2>2
<1>2. \A k \in 1..Len(todo') : todo'[k] \in {"body", "path", "query", "header"}
  BY <1>1, ElementOfSeq DEF StageName
<1>3. Store = NoStore \/ Store \in Stores
  BY DEF TypeInv, TypeOK
<1>4. i' \in 1..(LoopEnd' + 1)
  <2>1. LoopEnd' \in {Len(Store.path), Len(Store.query), Len(Store.path \o Store.query)}
    BY <1>1 DEF LoopEnd
  <2>2. LoopEnd' \in Nat
    BY <1>3, <2>1, StoreType, Zenon
  <2> QED  BY <1>1, <2>2, LoopBounds, Zenon
<1> QED  BY <1>1, <1>2, <1>3, <1>4 DEF TypeInv, TypeOK, StageName, LoopEnd

(* A call fails where it is.                                               *)
LEMMA FailType ==
    ASSUME TypeInv,
           NEW code \in {"INVALID_METHOD", "INVALID_ROUTE", "INVALID_BODY", "INVALID_PATH_PARAM",
                         "INVALID_QUERY_PARAM", "INVALID_HEADER_PARAM"},
           pc' = "done", err' = code, UNCHANGED <<entry, req, locals>>
    PROVE  TypeInv'
<1>1. Store' = Store /\ UNCHANGED <<todo, i, found, left>>
  BY DEF Store, locals
<1>2. Store = NoStore \/ Store \in Stores
  BY DEF TypeInv, TypeOK
<1>3. i' \in 1..(LoopEnd' + 1)
  <2>1. i \in 1..(LoopEnd + 1)
    BY DEF TypeInv, TypeOK, LoopEnd
  <2>2. LoopEnd' = Len(Store.path \o Store.query)
    BY <1>1 DEF LoopEnd
  <2>3. LoopEnd \in Nat /\ LoopEnd' \in Nat /\ LoopEnd <= LoopEnd'
    <3>1. Len(Store.path \o Store.query) \in Nat /\ LoopEnd <= Len(Store.path \o Store.query)
      BY <1>2, StoreType, Zenon
    <3> QED  BY <1>2, <2>2, <3>1, StoreType, Zenon
  <2>4. i \in 1..(LoopEnd' + 1)
    BY <2>1, <2>3, LoopBounds, Zenon
  <2> QED  BY <1>1, <2>4, Zenon
<1> QED  BY <1>1, <1>3 DEF TypeInv, TypeOK, LoopEnd

(* A loop goes on to the next parameter.                                   *)
LEMMA LoopType ==
    ASSUME TypeInv, pc \in StageName \cup {"values"}, pc' \in {pc, "values"},
           UNCHANGED <<entry, req, todo, err>>,
           i' = 1 \/ (pc' = pc /\ (i' = i \/ (i' = i + 1 /\ i <= LoopEnd))),
           found' \subseteq Names(Store.query), left' \subseteq left
    PROVE  TypeInv'
<1>1. Store' = Store
  BY DEF Store
<1>2. Store = NoStore \/ Store \in Stores
  BY DEF TypeInv, TypeOK
<1>3. i' \in 1..(LoopEnd' + 1)
  <2>1. i \in 1..(LoopEnd + 1)
    BY DEF TypeInv, TypeOK, LoopEnd
  <2>2. LoopEnd' \in Nat /\ (pc' = pc => LoopEnd' = LoopEnd)
    <3>1. LoopEnd' \in {Len(Store.path), Len(Store.query), Len(Store.path \o Store.query)}
      BY <1>1 DEF LoopEnd
    <3>2. /\ Len(Store.path) \in Nat /\ Len(Store.query) \in Nat
          /\ Len(Store.path \o Store.query) \in Nat
      BY <1>2, StoreType, Zenon
    <3>3. pc' = pc => LoopEnd' = LoopEnd
      BY <1>1 DEF LoopEnd
    <3> QED  BY <3>1, <3>2, <3>3, Zenon
  <2>3. LoopEnd \in Nat
    BY <1>2, StoreType
  <2>4. CASE i' = 1
    BY <2>2, <2>4, LoopBounds, Zenon
  <2>5. CASE pc' = pc /\ i' = i
    BY <2>1, <2>2, <2>5, Zenon
  <2>6. CASE pc' = pc /\ i' = i + 1 /\ i <= LoopEnd
    <3>1. i + 1 \in 1..(LoopEnd + 1)
      BY <2>1, <2>3, <2>6, NextPlace, Zenon
    <3> QED  BY <2>2, <2>6, <3>1, Zenon
  <2> QED  BY <2>4, <2>5, <2>6
<1> QED  BY <1>1, <1>3 DEF TypeInv, TypeOK, Names, StageName, LoopEnd

(* Between calls the locals are as Call leaves them, and every variable is *)
(* in its type.                                                            *)
THEOREM TypeInvariance == Spec => []TypeInv
<1>1. Init => TypeInv
  <2> SUFFICES ASSUME Init PROVE TypeInv
    OBVIOUS
  <2>1. /\ "ValidateRoute" \in DOMAIN Stages /\ <<>> \in Seq(StageName) /\ Store = NoStore
        /\ Len(<<>>) = 0
    BY EmptySeq DEF Init, Stages, Store, NoRequest
  <2>2. i \in 1..(LoopEnd + 1)
    <3>1. i = 1 /\ LoopEnd \in Nat
      BY <2>1, StoreType DEF Init
    <3> QED  BY <3>1, LoopBounds, Zenon
  <2>3. /\ pc = "idle" /\ entry \in DOMAIN Stages /\ todo \in Seq(StageName)
        /\ \A k \in 1..Len(todo) : todo[k] \in {"body", "path", "query", "header"}
        /\ i = 1 /\ found = {} /\ left = {} /\ err = "NONE" /\ Store = NoStore
    BY <2>1, ElementOfSeq DEF Init, StageName
  <2> QED  BY <2>2, <2>3, Zenon DEF TypeInv, TypeOK, LoopEnd
<1>2. TypeInv /\ [Next]_vars => TypeInv'
  <2> SUFFICES ASSUME TypeInv, [Next]_vars PROVE TypeInv'
    OBVIOUS
  <2>1. CASE GetValidators
    <3>1. CASE RouteOwn \/ RouteMapped
      BY <3>1, NextStageType DEF RouteOwn, RouteMapped
    <3>2. CASE MethodBad \/ RouteNone
      BY <3>2, FailType DEF MethodBad, RouteNone, Fail
    <3>3. CASE MethodGood \/ RouteNotOwn
      <4>1. /\ pc' \in {"route", "mapped"} /\ pc \in {"method", "route"}
            /\ UNCHANGED <<entry, req, todo, i, found, left, err, Store>>
        BY <3>3 DEF MethodGood, RouteNotOwn, locals, Store
      <4> QED  BY <4>1 DEF TypeInv, TypeOK
    <3> QED  BY <2>1, <3>1, <3>2, <3>3 DEF GetValidators
  <2>2. CASE \/ BodyGood \/ PathDone \/ ValuesDone \/ HeadersDone
    BY <2>2, NextStageType DEF BodyGood, PathDone, ValuesDone, HeadersDone
  <2>3. CASE \/ BodyBad \/ PathBad \/ QueryNotFound \/ ValueBad \/ \E h \in left : HeaderBad(h)
    BY <2>3, FailType DEF BodyBad, PathBad, QueryNotFound, ValueBad, HeaderBad, Fail
  <2>4. CASE PathGood \/ QueryFound \/ QueryOmitted \/ ValueGood
    <3>1. /\ pc' = pc /\ pc \in {"path", "query", "values"}
          /\ UNCHANGED <<entry, req, todo, err, left>>
          /\ i' = i + 1 /\ i <= LoopEnd
      BY <2>4 DEF PathGood, QueryFound, QueryOmitted, ValueGood, AtPath, AtQuery, AtValue, LoopEnd
    <3>2. found \subseteq Names(Store.query)
      BY DEF TypeInv, TypeOK, Names
    <3>3. found' \subseteq Names(Store.query)
      <4>1. CASE QueryFound
        <5>1. Len(Store.query) \in Nat
          BY StoreType DEF TypeInv, TypeOK
        <5>2. name \in Names(Store.query)
          BY <4>1, <5>1 DEF QueryFound, AtQuery, name, Names, TypeInv, TypeOK
        <5> QED  BY <3>2, <4>1, <5>2 DEF QueryFound
      <4> QED  BY <2>4, <3>2, <4>1 DEF PathGood, QueryOmitted, ValueGood
    <3> QED  BY <3>1, <3>3, LoopType DEF StageName
  <2>5. CASE QueriesFound \/ \E h \in left : HeaderGood(h)
    <3>1. /\ pc \in {"query", "header"} /\ pc' \in {pc, "values"}
          /\ UNCHANGED <<entry, req, todo, err, found>>
          /\ i' = 1 \/ (pc' = pc /\ i' = i)
          /\ left' \subseteq left
      BY <2>5 DEF QueriesFound, HeaderGood
    <3>2. found \subseteq Names(Store.query)
      BY DEF TypeInv, TypeOK, Names
    <3> QED  BY <3>1, <3>2, LoopType DEF StageName
  <2>6. CASE Return
    <3>1. /\ "ValidateRoute" \in DOMAIN Stages /\ <<>> \in Seq(StageName) /\ Store' = NoStore
          /\ Len(<<>>) = 0
      BY <2>6, EmptySeq DEF Return, Stages, Store, NoRequest
    <3>2. Len(NoStore.path \o NoStore.query) = 0
      BY DEF NoStore
    <3>3. LoopEnd' = 0 /\ i' = 1
      BY <2>6, <3>1, <3>2 DEF Return, LoopEnd
    <3>4. i' \in 1..(LoopEnd' + 1)
      <4>1. 0 \in Nat
        OBVIOUS
      <4> QED  BY <3>3, <4>1, LoopBounds, Zenon
    <3>5. /\ pc' = "idle" /\ entry' \in DOMAIN Stages /\ todo' \in Seq(StageName)
          /\ \A k \in 1..Len(todo') : todo'[k] \in {"body", "path", "query", "header"}
          /\ i' = 1 /\ found' = {} /\ left' = {} /\ err' = "NONE"
      BY <2>6, <3>1, ElementOfSeq DEF Return, StageName
    <3> QED  BY <3>1, <3>4, <3>5, Zenon DEF TypeInv, TypeOK, LoopEnd
  <2>7. ASSUME pc = "idle", NEW e \in DOMAIN Stages, NEW r \in Requests,
               NEW string \in {<<>>, <<OldMessage>>}, Call(e, r, string)
        PROVE  TypeInv'
    <3>1. /\ pc' = "method" /\ entry' = e /\ Store' \in Stores /\ todo' = Stages[e]
          /\ i' = 1 /\ found' = {} /\ left' = {} /\ err' = err
      BY <2>7, RequestsAssumption DEF Call, TypeInv, Store
    <3>2. todo' \in Seq(StageName) /\ \A k \in 1..Len(todo') : todo'[k] \in StageName
      BY <3>1, StagesType, ElementOfSeq
    <3>3. Len(Store'.path \o Store'.query) \in Nat
      BY <3>1, RequestsAssumption, ConcatProperties, LenProperties
    <3>4. i' \in 1..(LoopEnd' + 1)
      <4>1. LoopEnd' = Len(Store'.path \o Store'.query)
        BY <3>1 DEF LoopEnd
      <4> QED  BY <3>1, <3>3, <4>1, LoopBounds, Zenon
    <3> QED  BY <3>1, <3>2, <3>4 DEF TypeInv, TypeOK, StageName, LoopEnd
  <2>8. CASE UNCHANGED vars
    BY <2>8 DEF vars, locals, TypeInv, TypeOK, Store
  <2> QED  BY <2>1, <2>2, <2>3, <2>4, <2>5, <2>6, <2>7, <2>8
       DEF Next, Work, ValidateBody, ValidatePathParams, ValidateQueryParams, ValidateHeaderParams
<1> QED  BY <1>1, <1>2, PTL DEF Spec

(* Every variable stays in its type, for all stores and requests.          *)
THEOREM TypeCorrectness == Spec => []TypeOK
BY TypeInvariance, PTL DEF TypeInv

-----------------------------------------------------------------------------
(* Calls end.                                                              *)

\* No stage has more steps than this.
Width == Len(Store.path) + 2 * Len(Store.query) + Cardinality(Store.header) + 3

\* The steps left of the stage a call is at.
Place == CASE pc = "method" -> 3
           [] pc = "route"  -> 2
           [] pc = "mapped" -> 1
           [] pc = "body"   -> 1
           [] pc = "path"   -> Len(Store.path) + 2 - i
           [] pc = "query"  -> 2 * Len(Store.query) + 3 - i
           [] pc = "values" -> Len(Store.query) + 2 - i
           [] pc = "header" -> Cardinality(left) + 1
           [] OTHER -> 0

\* The steps that a call may still take are no more than this.
StepsLeft == Width * Len(todo) + Place

(* Every step of a call brings it nearer to its return: each turn of a     *)
(* loop leaves one parameter fewer, each stage one stage fewer             *)
(* (oas_validator_imp.cpp:30-161, validators_store.cpp:39-118).            *)
StepsRunOut == [][Work => StepsLeft' \in Nat /\ StepsLeft' < StepsLeft]_vars

\* A store has finitely many headers, and so has what is left of them.
LEMMA Sizes ==
    ASSUME TypeInv
    PROVE  /\ Len(Store.path) \in Nat /\ Len(Store.query) \in Nat /\ Len(todo) \in Nat
           /\ IsFiniteSet(Store.header) /\ Cardinality(Store.header) \in Nat
           /\ IsFiniteSet(left) /\ Cardinality(left) \in Nat
           /\ Width \in Nat /\ Width >= 3
<1>1. Store = NoStore \/ Store \in Stores
  BY DEF TypeInv, TypeOK
<1>2. Len(Store.path) \in Nat /\ Len(Store.query) \in Nat
  BY <1>1, StoreType
<1>3. IsFiniteSet(Store.header)
  <2>1. CASE Store = NoStore
    BY <2>1, FS_EmptySet DEF NoStore
  <2>2. CASE Store \in Stores
    BY <2>2, RequestsAssumption
  <2> QED  BY <1>1, <2>1, <2>2
<1>4. IsFiniteSet(left) /\ left \subseteq Store.header
  <2>1. left \subseteq Store.header
    BY DEF TypeInv, TypeOK
  <2> QED  BY <1>3, <2>1, FS_Subset
<1>5. Cardinality(Store.header) \in Nat /\ Cardinality(left) \in Nat
  BY <1>3, <1>4, FS_CardinalityType
<1>6. Len(todo) \in Nat
  BY LenProperties DEF TypeInv
<1>7. Width \in Nat /\ Width >= 3
  <2>1. \A a, b, c \in Nat : a + 2 * b + c + 3 \in Nat /\ a + 2 * b + c + 3 >= 3
    OBVIOUS
  <2> QED  BY <1>2, <1>5, <2>1 DEF Width
<1> QED  BY <1>2, <1>3, <1>4, <1>5, <1>6, <1>7

\* One stage fewer outweighs all the steps of a stage.
LEMMA Fewer ==
    ASSUME NEW w \in Nat, NEW n \in Nat, NEW p \in Nat, NEW q \in Nat
    PROVE  /\ q < p => w * n + q \in Nat /\ w * n + q < w * n + p
           /\ n > 0 /\ q <= w /\ 0 < p => w * (n - 1) + q \in Nat /\ w * (n - 1) + q < w * n + p
<1>1. w * n \in Nat
  OBVIOUS
<1>2. n > 0 => w * (n - 1) \in Nat /\ w * n = w * (n - 1) + w
  <2> SUFFICES ASSUME n > 0 PROVE w * (n - 1) \in Nat /\ w * n = w * (n - 1) + w
    OBVIOUS
  <2>1. PICK m \in Nat : n = m + 1 /\ n - 1 = m
    <3>1. n - 1 \in Nat /\ n = (n - 1) + 1
      OBVIOUS
    <3> QED  BY <3>1
  <2>2. w * m \in Nat /\ w * (m + 1) = w * m + w
    OBVIOUS
  <2> QED  BY <2>1, <2>2
<1> QED  BY <1>1, <1>2

\* A step that stays in its stage, or fails.
LEMMA PlaceLess ==
    ASSUME TypeInv, UNCHANGED <<req, todo>>,
           Place \in Nat, Place' \in Nat, Place' < Place
    PROVE  StepsLeft' \in Nat /\ StepsLeft' < StepsLeft
<1>1. Width' = Width /\ todo' = todo
  BY DEF Width, Store
<1>2. Width * Len(todo) + Place' \in Nat /\ Width * Len(todo) + Place' < Width * Len(todo) + Place
  BY Sizes, Fewer
<1> QED  BY <1>1, <1>2 DEF StepsLeft

\* The next stage, or the return.
LEMMA StageLess ==
    ASSUME TypeInv, NextStage, UNCHANGED req, Place \in Nat, Place > 0
    PROVE  StepsLeft' \in Nat /\ StepsLeft' < StepsLeft
<1>1. Store' = Store /\ Width' = Width
  BY DEF Store, Width
<1>2. CASE todo = <<>>
  <2>1. pc' = "done" /\ UNCHANGED <<req, todo>>
    BY <1>2 DEF NextStage
  <2>2. Place' = 0
    BY <2>1 DEF Place
  <2> QED  BY <2>1, <2>2, PlaceLess
<1>3. CASE todo # <<>>
  <2>1. todo \in Seq(StageName)
    BY DEF TypeInv
  <2>2. /\ pc' = Head(todo) /\ todo' = Tail(todo) /\ i' = 1 /\ left' = Store.header
    BY <1>3 DEF NextStage
  <2>3. /\ pc' \in StageName /\ Len(todo') = Len(todo) - 1 /\ Len(todo) > 0
    BY <1>3, <2>1, <2>2, HeadTailProperties, EmptySeq
  <2>4. /\ Len(Store.path) \in Nat /\ Len(Store.query) \in Nat /\ Len(todo) \in Nat
        /\ Cardinality(Store.header) \in Nat
    BY Sizes
  <2>5. Place' \in Nat /\ Place' <= Width
    <3>1. \/ pc' = "body" \/ pc' = "path" \/ pc' = "query" \/ pc' = "header"
      BY <2>3 DEF StageName
    <3>2. /\ pc' = "body" => Place' = 1
          /\ pc' = "path" => Place' = Len(Store.path) + 2 - 1
          /\ pc' = "query" => Place' = 2 * Len(Store.query) + 3 - 1
          /\ pc' = "header" => Place' = Cardinality(Store.header) + 1
      BY <1>1, <2>2 DEF Place
    <3>3. \A a, b, c \in Nat :
             LET w == a + 2 * b + c + 3
             IN  /\ 1 \in Nat /\ a + 2 - 1 \in Nat /\ 2 * b + 3 - 1 \in Nat /\ c + 1 \in Nat
                 /\ 1 <= w /\ a + 2 - 1 <= w /\ 2 * b + 3 - 1 <= w /\ c + 1 <= w
      OBVIOUS
    <3>4. /\ 1 \in Nat /\ Len(Store.path) + 2 - 1 \in Nat
          /\ 2 * Len(Store.query) + 3 - 1 \in Nat /\ Cardinality(Store.header) + 1 \in Nat
          /\ 1 <= Width /\ Len(Store.path) + 2 - 1 <= Width
          /\ 2 * Len(Store.query) + 3 - 1 <= Width /\ Cardinality(Store.header) + 1 <= Width
      BY <2>4, <3>3, Zenon DEF Width
    <3> QED  BY <3>1, <3>2, <3>4, Zenon
  <2>6. /\ Width * (Len(todo) - 1) + Place' \in Nat
        /\ Width * (Len(todo) - 1) + Place' < Width * Len(todo) + Place
    BY <2>3, <2>4, <2>5, Sizes, Fewer
  <2> QED  BY <1>1, <2>3, <2>6 DEF StepsLeft
<1> QED  BY <1>2, <1>3

\* Where a loop stands, its place is positive, and one parameter further it is less.
LEMMA LoopPlace ==
    ASSUME TypeInv
    PROVE  /\ pc \in StageName \cup {"values", "method", "route", "mapped"} =>
                 Place \in Nat /\ Place > 0
           /\ i \in Nat
           /\ pc = "path" => i <= Len(Store.path) + 1
           /\ pc \in {"query", "values"} => i <= Len(Store.query) + 1
<1>1. i \in 1..(LoopEnd + 1) /\ LoopEnd \in Nat
  <2>1. Store = NoStore \/ Store \in Stores
    BY DEF TypeInv, TypeOK
  <2> QED  BY <2>1, StoreType DEF TypeInv, TypeOK, LoopEnd
<1>2. /\ pc = "path" => LoopEnd = Len(Store.path)
      /\ pc \in {"query", "values"} => LoopEnd = Len(Store.query)
  BY DEF LoopEnd
<1>3. /\ i \in Nat
      /\ pc = "path" => i <= Len(Store.path) + 1
      /\ pc \in {"query", "values"} => i <= Len(Store.query) + 1
  BY <1>1, <1>2
<1>4. pc \in StageName \cup {"values", "method", "route", "mapped"} => Place \in Nat /\ Place > 0
  <2> SUFFICES ASSUME pc \in StageName \cup {"values", "method", "route", "mapped"}
               PROVE  Place \in Nat /\ Place > 0
    OBVIOUS
  <2>1. CASE pc \in {"method", "route", "mapped", "body"}
    BY <2>1 DEF Place
  <2>2. CASE pc = "path"
    <3>1. Place = Len(Store.path) + 2 - i
      BY <2>2, Zenon DEF Place
    <3>2. i \in Nat /\ Len(Store.path) \in Nat /\ i <= Len(Store.path) + 1
      BY <1>3, <2>2, Sizes
    <3> QED  BY <3>1, <3>2
  <2>3. CASE pc = "query"
    <3>1. Place = 2 * Len(Store.query) + 3 - i
      BY <2>3, Zenon DEF Place
    <3>2. i \in Nat /\ Len(Store.query) \in Nat /\ i <= Len(Store.query) + 1
      BY <1>3, <2>3, Sizes
    <3> QED  BY <3>1, <3>2
  <2>4. CASE pc = "values"
    <3>1. Place = Len(Store.query) + 2 - i
      BY <2>4, Zenon DEF Place
    <3>2. i \in Nat /\ Len(Store.query) \in Nat /\ i <= Len(Store.query) + 1
      BY <1>3, <2>4, Sizes
    <3> QED  BY <3>1, <3>2
  <2>5. CASE pc = "header"
    BY <2>5, Sizes DEF Place
  <2> QED  BY <2>1, <2>2, <2>3, <2>4, <2>5 DEF StageName
<1> QED  BY <1>3, <1>4

\* A call that fails is over.
LEMMA FailLess ==
    ASSUME TypeInv, pc \in StageName \cup {"values", "method", "route", "mapped"},
           pc' = "done", UNCHANGED <<req, todo>>
    PROVE  StepsLeft' \in Nat /\ StepsLeft' < StepsLeft
<1>1. Place' = 0
  BY DEF Place
<1> QED  BY <1>1, LoopPlace, PlaceLess

\* The next parameter of a vector.
LEMMA NextLess ==
    ASSUME TypeInv, pc \in {"path", "query", "values"}, pc' = pc, i' = i + 1,
           UNCHANGED <<req, todo>>,
           i <= Len(IF pc = "path" THEN Store.path ELSE Store.query)
    PROVE  StepsLeft' \in Nat /\ StepsLeft' < StepsLeft
<1>1. Store' = Store /\ Len(Store.path) \in Nat /\ Len(Store.query) \in Nat /\ i \in Nat
  BY Sizes, LoopPlace DEF Store
<1>2. Place' \in Nat /\ Place \in Nat /\ Place' < Place
  <2>1. CASE pc = "path"
    <3>1. Place = Len(Store.path) + 2 - i /\ Place' = Len(Store.path) + 2 - (i + 1)
      BY <1>1, <2>1, Zenon DEF Place
    <3>2. i \in Nat /\ Len(Store.path) \in Nat /\ i <= Len(Store.path)
      BY <1>1, <2>1
    <3> QED  BY <3>1, <3>2
  <2>2. CASE pc = "query"
    <3>1. Place = 2 * Len(Store.query) + 3 - i /\ Place' = 2 * Len(Store.query) + 3 - (i + 1)
      BY <1>1, <2>2, Zenon DEF Place
    <3>2. i \in Nat /\ Len(Store.query) \in Nat /\ i <= Len(Store.query)
      BY <1>1, <2>2
    <3> QED  BY <3>1, <3>2
  <2>3. CASE pc = "values"
    <3>1. Place = Len(Store.query) + 2 - i /\ Place' = Len(Store.query) + 2 - (i + 1)
      BY <1>1, <2>3, Zenon DEF Place
    <3>2. i \in Nat /\ Len(Store.query) \in Nat /\ i <= Len(Store.query)
      BY <1>1, <2>3
    <3> QED  BY <3>1, <3>2
  <2> QED  BY <2>1, <2>2, <2>3
<1> QED  BY <1>2, PlaceLess

\* Every step of a call.
LEMMA WorkLess ==
    ASSUME TypeInv, Work
    PROVE  StepsLeft' \in Nat /\ StepsLeft' < StepsLeft
<1>1. CASE RouteOwn \/ RouteMapped \/ BodyGood \/ PathDone \/ ValuesDone \/ HeadersDone
  <2>1. /\ NextStage /\ UNCHANGED req
        /\ pc \in StageName \cup {"values", "method", "route", "mapped"}
    BY <1>1 DEF RouteOwn, RouteMapped, BodyGood, PathDone, ValuesDone, HeadersDone, StageName
  <2> QED  BY <2>1, StageLess, LoopPlace
<1>2. CASE \/ MethodBad \/ RouteNone \/ BodyBad \/ PathBad \/ QueryNotFound \/ ValueBad
           \/ \E h \in left : HeaderBad(h)
  <2>1. /\ pc' = "done" /\ UNCHANGED <<req, todo>>
        /\ pc \in StageName \cup {"values", "method", "route", "mapped"}
    BY <1>2 DEF MethodBad, RouteNone, BodyBad, PathBad, QueryNotFound, ValueBad, HeaderBad, Fail,
                AtPath, AtQuery, AtValue, StageName, locals
  <2> QED  BY <2>1, FailLess
<1>3. CASE MethodGood \/ RouteNotOwn
  <2>1. /\ UNCHANGED <<req, todo>>
        /\ \/ pc = "method" /\ pc' = "route"
           \/ pc = "route" /\ pc' = "mapped"
    BY <1>3 DEF MethodGood, RouteNotOwn, locals
  <2>2. Place' \in Nat /\ Place \in Nat /\ Place' < Place
    BY <2>1 DEF Place
  <2> QED  BY <2>1, <2>2, PlaceLess
<1>4. CASE PathGood \/ QueryFound \/ QueryOmitted \/ ValueGood
  <2>1. /\ pc \in {"path", "query", "values"} /\ pc' = pc /\ i' = i + 1 /\ UNCHANGED <<req, todo>>
        /\ i <= Len(IF pc = "path" THEN Store.path ELSE Store.query)
    BY <1>4 DEF PathGood, QueryFound, QueryOmitted, ValueGood, AtPath, AtQuery, AtValue
  <2> QED  BY <2>1, NextLess
<1>5. CASE QueriesFound
  <2>1. pc = "query" /\ pc' = "values" /\ i' = 1 /\ UNCHANGED <<req, todo>> /\ Store' = Store
    BY <1>5 DEF QueriesFound, Store
  <2>2. i \in Nat /\ i <= Len(Store.query) + 1 /\ Len(Store.query) \in Nat
    BY <2>1, LoopPlace, Sizes
  <2>3. Place' = Len(Store.query) + 2 - 1 /\ Place = 2 * Len(Store.query) + 3 - i
    BY <2>1, Zenon DEF Place
  <2>4. Place' \in Nat /\ Place \in Nat /\ Place' < Place
    BY <2>2, <2>3
  <2> QED  BY <2>1, <2>4, PlaceLess
<1>6. ASSUME NEW h \in left, HeaderGood(h)
      PROVE  StepsLeft' \in Nat /\ StepsLeft' < StepsLeft
  <2>1. pc = "header" /\ pc' = "header" /\ left' = left \ {h} /\ UNCHANGED <<req, todo>>
    BY <1>6 DEF HeaderGood
  <2>2. /\ Cardinality(left \ {h}) = Cardinality(left) - 1 /\ Cardinality(left) \in Nat
        /\ Cardinality(left \ {h}) \in Nat
    <3>1. IsFiniteSet(left) /\ Cardinality(left) \in Nat
      BY Sizes
    <3>2. IsFiniteSet(left \ {h}) /\ Cardinality(left \ {h}) = Cardinality(left) - 1
      BY <3>1, FS_RemoveElement
    <3> QED  BY <3>1, <3>2, FS_CardinalityType
  <2>3. Place' = Cardinality(left \ {h}) + 1 /\ Place = Cardinality(left) + 1
    BY <2>1, Zenon DEF Place
  <2>4. Place' \in Nat /\ Place \in Nat /\ Place' < Place
    BY <2>2, <2>3
  <2> QED  BY <2>1, <2>4, PlaceLess
<1> QED  BY <1>1, <1>2, <1>3, <1>4, <1>5, <1>6
            DEF Work, GetValidators, ValidateBody, ValidatePathParams, ValidateQueryParams,
                ValidateHeaderParams

(* No call goes on for ever: each of its steps lowers a natural number,    *)
(* for all stores and requests (oas_validator_imp.cpp:30-161).             *)
THEOREM CallsEnd == Spec => StepsRunOut
<1>1. TypeInv /\ [Next]_vars => [Work => StepsLeft' \in Nat /\ StepsLeft' < StepsLeft]_vars
  BY WorkLess
<1> QED  BY <1>1, TypeInvariance, PTL DEF Spec, StepsRunOut

=============================================================================
