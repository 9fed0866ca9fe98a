------------------------ MODULE JsonValidatorProofs ------------------------
(***************************************************************************)
(* JsonValidator: for any number of threads and any documents, every call  *)
(* is answered from its own document, the concurrent validator implements  *)
(* the atomic one, and no call takes more steps than its document has      *)
(* events and six.                                                         *)
(***************************************************************************)
EXTENDS JsonValidator, TLAPS

USE DEF threadVars, validatorVars, Go

Rejected(d) == d.bad # 0

\* The verdict and the message that fit the document of a call.
OwnAnswer(t) ==
    /\ doc[t] \in Documents
    /\ IF ~doc[t].parses
       THEN result[t] = "INVALID" /\ msg[t] = [kind |-> "parser", about |-> {doc[t]}]
       ELSE IF Rejected(doc[t])
       THEN result[t] = "INVALID" /\ msg[t] = [kind |-> "schema", about |-> {doc[t]}]
       ELSE result[t] = "NONE" /\ msg[t] = Silent

(* Only the holder of the lock is in the critical section.                 *)
HolderOnly == \A t \in Threads : pc[t] \in Critical => mutex = t

(* What each place in Validate knows.  While a document is fed, the        *)
(* validator's stack is its own and no event of it was rejected so far.    *)
ThreadSound(t) ==
    /\ pc[t] = "idle" => doc[t] = NoDoc
    /\ pc[t] # "idle" => doc[t] \in Documents
    /\ pc[t] \in {"idle", "parse", "lock", "accept", "report"} => msg[t] = Silent
    /\ pc[t] \in {"idle", "parse", "lock"} => fed[t] = 0
    /\ pc[t] \in {"lock"} \cup Critical => doc[t].parses
    /\ pc[t] = "accept" => /\ valid /\ error = {} /\ open = fed[t]
                           /\ fed[t] < doc[t].size
                           /\ Rejected(doc[t]) => fed[t] < doc[t].bad
    /\ pc[t] = "report" => error = {doc[t]} /\ Rejected(doc[t])
    /\ pc[t] \in {"reset", "unlock", "done"} => OwnAnswer(t)
    /\ pc[t] = "unlock" => valid /\ error = {} /\ open = 0

Inv == /\ TypeOK
       /\ HolderOnly
       /\ FreeValidatorIsClean
       /\ \A t \in Threads : ThreadSound(t)

(* A new validator is clean and free, and no thread is in Validate         *)
(* (json_validator.cpp:9-15).                                              *)
THEOREM InitInv == Init => Inv
BY DocumentsAssumption
   DEF Init, Inv, TypeOK, HolderOnly, FreeValidatorIsClean, ThreadSound, Critical, Silent, OwnAnswer

(* A thread that takes no step keeps what it knows, if the validator is    *)
(* left alone or it is not using it.                                       *)
LEMMA OtherSound ==
    ASSUME NEW u \in Threads, ThreadSound(u),
           pc'[u] = pc[u], doc'[u] = doc[u], fed'[u] = fed[u],
           result'[u] = result[u], msg'[u] = msg[u],
           UNCHANGED validatorVars \/ pc[u] \notin Critical
    PROVE  ThreadSound(u)'
BY DEF ThreadSound, OwnAnswer, Critical

(* A call begins without touching the validator                            *)
(* (json_validator.cpp:17-19).                                             *)
LEMMA CallInv ==
    ASSUME Inv, NEW t \in Threads, NEW d \in Documents, Call(t, d)
    PROVE  Inv'
<1> USE DEF Inv, Call
<1>1. TypeOK'
  BY DEF TypeOK
<1>2. HolderOnly' /\ FreeValidatorIsClean'
  BY DEF TypeOK, HolderOnly, FreeValidatorIsClean, Critical
<1>3. ThreadSound(t)'
  BY DEF TypeOK, ThreadSound, Critical
<1>4. ASSUME NEW u \in Threads, u # t PROVE ThreadSound(u)'
  BY <1>4, OtherSound DEF TypeOK
<1>5. QED
  BY <1>1, <1>2, <1>3, <1>4

(* Parsing happens outside the lock (json_validator.cpp:19-27).            *)
LEMMA ParseInv ==
    ASSUME Inv, NEW t \in Threads, ParseError(t) \/ Parsed(t)
    PROVE  Inv'
<1> USE DEF Inv
<1>1. CASE ParseError(t)
  <2> USE DEF ParseError
  <2>1. doc[t] \in Documents
    BY <1>1 DEF ThreadSound
  <2>2. TypeOK'
    BY <1>1, <2>1 DEF TypeOK
  <2>3. HolderOnly' /\ FreeValidatorIsClean'
    BY <1>1 DEF TypeOK, HolderOnly, FreeValidatorIsClean, Critical
  <2>4. ThreadSound(t)'
    BY <1>1, <2>1 DEF TypeOK, ThreadSound, OwnAnswer, Critical
  <2>5. ASSUME NEW u \in Threads, u # t PROVE ThreadSound(u)'
    BY <1>1, <2>5, OtherSound DEF TypeOK
  <2>6. QED
    BY <2>2, <2>3, <2>4, <2>5
<1>2. CASE Parsed(t)
  <2> USE DEF Parsed
  <2>1. TypeOK'
    BY <1>2 DEF TypeOK
  <2>2. HolderOnly' /\ FreeValidatorIsClean'
    BY <1>2 DEF TypeOK, HolderOnly, FreeValidatorIsClean, Critical
  <2>3. ThreadSound(t)'
    BY <1>2 DEF TypeOK, ThreadSound, Critical
  <2>4. ASSUME NEW u \in Threads, u # t PROVE ThreadSound(u)'
    BY <1>2, <2>4, OtherSound DEF TypeOK
  <2>5. QED
    BY <2>1, <2>2, <2>3, <2>4
<1>3. QED
  BY <1>1, <1>2

(* The lock is taken over a clean validator (json_validator.cpp:33).       *)
LEMMA LockInv ==
    ASSUME Inv, NEW t \in Threads, Lock(t)
    PROVE  Inv'
<1> USE DEF Inv, Lock
<1>1. doc[t] \in Documents
  BY DEF ThreadSound
<1>2. TypeOK'
  BY DEF TypeOK, Critical
<1>3. mutex' = t /\ \A u \in Threads : pc[u] \notin Critical
  BY DocumentsAssumption DEF HolderOnly
<1>4. HolderOnly' /\ FreeValidatorIsClean'
  BY <1>3, DocumentsAssumption DEF TypeOK, HolderOnly, FreeValidatorIsClean
<1>5. valid /\ error = {} /\ open = 0
  BY DEF FreeValidatorIsClean
<1>6. ThreadSound(t)'
  BY <1>1, <1>5, DocumentsAssumption DEF TypeOK, ThreadSound, Critical, Rejected
<1>7. ASSUME NEW u \in Threads, u # t PROVE ThreadSound(u)'
  BY <1>7, OtherSound DEF TypeOK
<1>8. QED
  BY <1>2, <1>4, <1>6, <1>7

(* Inside the critical section a thread is alone.                          *)
LEMMA Alone ==
    ASSUME Inv, NEW t \in Threads, pc[t] \in Critical
    PROVE  /\ mutex = t /\ mutex # NoThread
           /\ \A u \in Threads : u # t => pc[u] \notin Critical
BY DocumentsAssumption DEF Inv, HolderOnly

(* A step of Accept: on a clean stack the validator's verdict on an event  *)
(* is the document's.                                                      *)
LEMMA FeedInv ==
    ASSUME Inv, NEW t \in Threads, FeedAccepted(t) \/ FeedRejected(t)
    PROVE  Inv'
<1> USE DEF Inv
<1>1. /\ pc[t] = "accept"
      /\ doc[t] \in Documents /\ doc[t].parses
      /\ valid /\ error = {} /\ open = fed[t]
      /\ fed[t] \in Nat /\ fed[t] < doc[t].size
      /\ Rejected(doc[t]) => fed[t] < doc[t].bad
      /\ doc[t].size \in Nat \ {0} /\ doc[t].bad \in 0..doc[t].size
      /\ msg[t] = Silent
  BY DocumentsAssumption DEF FeedAccepted, FeedRejected, ThreadSound, TypeOK, Critical
<1>2. /\ mutex = t /\ mutex # NoThread
      /\ \A u \in Threads : u # t => pc[u] \notin Critical
  BY <1>1, Alone DEF Critical
<1>3. Verdicts(t) = {fed[t] + 1 # doc[t].bad}
  BY <1>1 DEF Verdicts
<1>4. CASE FeedAccepted(t)
  <2> USE DEF FeedAccepted
  <2>1. fed[t] + 1 # doc[t].bad
    BY <1>3, <1>4
  <2>2. TypeOK'
    BY <1>1, <1>4, SMTT(30) DEF TypeOK, Critical
  <2>3. HolderOnly' /\ FreeValidatorIsClean'
    BY <1>1, <1>2, <1>4 DEF TypeOK, HolderOnly, FreeValidatorIsClean, Critical
  <2>4. ThreadSound(t)'
    <3>1. CASE fed[t] + 1 = doc[t].size
      <4>1. ~Rejected(doc[t])
        BY <1>1, <2>1, <3>1 DEF Rejected
      <4>2. /\ pc'[t] = "reset" /\ result'[t] = "NONE"
            /\ msg'[t] = Silent /\ doc'[t] = doc[t]
        BY <1>1, <1>4, <3>1 DEF TypeOK
      <4>3. QED
        BY <1>1, <4>1, <4>2 DEF ThreadSound, OwnAnswer, Critical
    <3>2. CASE fed[t] + 1 # doc[t].size
      <4>1. /\ pc'[t] = "accept" /\ fed'[t] = fed[t] + 1 /\ open' = fed[t] + 1
            /\ msg'[t] = Silent /\ doc'[t] = doc[t] /\ valid' /\ error' = {}
        BY <1>1, <1>4, <3>2 DEF TypeOK
      <4>2. fed[t] + 1 < doc[t].size /\ (Rejected(doc[t]) => fed[t] + 1 < doc[t].bad)
        BY <1>1, <2>1, <3>2
      <4>3. QED
        BY <1>1, <4>1, <4>2 DEF ThreadSound, Critical
    <3>3. QED
      BY <3>1, <3>2
  <2>5. ASSUME NEW u \in Threads, u # t PROVE ThreadSound(u)'
    BY <1>2, <1>4, <2>5, OtherSound DEF TypeOK
  <2>6. QED
    BY <2>2, <2>3, <2>4, <2>5
<1>5. CASE FeedRejected(t)
  <2> USE DEF FeedRejected
  <2>1. fed[t] + 1 = doc[t].bad /\ Rejected(doc[t])
    <3>1. fed[t] + 1 = doc[t].bad
      BY <1>3, <1>5, Zenon
    <3>2. QED
      BY <1>1, <3>1 DEF Rejected
  <2>2. TypeOK'
    <3>1. error' = {doc[t]} /\ error' \subseteq Documents
      BY <1>1, <1>5
    <3>2. open' \in Nat /\ fed' \in [Threads -> Nat]
      BY <1>1, <1>5 DEF TypeOK
    <3>3. valid' \in BOOLEAN /\ pc' = [pc EXCEPT ![t] = "report"] /\ UNCHANGED <<doc, result, msg, mutex>>
      BY <1>5
    <3>4. QED
      BY <3>1, <3>2, <3>3 DEF TypeOK, Critical
  <2>3. HolderOnly' /\ FreeValidatorIsClean'
    BY <1>1, <1>2, <1>5 DEF TypeOK, HolderOnly, FreeValidatorIsClean, Critical
  <2>4. ThreadSound(t)'
    <3>1. /\ pc'[t] = "report" /\ error' = {doc[t]}
          /\ msg'[t] = Silent /\ doc'[t] = doc[t]
      BY <1>1, <1>5 DEF TypeOK
    <3>2. QED
      BY <1>1, <2>1, <3>1 DEF ThreadSound, Critical
  <2>5. ASSUME NEW u \in Threads, u # t PROVE ThreadSound(u)'
    BY <1>2, <1>5, <2>5, OtherSound DEF TypeOK
  <2>6. QED
    BY <2>2, <2>3, <2>4, <2>5
<1>6. QED
  BY <1>4, <1>5

(* The message is written, the validator reset and the lock released, in   *)
(* this order (json_validator.cpp:34-44).                                  *)
LEMMA LeaveInv ==
    ASSUME Inv, NEW t \in Threads, Report(t) \/ Reset(t) \/ Unlock(t)
    PROVE  Inv'
<1> USE DEF Inv
<1>1. pc[t] \in Critical /\ doc[t] \in Documents
  BY DEF Report, Reset, Unlock, Critical, ThreadSound
<1>2. /\ mutex = t /\ mutex # NoThread
      /\ \A u \in Threads : u # t => pc[u] \notin Critical
  BY <1>1, Alone
<1>3. CASE Report(t)
  <2> USE DEF Report
  <2>1. TypeOK'
    BY <1>3 DEF TypeOK, Critical
  <2>2. HolderOnly' /\ FreeValidatorIsClean'
    BY <1>2, <1>3 DEF TypeOK, HolderOnly, FreeValidatorIsClean, Critical
  <2>3. /\ error = {doc[t]} /\ Rejected(doc[t]) /\ doc[t].parses
    BY <1>3 DEF ThreadSound, Critical
  <2>4. /\ pc'[t] = "reset" /\ doc'[t] = doc[t] /\ result'[t] = "INVALID"
        /\ msg'[t] = [kind |-> "schema", about |-> {doc[t]}]
    BY <1>3, <2>3 DEF TypeOK
  <2>5. ThreadSound(t)'
    BY <1>1, <2>3, <2>4 DEF ThreadSound, OwnAnswer, Critical
  <2>6. ASSUME NEW u \in Threads, u # t PROVE ThreadSound(u)'
    BY <1>2, <1>3, <2>6, OtherSound DEF TypeOK
  <2>7. QED
    BY <2>1, <2>2, <2>5, <2>6
<1>4. CASE Reset(t)
  <2> USE DEF Reset
  <2>1. TypeOK'
    BY <1>4 DEF TypeOK, Critical
  <2>2. HolderOnly' /\ FreeValidatorIsClean'
    BY <1>2, <1>4 DEF TypeOK, HolderOnly, FreeValidatorIsClean, Critical
  <2>3. ThreadSound(t)'
    BY <1>1, <1>4 DEF TypeOK, ThreadSound, OwnAnswer, Critical
  <2>4. ASSUME NEW u \in Threads, u # t PROVE ThreadSound(u)'
    BY <1>2, <1>4, <2>4, OtherSound DEF TypeOK
  <2>5. QED
    BY <2>1, <2>2, <2>3, <2>4
<1>5. CASE Unlock(t)
  <2> USE DEF Unlock
  <2>1. TypeOK'
    BY <1>5 DEF TypeOK
  <2>2. HolderOnly' /\ FreeValidatorIsClean'
    BY <1>2, <1>5 DEF TypeOK, HolderOnly, FreeValidatorIsClean, ThreadSound, Critical
  <2>3. ThreadSound(t)'
    BY <1>1, <1>5 DEF TypeOK, ThreadSound, OwnAnswer, Critical
  <2>4. ASSUME NEW u \in Threads, u # t PROVE ThreadSound(u)'
    BY <1>5, <2>4, OtherSound DEF TypeOK
  <2>5. QED
    BY <2>1, <2>2, <2>3, <2>4
<1>6. QED
  BY <1>3, <1>4, <1>5

(* A call returns without touching the validator (json_validator.cpp:38,   *)
(* 46).                                                                    *)
LEMMA ReturnInv ==
    ASSUME Inv, NEW t \in Threads, Return(t)
    PROVE  Inv'
<1> USE DEF Inv, Return
<1>1. TypeOK'
  BY DEF TypeOK, Silent
<1>2. HolderOnly' /\ FreeValidatorIsClean'
  BY DEF TypeOK, HolderOnly, FreeValidatorIsClean, Critical
<1>3. ThreadSound(t)'
  BY DEF TypeOK, ThreadSound, Critical
<1>4. ASSUME NEW u \in Threads, u # t PROVE ThreadSound(u)'
  BY <1>4, OtherSound DEF TypeOK
<1>5. QED
  BY <1>1, <1>2, <1>3, <1>4

(* Every step of every thread keeps the invariant.                         *)
THEOREM NextInv == Inv /\ [Next]_vars => Inv'
<1> SUFFICES ASSUME Inv, [Next]_vars PROVE Inv'
  OBVIOUS
<1>1. ASSUME NEW t \in Threads, Work(t) PROVE Inv'
  BY <1>1, ParseInv, LockInv, FeedInv, LeaveInv DEF Work
<1>2. ASSUME NEW t \in Threads, Return(t) PROVE Inv'
  BY <1>2, ReturnInv
<1>3. ASSUME NEW t \in Threads, NEW d \in Documents, Call(t, d) PROVE Inv'
  BY <1>3, CallInv
<1>4. CASE UNCHANGED vars
  <2> USE DEF Inv, vars
  <2>1. TypeOK' /\ HolderOnly' /\ FreeValidatorIsClean'
    BY <1>4 DEF TypeOK, HolderOnly, FreeValidatorIsClean
  <2>2. ASSUME NEW u \in Threads PROVE ThreadSound(u)'
    BY <1>4, OtherSound
  <2>3. QED
    BY <2>1, <2>2
<1>5. QED
  BY <1>1, <1>2, <1>3, <1>4 DEF Next

(* The inductive invariant holds in every reachable state.                 *)
THEOREM Invariance == Spec => []Inv
BY InitInv, NextInv, PTL DEF Spec

(* Every variable stays in its type, for any threads and documents.        *)
THEOREM TypeCorrectness == Spec => []TypeOK
BY Invariance, PTL DEF Inv

(* Whoever takes the lock, after any number of calls of any threads, finds *)
(* the validator without a trace of an earlier document.                   *)
THEOREM CleanWhenFree == Spec => []FreeValidatorIsClean
BY Invariance, PTL DEF Inv

(* A call that returns was told about its own document and no other,       *)
(* however the calls interleave.                                           *)
THEOREM OwnAnswers == Spec => []AnswersOwnDocument
<1>1. Inv => AnswersOwnDocument
  BY DEF Inv, ThreadSound, OwnAnswer, Rejected, Silent, AnswersOwnDocument
<1>2. QED
  BY <1>1, Invariance, PTL

-----------------------------------------------------------------------------
(* The refinement: a call is answered at the step that ends it, and every  *)
(* other step inside Validate is invisible.                                *)

(* At first no thread has an answer, in the atomic validator as in this    *)
(* one.                                                                    *)
LEMMA InitRefines == Init => Atomic!Init
BY DEF Init, Atomic!Init, VisibleAnswer, Atomic!Pending, Atomic!Silent, Silent

\* A step of t that leaves its document and stays clear of "done".
Inner(t) == /\ doc' = doc
            /\ pc' \in [Threads -> {"idle", "parse", "lock", "done"} \cup Critical]
            /\ pc[t] # "done" /\ pc'[t] # "done"
            /\ \A u \in Threads \ {t} : /\ pc'[u] = pc[u] /\ result'[u] = result[u]
                                       /\ msg'[u] = msg[u]

(* A step that gives no thread its answer, and takes none back, is no step *)
(* of the atomic validator (json_validator.cpp:19-44).                     *)
LEMMA InnerStutters ==
    ASSUME NEW t \in Threads, Inner(t)
    PROVE  UNCHANGED <<doc, VisibleAnswer>>
<1>1. ASSUME NEW u \in Threads PROVE VisibleAnswer'[u] = VisibleAnswer[u]
  BY DEF Inner, VisibleAnswer
<1>2. VisibleAnswer' = VisibleAnswer
  BY <1>1 DEF VisibleAnswer
<1>3. QED
  BY <1>2 DEF Inner

(* The step that ends a call gives the answer that fits its document.      *)
LEMMA LastStepAnswers ==
    ASSUME Inv, Inv', NEW t \in Threads, ParseError(t) \/ Unlock(t)
    PROVE  Atomic!Answer(t)
<1>1. /\ pc[t] # "done" /\ pc'[t] = "done" /\ doc' = doc /\ doc[t] # NoDoc
      /\ \A u \in Threads \ {t} : pc'[u] = pc[u] /\ result'[u] = result[u] /\ msg'[u] = msg[u]
  BY DocumentsAssumption DEF ParseError, Unlock, Inv, TypeOK, ThreadSound, Critical
<1>2. OwnAnswer(t)'
  BY <1>1 DEF Inv, ThreadSound
<1>3. VisibleAnswer'[t] = Atomic!Judge(doc[t])
  BY <1>1, <1>2 DEF OwnAnswer, Rejected, Silent, VisibleAnswer, Atomic!Judge, Atomic!Silent
<1>4. \A u \in Threads \ {t} : VisibleAnswer'[u] = VisibleAnswer[u]
  BY <1>1 DEF VisibleAnswer
<1>5. VisibleAnswer' = [VisibleAnswer EXCEPT ![t] = Atomic!Judge(doc[t])]
  BY <1>3, <1>4 DEF VisibleAnswer
<1>6. VisibleAnswer[t] = Atomic!Pending
  BY <1>1 DEF VisibleAnswer, Atomic!Pending, Atomic!Silent, Silent
<1>7. QED
  BY <1>1, <1>5, <1>6 DEF Atomic!Answer

(* Every step of Validate is a step of the atomic validator or a stutter:  *)
(* the last one of a call, out of the parser or of the lock, answers it    *)
(* (json_validator.cpp:17-47).                                             *)
LEMMA StepRefines == Inv /\ Inv' /\ [Next]_vars => [Atomic!Next]_Atomic!vars
<1> SUFFICES ASSUME Inv, Inv', [Next]_vars PROVE [Atomic!Next]_Atomic!vars
  OBVIOUS
<1> USE DEF Atomic!Next, Atomic!vars
<1>1. ASSUME NEW t \in Threads, ParseError(t) \/ Unlock(t)
      PROVE  Atomic!Next
  BY <1>1, LastStepAnswers
<1>2. ASSUME NEW t \in Threads,
             Parsed(t) \/ Lock(t) \/ FeedAccepted(t) \/ FeedRejected(t) \/ Report(t) \/ Reset(t)
      PROVE  UNCHANGED Atomic!vars
  <2>1. Inner(t)
    BY <1>2 DEF Inv, TypeOK, Inner, Parsed, Lock, FeedAccepted, FeedRejected, Report, Reset
  <2>2. QED
    BY <2>1, InnerStutters
<1>3. ASSUME NEW t \in Threads, NEW d \in Documents, Call(t, d)
      PROVE  Atomic!Next
  <2>1. doc[t] = NoDoc /\ doc' = [doc EXCEPT ![t] = d]
    BY <1>3 DEF Call, Inv, ThreadSound
  <2>2. VisibleAnswer' = VisibleAnswer
    BY <1>3 DEF Call, Inv, TypeOK, VisibleAnswer
  <2>3. QED
    BY <2>1, <2>2 DEF Atomic!Call
<1>4. ASSUME NEW t \in Threads, Return(t)
      PROVE  Atomic!Next
  <2>1. /\ pc[t] = "done" /\ pc'[t] = "idle" /\ doc' = [doc EXCEPT ![t] = NoDoc]
        /\ \A u \in Threads \ {t} : pc'[u] = pc[u] /\ result'[u] = result[u] /\ msg'[u] = msg[u]
    BY <1>4 DEF Return, Inv, TypeOK
  <2>2. VisibleAnswer[t] # Atomic!Pending
    <3>1. result[t] # "PENDING"
      BY <2>1 DEF Inv, ThreadSound, OwnAnswer
    <3>2. VisibleAnswer[t].result = result[t]
      BY <2>1 DEF VisibleAnswer
    <3>3. QED
      BY <3>1, <3>2 DEF Atomic!Pending
  <2>3. VisibleAnswer' = [VisibleAnswer EXCEPT ![t] = Atomic!Pending]
    BY <2>1 DEF VisibleAnswer, Atomic!Pending, Atomic!Silent, Silent
  <2>4. QED
    BY <2>1, <2>2, <2>3 DEF Atomic!Return
<1>5. CASE UNCHANGED vars
  BY <1>5 DEF vars, VisibleAnswer
<1>6. QED
  BY <1>1, <1>2, <1>3, <1>4, <1>5 DEF Next, Work

(* The validator under its lock implements the one that answers every call *)
(* in a single step.                                                       *)
THEOREM Refinement == Spec => RefinesAtomic
<1>1. Inv /\ Inv' /\ [Next]_vars => [Atomic!Next]_Atomic!vars
  BY StepRefines
<1>2. QED
  BY <1>1, InitRefines, Invariance, PTL DEF Spec, RefinesAtomic, Atomic!Spec

-----------------------------------------------------------------------------
(* Calls end, as far as the lock lets them.                                *)

\* The steps that a thread inside Validate has still to take, at most.
StepsLeft(t) == CASE pc[t] = "parse"  -> doc[t].size + 6
                  [] pc[t] = "lock"   -> doc[t].size + 5
                  [] pc[t] = "accept" -> doc[t].size - fed[t] + 4
                  [] pc[t] = "report" -> 3
                  [] pc[t] = "reset"  -> 2
                  [] pc[t] = "unlock" -> 1
                  [] OTHER -> 0

(* Nobody waits for a thread that has nothing more to do: whoever has the  *)
(* lock is on its way to give it back (json_validator.cpp:33-46).          *)
HolderIsInside == mutex # NoThread => mutex \in Threads /\ pc[mutex] \in Critical

(* Each step of a thread inside Validate brings it nearer to the end of    *)
(* its call, and the other threads no further away from theirs             *)
(* (json_validator.cpp:17-47).                                             *)
StepsRunOut ==
    [][\A t \in Threads : Work(t) =>
           /\ StepsLeft(t)' \in Nat /\ StepsLeft(t)' < StepsLeft(t)
           /\ \A u \in Threads \ {t} : StepsLeft(u)' = StepsLeft(u)]_vars

\* The lock goes from nobody to the thread that takes it, and back.
LEMMA InsideKept ==
    ASSUME Inv, HolderIsInside, [Next]_vars
    PROVE  HolderIsInside'
<1>1. pc \in [Threads -> {"idle", "parse", "lock", "done"} \cup Critical] /\ NoThread \notin Threads
  BY DocumentsAssumption DEF Inv, TypeOK
<1>2. ASSUME NEW t \in Threads, ParseError(t) \/ Parsed(t) \/ Return(t)
                                \/ \E d \in Documents : Call(t, d)
      PROVE  HolderIsInside'
  <2>1. pc[t] \notin Critical /\ mutex' = mutex /\ \A u \in Threads \ {t} : pc'[u] = pc[u]
    BY <1>1, <1>2 DEF ParseError, Parsed, Return, Call, Critical
  <2> QED  BY <2>1 DEF HolderIsInside
<1>3. ASSUME NEW t \in Threads, Lock(t) PROVE HolderIsInside'
  BY <1>1, <1>3 DEF Lock, HolderIsInside, Critical
<1>4. ASSUME NEW t \in Threads, FeedAccepted(t) \/ FeedRejected(t) \/ Report(t) \/ Reset(t)
      PROVE  HolderIsInside'
  <2>1. /\ pc'[t] \in Critical /\ mutex' = mutex /\ \A u \in Threads \ {t} : pc'[u] = pc[u]
    BY <1>1, <1>4 DEF FeedAccepted, FeedRejected, Report, Reset, Critical
  <2> QED  BY <2>1 DEF HolderIsInside
<1>5. ASSUME NEW t \in Threads, Unlock(t) PROVE HolderIsInside'
  BY <1>5 DEF Unlock, HolderIsInside
<1>6. CASE UNCHANGED vars
  BY <1>6 DEF vars, HolderIsInside
<1> QED  BY <1>2, <1>3, <1>4, <1>5, <1>6 DEF Next, Work

\* What a thread that does not move has still to do stays what it is.
LEMMA OthersStay ==
    ASSUME NEW u \in Threads, pc'[u] = pc[u], doc'[u] = doc[u], fed'[u] = fed[u]
    PROVE  StepsLeft(u)' = StepsLeft(u)
BY DEF StepsLeft

\* A step of one thread.
LEMMA OneStepLess ==
    ASSUME Inv, NEW t \in Threads, Work(t)
    PROVE  /\ StepsLeft(t)' \in Nat /\ StepsLeft(t)' < StepsLeft(t)
           /\ \A u \in Threads \ {t} : StepsLeft(u)' = StepsLeft(u)
<1>1. /\ pc \in [Threads -> {"idle", "parse", "lock", "done"} \cup Critical]
      /\ doc \in [Threads -> Documents \cup {NoDoc}] /\ fed \in [Threads -> Nat]
      /\ doc' = doc /\ ThreadSound(t)
  BY DEF Inv, TypeOK, Work, ParseError, Parsed, Lock, FeedAccepted, FeedRejected, Report, Reset,
         Unlock
<1>2. \A u \in Threads \ {t} : pc'[u] = pc[u] /\ fed'[u] = fed[u]
  BY <1>1 DEF Work, ParseError, Parsed, Lock, FeedAccepted, FeedRejected, Report, Reset, Unlock
<1>3. \A u \in Threads \ {t} : StepsLeft(u)' = StepsLeft(u)
  BY <1>1, <1>2, OthersStay
<1>4. doc[t] \in Documents /\ doc[t].size \in Nat \ {0} /\ pc[t] # "idle"
  <2>1. pc[t] # "idle"
    BY DEF Work, ParseError, Parsed, Lock, FeedAccepted, FeedRejected, Report, Reset, Unlock
  <2> QED  BY <1>1, <2>1, DocumentsAssumption DEF ThreadSound
<1>5. StepsLeft(t)' \in Nat /\ StepsLeft(t)' < StepsLeft(t)
  <2>1. CASE ParseError(t)
    <3>1. pc[t] = "parse" /\ pc'[t] = "done"
      BY <1>1, <2>1 DEF ParseError
    <3> QED  BY <1>4, <3>1 DEF StepsLeft
  <2>2. CASE Parsed(t)
    <3>1. pc[t] = "parse" /\ pc'[t] = "lock" /\ doc'[t] = doc[t]
      BY <1>1, <2>2 DEF Parsed
    <3> QED  BY <1>4, <3>1 DEF StepsLeft
  <2>3. CASE Lock(t)
    <3>1. pc[t] = "lock" /\ pc'[t] = "accept" /\ doc'[t] = doc[t] /\ fed'[t] = 0
      BY <1>1, <2>3 DEF Lock, ThreadSound
    <3> QED  BY <1>4, <3>1 DEF StepsLeft
  <2>4. CASE FeedAccepted(t)
    <3>1. /\ pc[t] = "accept" /\ fed[t] \in Nat /\ fed[t] < doc[t].size /\ doc'[t] = doc[t]
          /\ fed'[t] = fed[t] + 1
          /\ \/ pc'[t] = "reset"
             \/ pc'[t] = "accept"
      BY <1>1, <2>4 DEF FeedAccepted, ThreadSound
    <3>2. CASE pc'[t] = "reset"
      BY <1>4, <3>1, <3>2 DEF StepsLeft
    <3>3. CASE pc'[t] = "accept"
      BY <1>4, <3>1, <3>3 DEF StepsLeft
    <3> QED  BY <3>1, <3>2, <3>3
  <2>5. CASE FeedRejected(t)
    <3>1. pc[t] = "accept" /\ pc'[t] = "report" /\ fed[t] \in Nat /\ fed[t] < doc[t].size
      BY <1>1, <2>5 DEF FeedRejected, ThreadSound
    <3> QED  BY <1>4, <3>1 DEF StepsLeft
  <2>6. CASE Report(t) \/ Reset(t) \/ Unlock(t)
    <3>1. \/ pc[t] = "report" /\ pc'[t] = "reset"
          \/ pc[t] = "reset" /\ pc'[t] = "unlock"
          \/ pc[t] = "unlock" /\ pc'[t] = "done"
      BY <1>1, <2>6 DEF Report, Reset, Unlock
    <3> QED  BY <3>1 DEF StepsLeft
  <2> QED  BY <2>1, <2>2, <2>3, <2>4, <2>5, <2>6 DEF Work
<1> QED  BY <1>3, <1>5

(* The lock is held only by a thread that is between taking it and giving  *)
(* it back (json_validator.cpp:33-46).                                     *)
THEOREM HolderInside == Spec => []HolderIsInside
<1>1. Init => HolderIsInside
  BY DEF Init, HolderIsInside
<1>2. Inv /\ HolderIsInside /\ [Next]_vars => HolderIsInside'
  BY InsideKept
<1> QED  BY <1>1, <1>2, Invariance, PTL DEF Spec

(* No thread takes more steps in a call than its document has events and   *)
(* six, whatever the others do (json_validator.cpp:17-47).                 *)
THEOREM CallsEnd == Spec => StepsRunOut
<1>1. Inv /\ [Next]_vars =>
        [\A t \in Threads : Work(t) =>
            /\ StepsLeft(t)' \in Nat /\ StepsLeft(t)' < StepsLeft(t)
            /\ \A u \in Threads \ {t} : StepsLeft(u)' = StepsLeft(u)]_vars
  BY OneStepLess
<1> QED  BY <1>1, Invariance, PTL DEF Spec, StepsRunOut

=============================================================================
