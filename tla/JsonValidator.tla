---------------------------- MODULE JsonValidator ---------------------------
(***************************************************************************)
(* JsonValidator::Validate, called by several threads on one object.  The  *)
(* object holds one rapidjson::SchemaValidator, stateful and not thread-   *)
(* safe, under mutex_.  A document is parsed before the lock is taken and  *)
(* then fed to the validator event by event; the validator stops at the    *)
(* first event its schema rejects and, until it is Reset, rejects whatever *)
(* comes next.                                                             *)
(*                                                                         *)
(* Body validators and every parameter validator are JsonValidators.       *)
(***************************************************************************)
EXTENDS Naturals

CONSTANTS Threads,   \* the threads that share the validator
          Documents, \* the JSON texts they validate
          NoDoc,     \* a thread outside Validate
          NoThread   \* mutex_ is free

VARIABLES
    pc,     \* where each thread is in Validate
    doc,    \* its document
    fed,    \* the events of it that Accept has fed
    result, \* its return value, PENDING before it has one
    msg,    \* its error_msg, Silent while untouched
    mutex,  \* the holder of mutex_
    valid,  \* SchemaValidator::valid_
    error,  \* SchemaValidator::error_: the documents it reports on
    open    \* SchemaValidator::schemaStack_: the events of a document begun
            \* and not ended

threadVars    == <<pc, doc, fed, result, msg>>
validatorVars == <<valid, error, open>>
vars == <<threadVars, mutex, validatorVars>>

(* A document parses or does not; the schema events of one that parses are *)
(* numbered 1..size, and the first that the schema rejects is bad, 0 when  *)
(* it accepts them all.                                                    *)
ASSUME DocumentsAssumption ==
    /\ NoThread \notin Threads
    /\ NoDoc \notin Documents
    /\ \A d \in Documents : /\ d.parses \in BOOLEAN
                            /\ d.size \in Nat \ {0}
                            /\ d.bad \in 0..d.size

Silent == [kind |-> "none", about |-> {}]

Init == /\ pc = [t \in Threads |-> "idle"]
        /\ doc = [t \in Threads |-> NoDoc]
        /\ fed = [t \in Threads |-> 0]
        /\ result = [t \in Threads |-> "PENDING"]
        /\ msg = [t \in Threads |-> Silent]
        /\ mutex = NoThread
        /\ valid = TRUE
        /\ error = {}
        /\ open = 0

Go(t, from, to) == pc[t] = from /\ pc' = [pc EXCEPT ![t] = to]

Call(t, d) ==
    /\ Go(t, "idle", "parse")
    /\ doc' = [doc EXCEPT ![t] = d]
    /\ UNCHANGED <<fed, result, msg, mutex, validatorVars>>

-----------------------------------------------------------------------------
(* doc.Parse: the shared validator is not involved.                        *)

ParseError(t) ==
    /\ Go(t, "parse", "done")
    /\ ~doc[t].parses
    /\ result' = [result EXCEPT ![t] = "INVALID"]
    /\ msg' = [msg EXCEPT ![t] = [kind |-> "parser", about |-> {doc[t]}]]
    /\ UNCHANGED <<doc, fed, mutex, validatorVars>>

\* validator_ is set by the constructor and never null.
Parsed(t) ==
    /\ Go(t, "parse", "lock")
    /\ doc[t].parses
    /\ UNCHANGED <<doc, fed, result, msg, mutex, validatorVars>>

\* Mutant: the validator is used without the lock.
LockUnguarded(t) ==
    /\ Go(t, "lock", "accept")
    /\ mutex' = t
    /\ UNCHANGED <<doc, fed, result, msg, validatorVars>>

Lock(t) ==
    /\ mutex = NoThread
    /\ Go(t, "lock", "accept")
    /\ mutex' = t
    /\ UNCHANGED <<doc, fed, result, msg, validatorVars>>

-----------------------------------------------------------------------------
(* doc.Accept feeds validator_ one schema event at a time.                 *)

(* What the validator may say of the next event: no to everything once it  *)
(* is invalid, yes or no to a document begun on another one's stack.       *)
Verdicts(t) ==
    IF ~valid THEN {FALSE}
    ELSE IF open # fed[t] THEN BOOLEAN
    ELSE {fed[t] + 1 # doc[t].bad}

FeedAccepted(t) ==
    /\ pc[t] = "accept"
    /\ TRUE \in Verdicts(t)
    /\ fed' = [fed EXCEPT ![t] = fed[t] + 1]
    /\ IF fed[t] + 1 = doc[t].size
       THEN /\ pc' = [pc EXCEPT ![t] = "reset"]
            /\ result' = [result EXCEPT ![t] = "NONE"]
            /\ open' = 0
       ELSE /\ open' = fed[t] + 1
            /\ UNCHANGED <<pc, result>>
    /\ UNCHANGED <<doc, msg, mutex, valid, error>>

\* Mutant: the lock covers the call of Accept only.
FeedRejectedUnlocked(t) ==
    /\ Go(t, "accept", "report")
    /\ FALSE \in Verdicts(t)
    /\ fed' = [fed EXCEPT ![t] = fed[t] + 1]
    /\ open' = fed[t] + 1
    /\ error' = IF valid THEN error \cup {doc[t]} ELSE error
    /\ valid' = FALSE
    /\ mutex' = NoThread
    /\ UNCHANGED <<doc, result, msg>>

FeedRejected(t) ==
    /\ Go(t, "accept", "report")
    /\ FALSE \in Verdicts(t)
    /\ fed' = [fed EXCEPT ![t] = fed[t] + 1]
    /\ open' = fed[t] + 1
    /\ error' = IF valid THEN error \cup {doc[t]} ELSE error
    /\ valid' = FALSE
    /\ UNCHANGED <<doc, result, msg, mutex>>

-----------------------------------------------------------------------------

\* Mutant: the error path returns as soon as its message is written.
ReportAndLeave(t) ==
    /\ Go(t, "report", "unlock")
    /\ result' = [result EXCEPT ![t] = "INVALID"]
    /\ msg' = [msg EXCEPT ![t] = [kind |-> "schema", about |-> error]]
    /\ UNCHANGED <<doc, fed, mutex, validatorVars>>

\* Mutant: the error path returns with the lock.
ReportAndKeepLock(t) ==
    /\ Go(t, "report", "done")
    /\ result' = [result EXCEPT ![t] = "INVALID"]
    /\ msg' = [msg EXCEPT ![t] = [kind |-> "schema", about |-> error]]
    /\ UNCHANGED <<doc, fed, mutex, validatorVars>>

\* CreateErrorMessages writes what GetError() returns into error_msg.
Report(t) ==
    /\ Go(t, "report", "reset")
    /\ result' = [result EXCEPT ![t] = "INVALID"]
    /\ msg' = [msg EXCEPT ![t] = [kind |-> "schema", about |-> error]]
    /\ UNCHANGED <<doc, fed, mutex, validatorVars>>

\* validator_->Reset(), on both paths.
Reset(t) ==
    /\ Go(t, "reset", "unlock")
    /\ valid' = TRUE
    /\ error' = {}
    /\ open' = 0
    /\ UNCHANGED <<doc, fed, result, msg, mutex>>

\* lock.unlock() on the success path, ~unique_lock on the other.
Unlock(t) ==
    /\ Go(t, "unlock", "done")
    /\ mutex' = NoThread
    /\ UNCHANGED <<doc, fed, result, msg, validatorVars>>

Return(t) ==
    /\ Go(t, "done", "idle")
    /\ doc' = [doc EXCEPT ![t] = NoDoc]
    /\ fed' = [fed EXCEPT ![t] = 0]
    /\ result' = [result EXCEPT ![t] = "PENDING"]
    /\ msg' = [msg EXCEPT ![t] = Silent]
    /\ UNCHANGED <<mutex, validatorVars>>

-----------------------------------------------------------------------------
Work(t) == \/ ParseError(t) \/ Parsed(t) \/ Lock(t)
           \/ FeedAccepted(t) \/ FeedRejected(t)
           \/ Report(t) \/ Reset(t) \/ Unlock(t)

Next == \E t \in Threads : Work(t) \/ Return(t) \/ \E d \in Documents : Call(t, d)

(* A thread inside Validate is scheduled; std::mutex promises no order     *)
(* among the threads that wait for it, so Lock has no more than that.      *)
Spec == Init /\ [][Next]_vars /\ \A t \in Threads : WF_vars(Work(t))

-----------------------------------------------------------------------------
Critical == {"accept", "report", "reset", "unlock"}

TypeOK ==
    /\ pc \in [Threads -> {"idle", "parse", "lock", "done"} \cup Critical]
    /\ doc \in [Threads -> Documents \cup {NoDoc}]
    /\ fed \in [Threads -> Nat]
    /\ result \in [Threads -> {"PENDING", "NONE", "INVALID"}]
    /\ msg \in [Threads -> [kind : {"none", "parser", "schema"}, about : SUBSET Documents]]
    /\ mutex \in Threads \cup {NoThread}
    /\ valid \in BOOLEAN
    /\ error \subseteq Documents
    /\ open \in Nat

(* A thread that has its answer was told about its own document: the       *)
(* verdict is the document's, and an error message is about it alone,      *)
(* whatever the other threads validated meanwhile                          *)
(* (json_validator.cpp:17-47).                                             *)
AnswersOwnDocument ==
    \A t \in Threads : pc[t] = "done" =>
        LET d == doc[t]
            kind == IF ~d.parses THEN "parser" ELSE IF d.bad # 0 THEN "schema" ELSE "none"
        IN  /\ result[t] = IF kind = "none" THEN "NONE" ELSE "INVALID"
            /\ msg[t] = [kind |-> kind, about |-> IF kind = "none" THEN {} ELSE {d}]

(* The lock is never given up with a document's traces in the validator:   *)
(* whoever takes it next finds it as new (json_validator.cpp:35, 44).      *)
FreeValidatorIsClean ==
    mutex = NoThread => valid /\ error = {} /\ open = 0

\* What a thread outside can see: the answer of a call that is over.
VisibleAnswer ==
    [t \in Threads |-> IF pc[t] = "done"
                       THEN [result |-> result[t], message |-> msg[t]]
                       ELSE [result |-> "PENDING", message |-> Silent]]

Atomic == INSTANCE AtomicJsonValidator WITH call <- doc, answer <- VisibleAnswer

(* Every interleaving of calls looks like calls answered one at a time     *)
(* (json_validator.cpp:33-46).                                             *)
RefinesAtomic == Atomic!Spec

(* A thread waits for the lock for ever only if the others take it again   *)
(* and again: every way out of the critical section gives the lock back,   *)
(* and std::mutex is not assumed to be fair.                               *)
WaitsOnlyForOthers ==
    \A t \in Threads :
        <>[](pc[t] = "lock") => []<>(\E u \in Threads \ {t} : pc[u] = "accept")

=============
