------------------------ MODULE AtomicJsonValidator ------------------------
(***************************************************************************)
(* What JsonValidator promises its concurrent callers: every call is       *)
(* answered as if it had the validator to itself, from its own document    *)
(* alone.                                                                  *)
(***************************************************************************)
EXTENDS Naturals

CONSTANTS Threads,   \* the callers of one validator
          Documents, \* what they pass: see JsonValidator
          NoDoc      \* no call in progress

VARIABLES call,  \* call[t]: the document t asks about
          answer \* answer[t]: what it was told

vars == <<call, answer>>

Silent == [kind |-> "none", about |-> {}]

Pending == [result |-> "PENDING", message |-> Silent]

(* The answer that fits a document: the message names no other.            *)
Judge(d) ==
    IF ~d.parses THEN [result |-> "INVALID", message |-> [kind |-> "parser", about |-> {d}]]
    ELSE IF d.bad # 0 THEN [result |-> "INVALID", message |-> [kind |-> "schema", about |-> {d}]]
    ELSE [result |-> "NONE", message |-> Silent]

Init == /\ call = [t \in Threads |-> NoDoc]
        /\ answer = [t \in Threads |-> Pending]

Call(t, d) == /\ call[t] = NoDoc
              /\ call' = [call EXCEPT ![t] = d]
              /\ UNCHANGED answer

Answer(t) == /\ call[t] # NoDoc
             /\ answer[t] = Pending
             /\ answer' = [answer EXCEPT ![t] = Judge(call[t])]
             /\ UNCHANGED call

Return(t) == /\ answer[t] # Pending
             /\ call' = [call EXCEPT ![t] = NoDoc]
             /\ answer' = [answer EXCEPT ![t] = Pending]

Next == \E t \in Threads : Answer(t) \/ Return(t) \/ \E d \in Documents : Call(t, d)

Spec == Init /\ [][Next]_vars
=============================================================================
