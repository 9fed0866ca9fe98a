--------------------------- MODULE MCJsonValidator --------------------------
(***************************************************************************)
(* JsonValidator with a few documents: one that does not parse, two that   *)
(* conform and two that the schema rejects, at the first event and later.  *)
(***************************************************************************)
EXTENDS JsonValidator

Garbled    == [id |-> 1, parses |-> FALSE, size |-> 1, bad |-> 0]
Scalar     == [id |-> 2, parses |-> TRUE, size |-> 1, bad |-> 0]
Conforming == [id |-> 3, parses |-> TRUE, size |-> 3, bad |-> 0]
BadAtOnce  == [id |-> 4, parses |-> TRUE, size |-> 2, bad |-> 1]
BadLater   == [id |-> 5, parses |-> TRUE, size |-> 3, bad |-> 2]

AllDocuments == {Garbled, Scalar, Conforming, BadAtOnce, BadLater}

=============================================================================
