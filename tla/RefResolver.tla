---------------------------- MODULE RefResolver -----------------------------
(***************************************************************************)
(* ResolveReferences of OASValidatorImp, which replaces the local $refs of *)
(* a parsed document by copies of their targets, in place and while it     *)
(* walks the document: a target may be copied before or after its own      *)
(* references were replaced, and the loop over the members of an object    *)
(* starts over whenever the object was replaced.                           *)
(*                                                                         *)
(* A document is a function from the places of its values to what is       *)
(* there: the kind, for an object or an array the keys in order, and for   *)
(* the string of a "#/..." reference the place it points to.  A place is   *)
(* the sequence of the keys that lead to it.                               *)
(***************************************************************************)
EXTENDS Naturals, SequencesExt

CONSTANTS Documents, \* the documents a program may give
          MaxDepth   \* the calls of ResolveReferences that fit the stack

VARIABLES original, \* the document as parsed
          doc,      \* the document now
          stack,    \* a frame [at, i] per call: its value, the member it is at
          outcome   \* "NONE", or how ResolveReferences ended

vars == <<original, doc, stack, outcome>>

-----------------------------------------------------------------------------
top  == Last(stack)
node == doc[top.at]
AtMember == outcome = "NONE" /\ top.i <= Len(node.keys)
child == Append(top.at, node.keys[top.i])

SetTop(frame) == [stack EXCEPT ![Len(stack)] = frame]
Advance == [top EXCEPT !.i = @ + 1]

\* Mutant: a target is looked for among the members of the document only.
ResolvesShallow(d, to) == Len(to) <= 1 /\ to \in DOMAIN d

(* ResolvePath goes through members of objects only.                       *)
Resolves(d, to) == to \in DOMAIN d /\ \A p \in (Prefixes(to) \ {to}) : d[p].kind = "object"

\* The places at and below one.
Within(d, at) == { p \in DOMAIN d : IsPrefix(at, p) }

(* CopyFrom of the target: the values at and below at go, those at and     *)
(* below from are copied there as they are now.                            *)
Copied(d, at, from) ==
    LET kept == DOMAIN d \ Within(d, at)
        tails == { SubSeq(p, Len(from) + 1, Len(p)) : p \in Within(d, from) }
    IN  [p \in kept \cup { at \o t : t \in tails } |->
            IF p \in kept THEN d[p] ELSE d[from \o SubSeq(p, Len(at) + 1, Len(p))]]

Init ==
    /\ original \in Documents
    /\ doc = original
    /\ stack = << [at |-> <<>>, i |-> 1] >>
    /\ outcome = "NONE"

AtRef(kind) == AtMember /\ node.kind = "object" /\ Last(child) = "$ref" /\ doc[child].kind = kind

\* The target replaces the object; its members are gone through from the
\* first.  The loop takes what replaced the object for an object: of any
\* other value MemberBegin() gives no iterator.
Follow ==
    /\ AtRef("pointer")
    /\ Resolves(doc, doc[child].to)
    /\ doc' = Copied(doc, top.at, doc[child].to)
    /\ IF doc'[top.at].kind = "object"
       THEN stack' = SetTop([top EXCEPT !.i = 1]) /\ UNCHANGED outcome
       ELSE outcome' = "UNDEFINED" /\ UNCHANGED stack
    /\ UNCHANGED original

\* Mutant: a reference without a target is left alone.
IgnoreMissing ==
    /\ AtRef("pointer")
    /\ ~Resolves(doc, doc[child].to)
    /\ stack' = SetTop(Advance)
    /\ UNCHANGED <<original, doc, outcome>>

MissingTarget ==
    /\ AtRef("pointer")
    /\ ~Resolves(doc, doc[child].to)
    /\ outcome' = "ValidatorInitExc"
    /\ UNCHANGED <<original, doc, stack>>

\* A reference into another document is left alone.
SkipForeign ==
    /\ AtRef("text")
    /\ stack' = SetTop(Advance)
    /\ UNCHANGED <<original, doc, outcome>>

Descend ==
    /\ AtMember
    /\ ~AtRef("pointer") /\ ~AtRef("text")
    /\ IF Len(stack) < MaxDepth
       THEN stack' = Append(SetTop(Advance), [at |-> child, i |-> 1]) /\ UNCHANGED outcome
       ELSE outcome' = "OVERFLOW" /\ UNCHANGED stack
    /\ UNCHANGED <<original, doc>>

Leave ==
    /\ outcome = "NONE"
    /\ top.i > Len(node.keys)
    /\ stack' = Front(stack)
    /\ outcome' = IF Len(stack) = 1 THEN "OK" ELSE "NONE"
    /\ UNCHANGED <<original, doc>>

Next == Follow \/ MissingTarget \/ SkipForeign \/ Descend \/ Leave

Spec == Init /\ [][Next]_vars /\ WF_vars(Next)

-----------------------------------------------------------------------------
(* What the references of a document mean.                                 *)

IsRef(q) == /\ original[q].kind = "object"
            /\ Append(q, "$ref") \in DOMAIN original
            /\ original[Append(q, "$ref")].kind = "pointer"
Target(q) == original[Append(q, "$ref")].to

\* The place whose value a reader finds at p who follows every reference
\* on the way.
RECURSIVE Origin(_), End(_)
End(q) == IF IsRef(q) THEN Origin(Target(q)) ELSE q
Origin(p) == IF p = <<>> THEN End(p) ELSE End(Append(Origin(Front(p)), Last(p)))

Members(q) == { Append(q, original[q].keys[a]) : a \in 1..Len(original[q].keys) }
RefTargets(q) == { t \in DOMAIN original : IsRef(q) /\ Target(q) = t }

\* The places that can be got to from some places by steps.
RECURSIVE Reached(_, _)
Reached(steps, from) ==
    LET more == from \cup UNION { steps[q] : q \in from }
    IN  IF more = from THEN from ELSE Reached(steps, more)

\* No value contains itself, by members and references.
Acyclic ==
    LET steps == [q \in DOMAIN original |-> Members(q) \cup RefTargets(q)]
    IN  \A q \in DOMAIN original : q \notin Reached(steps, steps[q])

\* The expansion of the document has no end.
Endless ==
    LET steps == [q \in DOMAIN original |-> IF IsRef(q) THEN RefTargets(q) ELSE Members(q)]
    IN  \E q \in Reached(steps, {<<>>}) : q \in Reached(steps, steps[q])

\* Every reference points to an object, past no other reference.
Sound == /\ Acyclic
         /\ \A q \in DOMAIN original : IsRef(q) =>
              /\ Target(q) \in DOMAIN original
              /\ \A p \in Prefixes(Target(q)) :
                    original[p].kind = "object" /\ (p # Target(q) => ~IsRef(p))

-----------------------------------------------------------------------------
TypeOK ==
    /\ outcome \in {"NONE", "OK", "ValidatorInitExc", "UNDEFINED", "OVERFLOW"}
    /\ \A p \in DOMAIN doc : /\ doc[p].kind \in {"object", "array", "pointer", "text", "other"}
                             /\ \A a \in 1..Len(doc[p].keys) :
                                  Append(p, doc[p].keys[a]) \in DOMAIN doc
    /\ \A f \in 1..Len(stack) : stack[f].at \in DOMAIN doc

(* A document that was resolved is its own expansion: whatever the order   *)
(* in which references and the targets they share were replaced, each      *)
(* place holds what a reader finds there who follows the references in the *)
(* document as it was, and no local reference is left. One whose expansion *)
(* has no end is never taken for resolved: the copies go on until the      *)
(* stack or the memory is used up, or the loop goes round for good         *)
(* (oas_validator_imp.cpp:350-370).                                        *)
ResolvedIsExpansion ==
    outcome = "OK" =>
        /\ ~Endless
        /\ \A p \in DOMAIN doc \ {<<>>} :
              Last(p) = "$ref" /\ doc[Front(p)].kind = "object" => doc[p].kind # "pointer"
        /\ \A p \in DOMAIN doc : doc[p] = original[Origin(p)]

(* A document whose references point to objects, and not in circles, is    *)
(* resolved, and not refused: replacing one reference does not take away   *)
(* the target of another, no value is copied into itself, and the loop,    *)
(* which starts over after each replacement, ends within as many nested    *)
(* calls as the expansion is deep (oas_validator_imp.cpp:350-370).         *)
SoundIsResolvedInTheEnd == Sound ~> outcome = "OK"

=============================================================================
