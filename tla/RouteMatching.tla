---------------------------- MODULE RouteMatching ---------------------------
(***************************************************************************)
(* When a declared path answers a request, without reference to how the    *)
(* code finds it.                                                          *)
(***************************************************************************)
EXTENDS PathTrie

(* A declared path fits a list of fields when they agree field by field,   *)
(* any value standing for a template field.                                *)
Fits(path, fields) ==
    /\ Len(path) = Len(fields)
    /\ \A j \in 1..Len(path) : path[j] = fields[j] \/ path[j] \in Params

(* The request's own fields, or those left once a trailing '/' is dropped. *)
Serves(path, request) == Fits(path, request) \/ Fits(path, Joined(Fragments(request)))

HasPathParam(path) == \E j \in 1..Len(path) : path[j] \in Params

(* q agrees with p up to field j and goes another way there.               *)
Fork(p, q, j) == /\ j <= Len(Fragments(q))
                 /\ SubSeq(q, 1, j - 1) = SubSeq(p, 1, j - 1)
                 /\ q[j] # p[j]

(* No declared path draws a request for p away from it: at a template      *)
(* field of p another path with templates may fork only at the last field  *)
(* of p, and only by a literal that the request does not contain there.    *)
Unambiguous(declared, p, fields) ==
    \A j \in 1..Len(p) : p[j] \in Params =>
        \A q \in declared : HasPathParam(q) /\ Fork(p, q, j) =>
            /\ j = Len(p)
            /\ q[j] \notin Params
            /\ q[j] # fields[j]

(* The declared paths that a request is bound to reach.                    *)
Certain(declared, request) ==
    IF request \in declared
    THEN {request}
    ELSE { p \in declared : /\ HasPathParam(p)
                            /\ p[Len(p)] # ""
                            /\ Fits(p, Fragments(request))
                            /\ Unambiguous(declared, p, Fragments(request)) }

=============================================================================
