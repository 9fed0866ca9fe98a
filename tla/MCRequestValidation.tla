------------------------ MODULE MCRequestValidation -------------------------
(***************************************************************************)
(* RequestValidation with two stores, one with a body and two parameters   *)
(* of each kind, the other with fewer, and requests that combine the       *)
(* outcomes of their parts.                                                *)
(***************************************************************************)
EXTENDS RequestValidation

Full  == [body |-> TRUE, path |-> <<"p1", "p2">>, query |-> <<"q1", "q2">>,
          header |-> {"h1", "h2"}, required |-> {"q2", "h1"}]
Short == [body |-> FALSE, path |-> <<"p1", "p2">>, query |-> <<"q2">>,
          header |-> {}, required |-> {}]

AllStores == {Full, Short}

\* What becomes of each part: all that a query parameter may meet, two
\* outcomes of the others.
Bodies  == {"good", "bad"}
Paths   == { [p1 |-> x, p2 |-> y] : x \in {"good", "bad"}, y \in {"good", "absent"} }
Queries == [{"q1", "q2"} -> {"good", "bad", "absent", "misplaced"}]
Headers == { [h1 |-> x, h2 |-> y] : x \in {"good", "absent"}, y \in {"absent", "bad"} }

Request(method, route, store, body, path, query, header) ==
    [method |-> method, route |-> route, store |-> store,
     body |-> body, path |-> path, query |-> query, header |-> header]

AllGood == Request("good", "own", Full, "good", [p1 |-> "good", p2 |-> "good"],
                   [q1 |-> "good", q2 |-> "good"], [h1 |-> "good", h2 |-> "good"])

AllRequests ==
    { Request("good", route, store, body, path, query, header) :
        route \in {"own", "mapped"}, store \in AllStores, body \in Bodies,
        path \in Paths, query \in Queries, header \in Headers }
    \cup { AllGood, [AllGood EXCEPT !.method = "bad"], [AllGood EXCEPT !.route = "none"] }

=============================================================================
