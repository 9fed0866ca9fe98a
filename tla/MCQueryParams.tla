---------------------------- MODULE MCQueryParams ---------------------------
(***************************************************************************)
(* QueryParams with the names a, b and ab, one of which begins another and *)
(* ends with a third, and queries of up to three pieces, separated by '&'  *)
(* or by a second '?': parameters, undeclared ones, values that contain a  *)
(* name, names without a value and empty pieces.                           *)
(***************************************************************************)
EXTENDS QueryParams

Param(name, required) == [name |-> name, required |-> required]
A == <<"a">>
B == <<"b">>
AB == <<"a", "b">>

AllStores == { <<Param(A, TRUE)>>,
               <<Param(A, FALSE), Param(B, TRUE)>>,
               <<Param(B, FALSE), Param(A, TRUE)>>,
               <<Param(AB, FALSE), Param(A, FALSE)>>,
               <<Param(B, TRUE), Param(AB, FALSE), Param(A, FALSE)>> }

Pieces == { <<"a", "=", "1">>, <<"b", "=", "1">>, <<"a", "b", "=", "1">>, <<"a", "=">>,
            <<"c", "=", "1">>, <<"c", "=", "a">>, <<"b">>, <<>> }

And(p, q) == p \o <<"&">> \o q
UpToThree == Pieces \cup { And(p, q) : p, q \in Pieces }
                    \cup { And(p, And(q, r)) : p, q, r \in Pieces }

\* A '?' within the query separates parameters as '&' does.
AllQueries == {<<>>} \cup { <<"?">> \o q : q \in UpToThree }
                    \cup { <<"?">> \o p \o <<"?">> \o q : p, q \in Pieces }

=============================================================================
