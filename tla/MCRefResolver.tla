---------------------------- MODULE MCRefResolver ---------------------------
(***************************************************************************)
(* Documents {"p": .., "a": .., "b": ..}, in either order of "p" and the   *)
(* rest, whose three values are leaves, references, objects and arrays     *)
(* with a reference inside, and references that have other members, with   *)
(* every choice of targets.                                                *)
(***************************************************************************)
EXTENDS RefResolver

\* A value is written as a document of its own.
Node(kind, keys, to) == [kind |-> kind, keys |-> keys, to |-> to]
Leaf == <<>> :> Node("other", <<>>, <<>>)
Pointer(to) == <<>> :> Node("pointer", <<>>, to)
Foreign == <<>> :> Node("text", <<>>, <<>>)

Under(key, v) == [q \in { <<key>> \o p : p \in DOMAIN v } |-> v[Tail(q)]]
Composed(kind, keys, vs) ==
    (<<>> :> Node(kind, keys, <<>>)) @@ FoldLeft(LAMBDA d, n : d @@ Under(keys[n], vs[n]),
                                                 Under(keys[1], vs[1]), [n \in 1..Len(keys) |-> n])
Ref(to) == Composed("object", <<"$ref">>, <<Pointer(to)>>)

Targets == { <<>>, <<"p">>, <<"a">>, <<"b">>, <<"a", "x">>, <<"c">> }

\* A leaf, a reference, and a reference in or beside the member x.
Values ==
    {Leaf, Composed("object", <<"x">>, <<Leaf>>)}
    \cup UNION { { Ref(to), Composed("object", <<"x">>, <<Ref(to)>>) } : to \in Targets }
    \cup { Composed("array", <<"0">>, <<Ref(<<"a">>)>>),
           Composed("object", <<"x", "$ref">>, <<Ref(<<"a">>), Pointer(<<"b">>)>>),
           Composed("object", <<"$ref", "x">>, <<Pointer(<<"b">>), Leaf>>),
           Composed("object", <<"$ref", "x">>, <<Foreign, Ref(<<"b">>)>>) }

MCDocuments == { Composed("object", <<"p", "a", "b">>, <<p, a, b>>) :
                   p \in Values, a \in Values, b \in Values }
               \cup { Composed("object", <<"a", "b", "p">>, <<a, b, p>>) :
                   p \in { Ref(to) : to \in Targets }, a \in Values, b \in Values }

=============================================================================
