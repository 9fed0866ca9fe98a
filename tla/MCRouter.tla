------------------------------ MODULE MCRouter ------------------------------
(***************************************************************************)
(* Router over small documents.  The paths are chosen to share prefixes in *)
(* every way that matters to the trie: two templates at one node, a        *)
(* template beside a literal, a template under a literal and the reverse.  *)
(***************************************************************************)
EXTENDS Router

MCLiterals == {"", "a", "b", "5"}
MCParams == {"{x}", "{y}"}

\* /a  /a/{x}  /a/{y}/b  /a/b/{x}  /{x}/b  /a/{x}/  /{y}/{x}/b
TriePaths == { <<"", "a">>, <<"", "a", "{x}">>, <<"", "a", "{y}", "b">>,
               <<"", "a", "b", "{x}">>, <<"", "{x}", "b">>, <<"", "a", "{x}", "">>,
               <<"", "{y}", "{x}", "b">> }

RequestsUpTo(fields, k) ==
    { <<"">> \o f : f \in UNION { [1..j -> fields] : j \in 0..k } }

TrieRequests == RequestsUpTo({"", "a", "b", "5", "{x}"}, 3)

ReadmeRequests == RequestsUpTo({"a", "b", "5"}, 3)

MethodPaths == { <<"", "a">>, <<"", "a", "{x}">>, <<"", "{y}", "{x}">> }

MethodRequests == RequestsUpTo({"a", "5"}, 2)

OneMethodMap == [m \in Methods |-> {}]
GetPutHeadMap == [m \in Methods |-> CASE m = "HEAD" -> {"GET", "PUT"}
                                      [] m = "PUT" -> {"GET", "none"}
                                      [] OTHER -> {}]

=============================================================================
