--------------------------- MODULE MCLoadedRouter ---------------------------
(***************************************************************************)
(* Documents to load. Some have up to two paths that share a template, and *)
(* members with and without a body, of one method in both spellings, with  *)
(* no, one or two parameters, good and bad ones; others have up to three   *)
(* paths that share templates and prefixes, with a few members.            *)
(***************************************************************************)
EXTENDS LoadedRouter

MCLiterals == {"", "a"}
MCParams == {"{x}", "{y}"}
MCMethodOf == [key \in {"get", "GET", "put"} |-> IF key = "put" THEN "PUT" ELSE "GET"]

Param(in, name, sound) == [in |-> in, name |-> name, sound |-> sound]

ParamLists == { <<>>,
                <<Param("path", "{x}", TRUE)>>,
                <<Param("header", "q", TRUE), Param("header", "q", TRUE)>>,
                <<Param("query", "q", TRUE), Param("path", "{y}", TRUE)>>,
                <<Param("query", "q", TRUE), Param("query", "q", FALSE)>>,
                <<Param("cookie", "q", TRUE)>> }

Members == [key : DOMAIN MCMethodOf, body : BOOLEAN, params : ParamLists]
           \cup { [key |-> "parameters", body |-> FALSE, params |-> <<>>] }

MemberLists == BoundedSeq(Members, 2)

\* /a/{x}/{y}
XY == <<"", "a", "{x}", "{y}">>

\* Beside a document's second path stands a first one without faults.
FirstMembers == { <<>>,
                  << [key |-> "get", body |-> TRUE, params |-> <<Param("path", "{y}", TRUE)>>],
                     [key |-> "put", body |-> FALSE, params |-> <<Param("query", "q", TRUE)>>] >>,
                  << [key |-> "GET", body |-> FALSE, params |-> <<>>] >> }

ManyMembers ==
    { << [path |-> <<"", "{y}">>, members |-> a], [path |-> XY, members |-> b] >> :
         a \in FirstMembers, b \in MemberLists }
    \cup { << [path |-> <<"", "a", "{x}">>, members |-> b] >> : b \in MemberLists }

-----------------------------------------------------------------------------
\* /a  /a/{x}  /a/{y}/a  /{x}/a
ForkingPaths ==
    { <<"", "a">>, <<"", "a", "{x}">>, <<"", "a", "{y}", "a">>, <<"", "{x}", "a">> }

Member(key, params) == [key |-> key, body |-> key = "put", params |-> params]
Query == << Param("query", "q", TRUE) >>

FewMembers == { <<>>, <<Member("get", <<>>)>>, <<Member("put", Query)>>,
                <<Member("put", <<>>), Member("get", Query)>>,
                <<Member("get", <<>>), Member("parameters", <<>>)>> }

ManyPaths ==
    { d \in BoundedSeq([path : ForkingPaths, members : FewMembers], 3) :
        \A a, b \in 1..Len(d) : d[a].path = d[b].path => a = b }

MCPaths == ForkingPaths \cup { <<"", "{y}">>, XY }
MCDocuments == ManyMembers \cup ManyPaths
=============================================================================
