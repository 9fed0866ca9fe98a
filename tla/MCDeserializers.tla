-------------------------- MODULE MCDeserializers --------------------------
(***************************************************************************)
(* Every serialisation of a few values in every style, in all              *)
(* surroundings, and every short text over an alphabet that fits the       *)
(* parameter, for one style of each shape.                                 *)
(***************************************************************************)
EXTENDS Deserializers

MCName == <<"n">>
MCKTMap == [k \in {<<"a">>, <<"b">>} |-> IF k = <<"a">> THEN "integer" ELSE "string"]
MCOctet(h, l) == CASE h = "2" /\ l = "0" -> " "
                   [] h = "2" /\ l = "C" -> ","
                   [] OTHER -> "octet"

Param(in, style, explode, type, items) ==
    [in |-> in, style |-> style, explode |-> explode, type |-> type, items |-> items]

Styles(type) ==
    LET object == type = "object"
    IN  {<<"path", s>> : s \in {"simple", "label", "matrix"}}
        \cup {<<"query", "form">>, <<"header", "simple">>}
        \cup (IF type = "array" THEN {<<"query", "spaceDelimited">>, <<"query", "pipeDelimited">>}
              ELSE {})
        \cup (IF object THEN {<<"query", "deepObject">>} ELSE {})

ParamsOf(type, itemTypes) ==
    { Param(s[1], s[2], e, type, i) : s \in Styles(type), e \in BOOLEAN, i \in itemTypes }

\* The styles of the README's tables, and content.
AllParams ==
    ParamsOf("array", {"boolean", "integer", "number", "string"})
    \cup ParamsOf("object", {"none"})
    \cup UNION { ParamsOf(t, {"none"}) : t \in Primitives }
    \cup { Param(in, "simple", FALSE, "content", "none") : in \in {"query", "header"} }

Plains(type) == CASE type = "boolean" -> {<<"true">>, <<"false">>}
                  [] type = "integer" -> {<<"1", "0">>, <<"-", "2">>}
                  [] type = "number" -> {<<"1", ".", "0">>, <<"-", "2">>}
                  [] OTHER -> {<<"x", ",">>, <<>>, <<" ", "y">>}

MCValues ==
    [ p \in Params |->
        CASE p.type = "array" ->
               UNION { [1..n -> {<<<<>>, c>> : c \in Plains(p.items)}] : n \in 1..2 }
               \ {<<<<<<>>, <<>>>>>>, <<<<<<>>, <<>>>>, <<<<>>, <<>>>>>>,
                  <<<<<<>>, <<"x", ",">>>>, <<<<>>, <<>>>>>>, <<<<<<>>, <<" ", "y">>>>, <<<<>>, <<>>>>>>}
          [] p.type = "object" ->
               UNION { {<<<<<<"a">>, i>>>>, <<<<<<"b">>, s>>, <<<<"a">>, i>>>>,
                        <<<<<<"a">>, i>>, <<<<"b">>, s>>>>}
                       : i \in Plains("integer"), s \in Plains("string") }
          [] p.type = "content" -> {}
          [] OTHER -> { <<<<<<>>, c>>>> : c \in Plains(p.type) \ {<<>>} } ]

Range1(before, txt, after) ==
    [buffer |-> before \o txt \o (IF after = NUL THEN <<>> ELSE <<after, "z">>),
     beg |-> Len(before) + 1, end |-> Len(before) + Len(txt) + 1]

\* One style of each shape, for every text.
FewParams ==
    { Param("path", "matrix", FALSE, "number", "none"),
      Param("query", "form", TRUE, "boolean", "none"),
      Param("query", "form", TRUE, "array", "integer"),
      Param("query", "pipeDelimited", FALSE, "array", "string"),
      Param("query", "spaceDelimited", FALSE, "array", "string"),
      Param("path", "label", TRUE, "array", "boolean"),
      Param("path", "simple", TRUE, "object", "none"),
      Param("query", "form", FALSE, "object", "none"),
      Param("query", "deepObject", TRUE, "object", "none"),
      Param("header", "simple", FALSE, "content", "none") }

Alphabet(p) ==
    CASE p.type = "number" -> {"-", "1", "0", "."}
      [] p.type = "boolean" -> {"n", "=", "true", "x"}
      [] p.type = "content" -> {"%", "2", "C", "+", "x"}
      [] p.type = "array" /\ p.items = "string" -> {"x", "%", "2", "0", "|"}
      [] p.type = "array" /\ p.items = "boolean" -> {".", "true", "false"}
      [] p.type = "array" -> {"n", "=", "&", "1", "-"}
      [] p.style = "deepObject" -> {"n[", "a", "b]=", "1", "&"}
      [] p.style = "form" -> {",", "a", "b", "1"}
      [] OTHER -> {"=", ",", "a", "b", "1"}

\* The beginning as it should be, and otherwise.
Beginnings(p) ==
    CASE p.style = "matrix" -> {<<";", "n", "=">>, <<";", "n">>, <<"n", "=">>, <<";">>}
      [] p.type = "array" /\ p.items = "string" -> {<<"n", "=">>, <<"n">>}
      [] p.style = "form" /\ ~p.explode -> {<<"n", "=">>, <<>>}
      [] OTHER -> {<<>>}

Length(p) == IF p.type = "object" THEN 5 ELSE 4

\* Alphabet entries of several characters are spelt out.
Spelt(w) == FlattenSeq([ i \in 1..Len(w) |->
                CASE w[i] = "n[" -> <<"n", "[">> [] w[i] = "b]=" -> <<"b", "]", "=">>
                  [] OTHER -> <<w[i]>> ])

SerialisedRanges(p) ==
    { Range1(<<"/">>, Serialised(p, MCName, v), f) : v \in MCValues[p], f \in Followers(p.in) }

EveryText(p) ==
    { Range1(<<>>, b \o Spelt(w), f) :
         b \in Beginnings(p), f \in Followers(p.in),
         w \in UNION { [1..n -> Alphabet(p)] : n \in 0..Length(p) } }

MCRanges ==
    [ p \in Params |->
        SerialisedRanges(p) \cup (IF p \in FewParams THEN EveryText(p) ELSE {}) ]
=============================================================================
