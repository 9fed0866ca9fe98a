------------------------------ MODULE Pointer -------------------------------
(***************************************************************************)
(* GenericPointer: the tokens of a JSON pointer, by which rapidjson        *)
(* addresses the places of schemas and documents, its two forms as a text, *)
(* and what is done to a value through it. Names and texts are sequences   *)
(* of UTF-8 code units. An index is SizeType, and -1 stands for            *)
(* kPointerInvalidIndex.                                                   *)
(***************************************************************************)
EXTENDS JsonValues, Encodings, Uri

CONSTANT IndexLimit \* one more than the largest SizeType: 2^32

Tilde == 126
Percent == 37
Minus == 45
Digits == 48..57
Token(name, index) == [name |-> name, index |-> index]

-----------------------------------------------------------------------------
(* Parse                                                                   *)

NeedPercentEncode(c) ==
    c \notin Digits \cup (65..90) \cup (97..122) \cup {Minus, Dot, 95, Tilde}

Hex(c) == CASE c \in Digits -> c - 48
            [] c \in 65..70 -> c - 55
            [] c \in 97..102 -> c - 87
            [] OTHER -> -1

\* The byte that the triplet at i stands for; -1 if there is none.
PercentDecoded(source, i) ==
    IF Unit(source, i) # Percent \/ i + 2 > Len(source) THEN -1
    ELSE LET high == Hex(source[i + 1])
             low == Hex(source[i + 2])
         IN  IF high < 0 \/ low < 0 THEN -1 ELSE high * 16 + low

\* The character whose encoding begins at i, as bytes; <<>> if there is none.
PercentDecodedCharacter(source, i) ==
    LET bytes == [k \in 1..4 |-> PercentDecoded(source, i + 3 * (k - 1))]
        v == Validate("UTF8", [k \in 1..4 |-> IF bytes[k] < 0 THEN 0 ELSE bytes[k]])
    IN  IF v.ok /\ \A k \in DOMAIN v.out : bytes[k] >= 0 THEN v.out ELSE <<>>

RECURSIVE NumberOf(_, _)
\* The conversion of digits to SizeType; it notices that a step made n smaller. The
\* largest number is kPointerInvalidIndex itself.
NumberOf(digits, n) ==
    IF digits = <<>> THEN (IF n = IndexLimit - 1 THEN -1 ELSE n)
    ELSE LET m == ((n * 10) + Head(digits) - 48) % IndexLimit
         IN  IF m < n THEN -1 ELSE NumberOf(Tail(digits), m)

TokenOf(name) ==
    Token(name, IF /\ name # <<>> /\ ToSet(name) \subseteq Digits
                   /\ Len(name) > 1 => name[1] # 48
                THEN NumberOf(name, 0) ELSE -1)

\* The name of the token that begins at i: the code units before the next slash,
\* percent-encoded in a fragment, with "~0" and "~1" escaped.
RECURSIVE NameFrom(_, _, _, _)
NameFrom(source, i, fragment, name) ==
    LET encoded == fragment /\ source[i] = Percent
        character == IF encoded THEN PercentDecodedCharacter(source, i) ELSE <<source[i]>>
        next == i + IF encoded THEN 3 * Len(character) ELSE 1
        Stops(error, at) == [error |-> error, at |-> at]
        Goes(to, more) == NameFrom(source, to, fragment, name \o more)
    IN  CASE i > Len(source) \/ (i <= Len(source) /\ source[i] = Slash) ->
               [error |-> "none", at |-> i, name |-> name]
          [] encoded /\ character = <<>> -> Stops("InvalidPercentEncoding", i)
          [] fragment /\ ~encoded /\ NeedPercentEncode(source[i]) ->
               Stops("CharacterMustPercentEncode", i)
          [] character = <<Tilde>> /\ Unit(source, next) = 48 -> Goes(next + 1, <<Tilde>>)
          [] character = <<Tilde>> /\ Unit(source, next) = 49 -> Goes(next + 1, <<Slash>>)
          [] character = <<Tilde>> /\ Unit(source, next) \notin {48, 49} ->
               Stops("InvalidEscape", next)
          [] OTHER -> Goes(next, character)

RECURSIVE TokensFrom(_, _, _, _)
TokensFrom(source, i, fragment, tokens) ==
    LET read == NameFrom(source, i + 1, fragment, <<>>)
    IN  IF i > Len(source) THEN [error |-> "none", at |-> i, tokens |-> tokens]
        ELSE IF read.error # "none" THEN [error |-> read.error, at |-> read.at, tokens |-> <<>>]
        ELSE TokensFrom(source, read.at, fragment, Append(tokens, TokenOf(read.name)))

Parse(source) ==
    LET fragment == Unit(source, 1) = Hash
        first == IF fragment THEN 2 ELSE 1
    IN  IF first <= Len(source) /\ source[first] # Slash
        THEN [error |-> "TokenMustBeginWithSolidus", at |-> first, tokens |-> <<>>]
        ELSE TokensFrom(source, first, fragment, <<>>)

-----------------------------------------------------------------------------
(* Stringify, Append and the comparisons                                   *)

HexDigit(n) == IF n < 10 THEN 48 + n ELSE 55 + n
PercentEncoded(c) == <<Percent, HexDigit(c \div 16), HexDigit(c % 16)>>

\* A name that is not UTF-8 ends a fragment early.
RECURSIVE NameText(_, _)
NameText(name, fragment) ==
    LET c == Head(name)
        v == Validate("UTF8", name)
        rest == SubSeq(name, Len(v.out) + 1, Len(name))
    IN  CASE name = <<>> -> <<>>
          [] name # <<>> /\ c = Tilde -> <<Tilde, 48>> \o NameText(Tail(name), fragment)
          [] name # <<>> /\ c = Slash -> <<Tilde, 49>> \o NameText(Tail(name), fragment)
          [] name # <<>> /\ c # Slash /\ fragment /\ NeedPercentEncode(c) ->
               FlattenSeq([k \in DOMAIN v.out |-> PercentEncoded(v.out[k])])
                 \o NameText(rest, fragment)
          [] OTHER -> <<c>> \o NameText(Tail(name), fragment)

Stringify(tokens, fragment) ==
    (IF fragment THEN <<Hash>> ELSE <<>>)
      \o FlattenSeq([i \in DOMAIN tokens |-> <<Slash>> \o NameText(tokens[i].name, fragment)])

RECURSIVE Decimal(_)
Decimal(n) == IF n < 10 THEN <<48 + n>> ELSE Append(Decimal(n \div 10), 48 + (n % 10))

AppendIndex(tokens, index) == Append(tokens, Token(Decimal(index), index))

Equal(p, q) == Len(p) = Len(q) /\ \A i \in DOMAIN p : p[i] = q[i]

\* The invalid index is the largest.
Key(t) == <<IF t.index = -1 THEN IndexLimit - 1 ELSE t.index, Len(t.name)>> \o t.name
Smallest(S) == CHOOSE i \in S : \A j \in S : i <= j
Less(p, q) ==
    LET different == { i \in DOMAIN p : p[i] # q[i] }
        i == Smallest(different)
        parts == { k \in DOMAIN Key(p[i]) :
                     k \notin DOMAIN Key(q[i]) \/ Key(p[i])[k] # Key(q[i])[k] }
        k == Smallest(parts)
    IN  IF Len(p) # Len(q) THEN Len(p) < Len(q)
        ELSE different # {} /\ Key(p[i])[k] < Key(q[i])[k]

-----------------------------------------------------------------------------
(* Values. A place is the sequence of positions that leads to it from a    *)
(* root, which holds when the root is put together again.                  *)

Child(v, at) == IF v.type = "object" THEN v.members[at][2] ELSE v.items[at]
WithChild(v, at, w) ==
    IF v.type = "object" THEN [v EXCEPT !.members[at][2] = w] ELSE [v EXCEPT !.items[at] = w]

RECURSIVE At(_, _), WithAt(_, _, _)
At(v, place) == IF place = <<>> THEN v ELSE At(Child(v, Head(place)), Tail(place))
WithAt(v, place, w) ==
    IF place = <<>> THEN w
    ELSE WithChild(v, Head(place), WithAt(Child(v, Head(place)), Tail(place), w))

\* The position of the first member of the name; 0 if there is none.
FindMember(v, name) ==
    LET found == { i \in DOMAIN v.members : v.members[i][1] = name }
    IN  IF found = {} THEN 0 ELSE Smallest(found)

Position(v, t) ==
    CASE v.type = "object" -> FindMember(v, t.name)
      [] v.type = "array" -> IF t.index \in 0..(Len(v.items) - 1) THEN t.index + 1 ELSE 0
      [] OTHER -> 0

\* unresolved is the number of tokens before the one that leads nowhere.
RECURSIVE Get(_, _)
Get(v, tokens) ==
    LET at == Position(v, Head(tokens))
        below == Get(Child(v, at), Tail(tokens))
    IN  CASE tokens = <<>> -> [found |-> TRUE, place |-> <<>>]
          [] tokens # <<>> /\ at = 0 -> [found |-> FALSE, unresolved |-> 0]
          [] tokens # <<>> /\ at # 0 /\ below.found ->
               [found |-> TRUE, place |-> <<at>> \o below.place]
          [] OTHER -> [found |-> FALSE, unresolved |-> 1 + below.unresolved]

Nulls(n) == [i \in 1..n |-> Null]

\* The value v becomes so that the token leads somewhere in it, and where to.
Enter(v, t) ==
    LET made == CASE t.index = -1 /\ v.type # "object" -> Object(<<>>)
                  [] t.index # -1 /\ v.type \notin {"array", "object"} -> Array(<<>>)
                  [] OTHER -> v
        at == Position(made, t)
    IN  CASE v.type = "array" /\ t.name = <<Minus>> ->
               [value |-> [v EXCEPT !.items = Append(@, Null)], at |-> Len(v.items) + 1,
                exist |-> FALSE]
          [] made.type = "array" /\ ~(v.type = "array" /\ t.name = <<Minus>>) ->
               [value |-> [made EXCEPT !.items = @ \o Nulls(t.index + 1 - Len(@))],
                at |-> t.index + 1, exist |-> at # 0]
          [] made.type = "object" /\ at = 0 ->
               [value |-> [made EXCEPT !.members = Append(@, <<t.name, Null>>)],
                at |-> Len(made.members) + 1, exist |-> FALSE]
          [] OTHER -> [value |-> made, at |-> at, exist |-> TRUE]

\* Mutant: what exists is decided by the first token.
RECURSIVE CreateSeesFirst(_, _)
CreateSeesFirst(v, tokens) ==
    LET e == Enter(v, Head(tokens))
        below == CreateSeesFirst(Child(e.value, e.at), Tail(tokens))
    IN  IF tokens = <<>> THEN [value |-> v, place |-> <<>>, exist |-> TRUE]
        ELSE [value |-> WithChild(e.value, e.at, below.value),
              place |-> <<e.at>> \o below.place, exist |-> e.exist]

RECURSIVE Create(_, _)
Create(v, tokens) ==
    LET e == Enter(v, Head(tokens))
        below == Create(Child(e.value, e.at), Tail(tokens))
    IN  IF tokens = <<>> THEN [value |-> v, place |-> <<>>, exist |-> TRUE]
        ELSE [value |-> WithChild(e.value, e.at, below.value),
              place |-> <<e.at>> \o below.place, exist |-> e.exist /\ below.exist]

Set(root, tokens, w) == LET c == Create(root, tokens) IN WithAt(c.value, c.place, w)

GetWithDefault(root, tokens, default) ==
    LET c == Create(root, tokens)
    IN  IF c.exist THEN c.value ELSE WithAt(c.value, c.place, default)

Swap(root, tokens, w) ==
    LET c == Create(root, tokens)
    IN  [root |-> WithAt(c.value, c.place, w), value |-> At(c.value, c.place)]

Erase(root, tokens) ==
    LET got == Get(root, tokens)
        parent == At(root, Front(got.place))
        at == Last(got.place)
        rest == IF parent.type = "object" THEN [parent EXCEPT !.members = RemoveAt(@, at)]
                ELSE [parent EXCEPT !.items = RemoveAt(@, at)]
    IN  IF tokens = <<>> \/ ~got.found THEN [ok |-> FALSE, value |-> root]
        ELSE [ok |-> TRUE, value |-> WithAt(root, Front(got.place), rest)]

Id == <<105, 100>>

\* The base that applies to what the pointer leads to: the id of every object on
\* the way is resolved against the one before.
RECURSIVE GetUri(_, _, _)
GetUri(v, tokens, base) ==
    LET id == IF v.type = "object" THEN FindMember(v, Id) ELSE 0
        here == IF id # 0 /\ Child(v, id).type = "string"
                THEN Resolve(ParseUri(Child(v, id).text), base) ELSE base
        at == Position(v, Head(tokens))
    IN  CASE tokens = <<>> -> [found |-> TRUE, uri |-> base]
          [] tokens # <<>> /\ at = 0 -> [found |-> FALSE]
          [] OTHER -> GetUri(Child(v, at), Tail(tokens), here)

-----------------------------------------------------------------------------
(* Any names, written in either form, are read back. A name is an index if *)
(* it is the shortest text of a number below the limit, and that number is *)
(* the one Append gives the name; only a number that has as many digits as *)
(* the limit may wrap around unnoticed (pointer.h:1013-1020). Two pointers *)
(* that are not equal are in one order (pointer.h:291, 358, 384, 924-1052, *)
(* 1063-1095).                                                             *)
PointerIsReadBack(names, others) ==
    LET tokens == [i \in DOMAIN names |-> TokenOf(names[i])]
    IN  /\ \A f \in BOOLEAN : Parse(Stringify(tokens, f)).tokens = tokens
        /\ \A i \in DOMAIN tokens :
             LET t == tokens[i]
             IN  /\ \A n \in 0..(IndexLimit - 2) : t.name = Decimal(n) => t.index = n
                 /\ t.index # -1 /\ Len(t.name) < Len(Decimal(IndexLimit))
                      => AppendIndex(<<>>, t.index) = <<t>>
        /\ LET q == [i \in DOMAIN others |-> TokenOf(others[i])]
           IN  Cardinality({ x \in {<<"=", Equal(tokens, q)>>, <<"<", Less(tokens, q)>>,
                                    <<">", Less(q, tokens)>>} : x[2] }) = 1

(* What is set through a pointer is what the pointer gets, what another    *)
(* pointer got before it still gets unless the one leads to the other or   *)
(* through a value whose type had to change; erasing what was set where    *)
(* nothing was restores the value, and fails exactly where nothing is      *)
(* (pointer.h:452-498, 595-625, 726, 827-868).                             *)
SetIsGotAndErased(root, p, q, w) ==
    LET before == Get(root, p)
        after == Set(root, p, w)
        other == Get(root, q)
        moved == \E i \in 0..(Len(p) - 1) :
                   LET up == Get(root, SubSeq(p, 1, i))
                   IN  /\ up.found /\ IsPrefix(SubSeq(p, 1, i), q)
                       /\ At(root, up.place).type # At(Create(root, p).value, up.place).type
        minus == \E i \in DOMAIN p :
                   LET up == Get(Create(root, p).value, SubSeq(p, 1, i - 1))
                   IN  p[i].name = <<Minus>> /\ up.found
                         /\ At(Create(root, p).value, up.place).type = "array"
        parent == Get(root, Front(p))
    IN  /\ ~minus => At(after, Get(after, p).place) = w
        /\ Create(root, p).exist = before.found
        /\ GetWithDefault(root, p, w) = (IF before.found THEN root ELSE after)
        /\ other.found /\ ~moved /\ ~IsPrefix(p, q) /\ ~IsPrefix(q, p)
             => At(after, Get(after, q).place) = At(root, other.place)
        /\ Erase(root, p).ok = (before.found /\ p # <<>>)
        /\ ~before.found /\ ~minus /\ parent.found
             /\ At(root, parent.place).type = At(after, parent.place).type
             /\ (At(root, parent.place).type = "array"
                   => Last(p).index = Len(At(root, parent.place).items))
             => Erase(after, p).value = root
=============================================================================
