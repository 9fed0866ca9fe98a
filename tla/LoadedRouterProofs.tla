------------------------- MODULE LoadedRouterProofs -------------------------
(***************************************************************************)
(* Whatever document is loaded: every validator refers to the place it was *)
(* made from, a document is refused for its first fault and for nothing    *)
(* else, one that is taken is served with all of its validators, and what  *)
(* is built is what Router takes loading to build.                         *)
(***************************************************************************)
EXTENDS LoadedRouter, SequenceTheorems, FiniteSetTheorems, WellFoundedInduction, TLAPS

Path == Seq(Labels) \ {<<>>}
Field == STRING \cup {"paths", "parameters", "schema"}
Key == Seq(Field)
Index == { PathParamIndices(p)[name] : p \in Path, name \in Params }
ParamValidatorType == [name : STRING, ref : Seq(Key)]
PathParamValidatorType == [idx : Index, name : STRING, ref : Seq(Key)]
StoreType == [body : Seq(Key), path : Seq(PathParamValidatorType),
              query : Seq(ParamValidatorType), header : Seq(ParamValidatorType)]

Routes == UNION { [ps -> Nat] : ps \in SUBSET Path }

TypeInv ==
    /\ doc \in Documents
    /\ pc \in {"paths", "members", "method", "parameters", "insert", "done"}
    /\ i \in 0..Len(doc) /\ j \in Nat /\ k \in Nat
    /\ ref_keys \in Seq(Key)
    /\ stores \in Seq(StoreType)
    /\ routes \in [Methods -> Routes]

\* Where the loops are: i, j and k are within what they count.
Position ==
    /\ pc \in {"members", "method", "parameters", "insert"} =>
         i \in DOMAIN doc /\ j \in 0..Len(doc[i].members)
    /\ pc \in {"method", "parameters", "insert"} => j \in DOMAIN doc[i].members
    /\ pc \in {"parameters", "insert"} =>
         member.key \in DOMAIN MethodOf /\ path \in DOMAIN routes[method]
    /\ pc = "parameters" => k \in 0..Len(member.params)
    /\ (pc = "done") <=> (outcome # "NONE")

\* The stack of keys is the way to where the loops are.
StackInv ==
    /\ pc = "paths" => ref_keys = << <<"paths">> >>
    /\ pc = "members" => ref_keys = << <<"paths">>, path >>
    /\ pc \in {"method", "insert"} => ref_keys = << <<"paths">>, path, <<member.key>> >>
    /\ pc = "parameters" =>
         ref_keys = << <<"paths">>, path, <<member.key>>, <<"parameters">> >>

\* Every route has a store of its own.
OwnStores ==
    \A m, n \in Methods : \A p \in DOMAIN routes[m], q \in DOMAIN routes[n] :
        /\ routes[m][p] \in DOMAIN stores
        /\ routes[m][p] = routes[n][q] => m = n /\ p = q

RefsInv == TypeInv /\ Position /\ StackInv /\ OwnStores /\ RefsNameTheirPlace

-----------------------------------------------------------------------------
\* A document and what it is made of have the shapes they should.
LEMMA DocumentType ==
    ASSUME NEW d \in Documents, NEW a \in DOMAIN d
    PROVE  /\ Len(d) \in Nat /\ DOMAIN d = 1..Len(d)
           /\ d[a].path \in Path /\ d[a].path \in Key
           /\ d[a].members \in Seq(MemberObject)
           /\ Len(d[a].members) \in Nat /\ DOMAIN d[a].members = 1..Len(d[a].members)
           /\ \A b \in DOMAIN d[a].members :
                LET mb == d[a].members[b]
                IN  /\ mb \in MemberObject /\ mb.key \in STRING /\ mb.body \in BOOLEAN
                    /\ mb.params \in Seq(ParameterObject)
                    /\ Len(mb.params) \in Nat /\ DOMAIN mb.params = 1..Len(mb.params)
                    /\ \A c \in DOMAIN mb.params :
                         mb.params[c].in \in STRING /\ mb.params[c].name \in STRING
                         /\ mb.params[c].sound \in BOOLEAN
<1>1. d \in Seq(PathObject)
  BY DocumentsAssumption
<1>2. Len(d) \in Nat /\ DOMAIN d = 1..Len(d)
  BY <1>1, LenProperties
<1>3. d[a] \in PathObject
  BY <1>1, <1>2, ElementOfSeq
<1>4. /\ d[a].path \in Path
      /\ d[a].members \in Seq(MemberObject)
  BY <1>3 DEF PathObject, Path
<1>5. d[a].path \in Key
  <2>1. d[a].path \in Seq(Labels)
    BY <1>4 DEF Path
  <2>2. \A n \in 1..Len(d[a].path) : d[a].path[n] \in Field
    <3>1. \A n \in 1..Len(d[a].path) : d[a].path[n] \in Labels
      BY <2>1, ElementOfSeq
    <3> QED  BY <3>1, DocumentsAssumption, Zenon DEF Field
  <2> QED  BY <2>1, <2>2 DEF Key
<1>6. Len(d[a].members) \in Nat /\ DOMAIN d[a].members = 1..Len(d[a].members)
  BY <1>4, LenProperties
<1>7. ASSUME NEW b \in DOMAIN d[a].members
      PROVE  LET mb == d[a].members[b]
             IN  /\ mb \in MemberObject /\ mb.key \in STRING /\ mb.body \in BOOLEAN
                 /\ mb.params \in Seq(ParameterObject)
                 /\ Len(mb.params) \in Nat /\ DOMAIN mb.params = 1..Len(mb.params)
                 /\ \A c \in DOMAIN mb.params :
                      mb.params[c].in \in STRING /\ mb.params[c].name \in STRING
                      /\ mb.params[c].sound \in BOOLEAN
  <2> DEFINE mb == d[a].members[b]
  <2>1. mb \in MemberObject
    BY <1>4, <1>6, ElementOfSeq
  <2>2. mb.key \in STRING /\ mb.body \in BOOLEAN /\ mb.params \in Seq(ParameterObject)
    BY <2>1 DEF MemberObject
  <2>3. Len(mb.params) \in Nat /\ DOMAIN mb.params = 1..Len(mb.params)
    BY <2>2, LenProperties
  <2>4. \A c \in DOMAIN mb.params : mb.params[c] \in ParameterObject
    BY <2>2, <2>3, ElementOfSeq
  <2>5. \A c \in DOMAIN mb.params :
            mb.params[c].in \in STRING /\ mb.params[c].name \in STRING
            /\ mb.params[c].sound \in BOOLEAN
    BY <2>4 DEF ParameterObject
  <2> HIDE DEF mb
  <2> QED  BY <2>1, <2>2, <2>3, <2>5 DEF mb
<1> QED  BY <1>2, <1>4, <1>5, <1>6, <1>7

\* A sequence that is another one and an element more.
LEMMA AppendIs ==
    ASSUME NEW S, NEW s \in Seq(S), NEW e \in S, NEW t \in Seq(S), Len(t) = Len(s) + 1,
           t[Len(s) + 1] = e, \A n \in 1..Len(s) : t[n] = s[n]
    PROVE  Append(s, e) = t
<1> DEFINE u == Append(s, e)
<1>1. Len(s) \in Nat
  BY LenProperties
<1>2. \A n \in 1..Len(s) : u[n] = s[n]
  OBVIOUS
<1>3. Len(u) = Len(s) + 1 /\ u[Len(s) + 1] = e /\ u \in Seq(S)
  OBVIOUS
<1> HIDE DEF u
<1>4. Len(t) = Len(u) /\ \A n \in 1..Len(t) : u[n] = t[n]
  BY <1>1, <1>2, <1>3
<1> QED  BY <1>3, <1>4, SeqEqual DEF u

\* A sequence without its last element.
LEMMA PopIs ==
    ASSUME NEW S, NEW s \in Seq(S), NEW t \in Seq(S), Len(s) > 0, Len(t) = Len(s) - 1,
           \A n \in 1..Len(t) : t[n] = s[n]
    PROVE  SubSeq(s, 1, Len(s) - 1) = t
<1> DEFINE u == SubSeq(s, 1, Len(s) - 1)
<1>1. Len(s) \in Nat
  BY LenProperties
<1>2. u \in Seq(S) /\ Len(u) = Len(s) - 1 /\ \A n \in 1..(Len(s) - 1) : u[n] = s[n]
  BY <1>1
<1> HIDE DEF u
<1>3. Len(t) = Len(u) /\ \A n \in 1..Len(t) : u[n] = t[n]
  BY <1>1, <1>2
<1> QED  BY <1>2, <1>3, SeqEqual DEF u

\* What a sequence of one element is.
LEMMA Singleton ==
    ASSUME NEW S, NEW e \in S
    PROVE  <<e>> \in Seq(S)
  OBVIOUS

\* A key of a document on its own.
LEMMA OneKey == \A key \in STRING \cup Field : <<key>> \in Key
<1>0. STRING \subseteq Field
  BY DEF Field
<1>1. \A S : \A e \in S : <<e>> \in Seq(S)
  BY Singleton, Zenon
<1> QED  BY <1>0, <1>1, Zenon DEF Key

\* A stack of one key.
LEMMA OneStack == \A a \in Key : <<a>> \in Seq(Key)
<1>1. \A S : \A e \in S : <<e>> \in Seq(S)
  BY Singleton, Zenon
<1> QED  BY <1>1, Zenon

\* A key on top of the stack s gives t, and popping it leaves s.
Pushed(s, key, t) == /\ t \in Seq(Key)
                     /\ Append(s, key) = t
                     /\ SubSeq(t, 1, Len(t) - 1) = s

(* The stacks of keys the loops go through: what a key on top of each      *)
(* gives, and that popping it leaves what was there.                       *)
LEMMA TwoKeys ==
    ASSUME NEW a \in Key, NEW b \in Key
    PROVE  Pushed(<<a>>, b, <<a, b>>)
<1> DEFINE s == <<a>>
           t == <<a, b>>
<1>1. /\ s \in Seq(Key) /\ Len(s) = 1
      /\ s[1] = a
  OBVIOUS
<1>2. /\ t \in Seq(Key) /\ Len(t) = 2
      /\ t[1] = a /\ t[2] = b
  OBVIOUS
<1> HIDE DEF s, t
<1>3. \A n \in 1..Len(s) : t[n] = s[n]
  BY <1>1, <1>2
<1>4. Len(t) = Len(s) + 1 /\ t[Len(s) + 1] = b /\ Len(t) > 0 /\ Len(s) = Len(t) - 1
  BY <1>1, <1>2
<1>5. Append(s, b) = t
  BY <1>1, <1>2, <1>3, <1>4, AppendIs
<1>6. SubSeq(t, 1, Len(t) - 1) = s
  BY <1>1, <1>2, <1>3, <1>4, PopIs
<1> QED  BY <1>2, <1>5, <1>6, Zenon DEF s, t, Pushed

\* The same for a key on a stack of two: a method on its path.
LEMMA ThreeKeys ==
    ASSUME NEW a \in Key, NEW b \in Key, NEW c \in Key
    PROVE  Pushed(<<a, b>>, c, <<a, b, c>>)
<1> DEFINE s == <<a, b>>
           t == <<a, b, c>>
<1>1. /\ s \in Seq(Key) /\ Len(s) = 2
      /\ s[1] = a /\ s[2] = b
  OBVIOUS
<1>2. /\ t \in Seq(Key) /\ Len(t) = 3
      /\ t[1] = a /\ t[2] = b /\ t[3] = c
  OBVIOUS
<1> HIDE DEF s, t
<1>3. \A n \in 1..Len(s) : t[n] = s[n]
  BY <1>1, <1>2
<1>4. Len(t) = Len(s) + 1 /\ t[Len(s) + 1] = c /\ Len(t) > 0 /\ Len(s) = Len(t) - 1
  BY <1>1, <1>2
<1>5. Append(s, c) = t
  BY <1>1, <1>2, <1>3, <1>4, AppendIs
<1>6. SubSeq(t, 1, Len(t) - 1) = s
  BY <1>1, <1>2, <1>3, <1>4, PopIs
<1> QED  BY <1>2, <1>5, <1>6, Zenon DEF s, t, Pushed

\* The same for a key on a stack of three: "parameters" or "schema" on its method.
LEMMA FourKeys ==
    ASSUME NEW a \in Key, NEW b \in Key, NEW c \in Key, NEW d \in Key
    PROVE  Pushed(<<a, b, c>>, d, <<a, b, c, d>>)
<1> DEFINE s == <<a, b, c>>
           t == <<a, b, c, d>>
<1>1. /\ s \in Seq(Key) /\ Len(s) = 3
      /\ s[1] = a /\ s[2] = b /\ s[3] = c
  OBVIOUS
<1>2. /\ t \in Seq(Key) /\ Len(t) = 4
      /\ t[1] = a /\ t[2] = b /\ t[3] = c /\ t[4] = d
  OBVIOUS
<1> HIDE DEF s, t
<1>3. \A n \in 1..Len(s) : t[n] = s[n]
  BY <1>1, <1>2
<1>4. Len(t) = Len(s) + 1 /\ t[Len(s) + 1] = d /\ Len(t) > 0 /\ Len(s) = Len(t) - 1
  BY <1>1, <1>2
<1>5. Append(s, d) = t
  BY <1>1, <1>2, <1>3, <1>4, AppendIs
<1>6. SubSeq(t, 1, Len(t) - 1) = s
  BY <1>1, <1>2, <1>3, <1>4, PopIs
<1> QED  BY <1>2, <1>5, <1>6, Zenon DEF s, t, Pushed

\* The same for a key on a stack of four: the name of a parameter.
LEMMA FiveKeys ==
    ASSUME NEW a \in Key, NEW b \in Key, NEW c \in Key, NEW d \in Key, NEW e \in Key
    PROVE  Pushed(<<a, b, c, d>>, e, <<a, b, c, d, e>>)
<1> DEFINE s == <<a, b, c, d>>
           t == <<a, b, c, d, e>>
<1>1. /\ s \in Seq(Key) /\ Len(s) = 4
      /\ s[1] = a /\ s[2] = b /\ s[3] = c /\ s[4] = d
  OBVIOUS
<1>2. /\ t \in Seq(Key) /\ Len(t) = 5
      /\ t[1] = a /\ t[2] = b /\ t[3] = c /\ t[4] = d /\ t[5] = e
  OBVIOUS
<1> HIDE DEF s, t
<1>3. \A n \in 1..Len(s) : t[n] = s[n]
  BY <1>1, <1>2
<1>4. Len(t) = Len(s) + 1 /\ t[Len(s) + 1] = e /\ Len(t) > 0 /\ Len(s) = Len(t) - 1
  BY <1>1, <1>2
<1>5. Append(s, e) = t
  BY <1>1, <1>2, <1>3, <1>4, AppendIs
<1>6. SubSeq(t, 1, Len(t) - 1) = s
  BY <1>1, <1>2, <1>3, <1>4, PopIs
<1> QED  BY <1>2, <1>5, <1>6, Zenon DEF s, t, Pushed

\* What is up to l is l or up to the number before.
LEMMA LastOrBefore ==
    ASSUME NEW l \in Nat
    PROVE  \A n \in 1..l : n \in 1..(l - 1) \/ n = l
  OBVIOUS

\* The fragments of a path are its fields, without an empty last one.
LEMMA FragmentsOf ==
    ASSUME NEW p \in Path
    PROVE  LET f == Fragments(p)
           IN  /\ DOMAIN p = 1..Len(p) /\ Len(f) \in Nat
               /\ \A n \in 1..Len(f) : n \in 1..Len(p) /\ f[n] = p[n]
               /\ \A n \in 1..Len(p) : n \in 1..Len(f) \/ p[n] = ""
<1> DEFINE f == Fragments(p)
<1>0. DOMAIN p = 1..Len(p)
  BY LenProperties DEF Path
<1>1. p \in Seq(Labels) /\ Len(p) \in Nat /\ Len(p) > 0
  BY EmptySeq, LenProperties DEF Path
<1>2. ASSUME p[Len(p)] = ""
      PROVE  Len(f) = Len(p) - 1 /\ \A n \in 1..(Len(p) - 1) : f[n] = p[n]
  <2> DEFINE l == Len(p) - 1
  <2>1. f = SubSeq(p, 1, l)
    BY <1>2 DEF Fragments
  <2>2. \A n \in 1..l : p[n] \in Labels
    BY <1>1
  <2>3. l \in Nat
    BY <1>1
  <2>4. Len(f) = (IF 1 <= l THEN l - 1 + 1 ELSE 0) /\ \A n \in 1..(l - 1 + 1) : f[n] = p[1 + n - 1]
    <3> HIDE DEF l, f
    <3> QED  BY <1>1, <2>1, <2>2, <2>3, SubSeqProperties
  <2> HIDE DEF l, f
  <2>5. Len(f) = l /\ \A n \in 1..l : f[n] = p[n]
    BY <2>3, <2>4
  <2> QED  BY <2>5 DEF l
<1>3. ASSUME p[Len(p)] # ""
      PROVE  f = p
  BY <1>3 DEF Fragments
<1> HIDE DEF f
<1>4. \A n \in 1..Len(f) : n \in 1..Len(p) /\ f[n] = p[n]
  <2>1. \A n \in 1..(Len(p) - 1) : n \in 1..Len(p)
    BY <1>1
  <2> QED  BY <1>2, <1>3, <2>1, Zenon
<1>5. \A n \in 1..Len(p) : n \in 1..Len(f) \/ p[n] = ""
  BY <1>1, <1>2, <1>3, LastOrBefore, Zenon
<1>6. Len(f) \in Nat
  <2>1. Len(p) - 1 \in Nat
    BY <1>1
  <2>2. CASE p[Len(p)] = ""
    BY <1>2, <2>1, <2>2, Zenon
  <2>3. CASE p[Len(p)] # ""
    BY <1>1, <1>3, <2>3, Zenon
  <2> QED  BY <2>2, <2>3, Zenon
<1> QED  BY <1>0, <1>4, <1>5, <1>6 DEF f

(* The names GetPathParamIndices has an index for are the templates of the *)
(* path (path_trie.cpp and validators_store.cpp:129-147).                  *)
LEMMA IndexedNames ==
    ASSUME NEW p \in Path
    PROVE  DOMAIN PathParamIndices(p) = ToSet(p) \cap Params
<1> DEFINE f == Fragments(p)
<1>1. /\ \A n \in 1..Len(f) : n \in 1..Len(p) /\ f[n] = p[n]
      /\ \A n \in 1..Len(p) : n \in 1..Len(f) \/ p[n] = ""
  BY FragmentsOf
<1>2. "" \notin Params
  BY LabelsAssumption
<1>3. DOMAIN PathParamIndices(p) = { f[n] : n \in {l \in 1..Len(f) : f[l] \in Params} }
  BY DEF PathParamIndices
<1>4. ToSet(p) = { p[n] : n \in 1..Len(p) }
  BY FragmentsOf DEF ToSet
<1> HIDE DEF f
<1> QED  BY <1>1, <1>2, <1>3, <1>4

\* The least of some numbers.
LEMMA LeastOf == \A S \in SUBSET Nat : S # {} => \E n \in S : \A m \in S : n <= m
<1> SUFFICES ASSUME NEW S \in SUBSET Nat, S # {}
             PROVE  \E n \in S : \A m \in S : n <= m
  OBVIOUS
<1>1. PICK n \in S : \A m \in S : ~ (<<m, n>> \in OpToRel(<, Nat))
  BY NatLessThanWellFounded, WFMin
<1>2. \A k1, m \in Nat : k1 < m => <<k1, m>> \in OpToRel(<, Nat)
  BY Zenon DEF OpToRel
<1>3. n \in Nat /\ \A m \in S : m \in Nat /\ ~ (m < n)
  BY <1>1, <1>2, Zenon
<1>4. \A m \in S : n <= m
  BY <1>3
<1> QED  BY <1>4

(* The index of a template is that of a fragment with its name             *)
(* (path_trie.cpp and validators_store.cpp:129-147).                       *)
LEMMA IndexIsPlace ==
    ASSUME NEW p \in Path, NEW name \in DOMAIN PathParamIndices(p)
    PROVE  p[PathParamIndices(p)[name] + 1] = name
<1> DEFINE f == Fragments(p)
           First(n) == f[n] = name /\ \A n1 \in 1..(n - 1) : f[n1] # name
           n0 == CHOOSE n \in 1..Len(f) : First(n)
<1>1. Len(f) \in Nat /\ \A n \in 1..Len(f) : n \in 1..Len(p) /\ f[n] = p[n]
  BY FragmentsOf
<1>2. name \in { f[n] : n \in {l \in 1..Len(f) : f[l] \in Params} }
  BY DEF PathParamIndices
<1>3. PathParamIndices(p)[name] = n0 - 1
  BY <1>2 DEF PathParamIndices
<1> HIDE DEF f
<1>4. \E n \in 1..Len(f) : First(n)
  <2> DEFINE S == {n \in 1..Len(f) : f[n] = name}
  <2>1. S \in SUBSET Nat /\ S # {}
    BY <1>1, <1>2
  <2>2. PICK n \in S : \A m \in S : n <= m
    BY <2>1, LeastOf
  <2>3. \A n1 \in 1..(n - 1) : n1 \in 1..Len(f) /\ ~(n <= n1)
    BY <1>1, <2>1, <2>2
  <2> QED  BY <2>2, <2>3
<1>5. n0 \in 1..Len(f) /\ First(n0)
  BY <1>4
<1> HIDE DEF n0
<1>6. n0 - 1 + 1 = n0
  BY <1>1, <1>5
<1>7. f[n0] = name /\ f[n0] = p[n0]
  BY <1>1, <1>5
<1> QED  BY <1>3, <1>6, <1>7

-----------------------------------------------------------------------------
\* What the stack is, and what a push and a pop make of it.
LEMMA StackSteps ==
    ASSUME RefsInv, NEW x \in Key
    PROVE  /\ pc = "paths" => Push(x) = << <<"paths">>, x >> /\ Push(x) \in Seq(Key)
           /\ pc = "members" =>
                /\ Push(x) = << <<"paths">>, path, x >> /\ Push(x) \in Seq(Key)
                /\ Pop = << <<"paths">> >> /\ Pop \in Seq(Key)
           /\ pc \in {"method", "insert"} =>
                /\ Push(x) = << <<"paths">>, path, <<member.key>>, x >> /\ Push(x) \in Seq(Key)
                /\ Pop = << <<"paths">>, path >> /\ Pop \in Seq(Key)
           /\ pc = "parameters" =>
                /\ Push(x) = << <<"paths">>, path, <<member.key>>, <<"parameters">>, x >>
                /\ Push(x) \in Seq(Key)
                /\ Pop = << <<"paths">>, path, <<member.key>> >> /\ Pop \in Seq(Key)
<1> DEFINE a == <<"paths">>
           d == <<"parameters">>
<1>1. a \in Key /\ d \in Key
  <2>1. "paths" \in Field /\ "parameters" \in Field
    BY DEF Field
  <2> QED  BY <2>1, OneKey, Zenon
<1>2. pc \in {"members", "method", "parameters", "insert"} => path \in Key
  BY DocumentType DEF RefsInv, TypeInv, Position, path
<1>3. pc \in {"method", "parameters", "insert"} => <<member.key>> \in Key
  <2> SUFFICES ASSUME pc \in {"method", "parameters", "insert"}
               PROVE  <<member.key>> \in Key
    OBVIOUS
  <2>1. member.key \in STRING
    BY DocumentType DEF RefsInv, TypeInv, Position, member
  <2> QED  BY <2>1, OneKey, Zenon
<1> HIDE DEF a, d
<1>4. ASSUME pc = "paths"
      PROVE  Push(x) = << a, x >> /\ Push(x) \in Seq(Key)
  <2>1. ref_keys = <<a>>
    BY <1>4 DEF RefsInv, StackInv, a
  <2>2. Pushed(<<a>>, x, <<a, x>>)
    BY <1>1, TwoKeys, Zenon
  <2> QED  BY <2>1, <2>2, Zenon DEF Push, Pushed
<1>5. ASSUME pc = "members"
      PROVE  /\ Push(x) = << a, path, x >> /\ Push(x) \in Seq(Key)
             /\ Pop = <<a>> /\ Pop \in Seq(Key)
  <2>1. ref_keys = << a, path >> /\ path \in Key
    BY <1>2, <1>5 DEF RefsInv, StackInv, a
  <2>2. Pushed(<<a, path>>, x, <<a, path, x>>) /\ Pushed(<<a>>, path, <<a, path>>)
    BY <1>1, <2>1, TwoKeys, ThreeKeys, Zenon
  <2>3. <<a>> \in Seq(Key)
    BY <1>1, OneStack, Zenon
  <2> QED  BY <2>1, <2>2, <2>3, Zenon DEF Push, Pop, Pushed
<1>6. ASSUME pc \in {"method", "insert"}
      PROVE  /\ Push(x) = << a, path, <<member.key>>, x >> /\ Push(x) \in Seq(Key)
             /\ Pop = << a, path >> /\ Pop \in Seq(Key)
  <2> DEFINE c == <<member.key>>
  <2>1. ref_keys = << a, path, c >> /\ path \in Key /\ c \in Key
    BY <1>2, <1>3, <1>6 DEF RefsInv, StackInv, a
  <2> HIDE DEF c
  <2>2. Pushed(<<a, path, c>>, x, <<a, path, c, x>>)
    BY <1>1, <2>1, FourKeys, Zenon
  <2>3. Pushed(<<a, path>>, c, <<a, path, c>>) /\ Pushed(<<a>>, path, <<a, path>>)
    BY <1>1, <2>1, TwoKeys, ThreeKeys, Zenon
  <2>4. /\ Push(x) = << a, path, c, x >> /\ Push(x) \in Seq(Key)
        /\ Pop = << a, path >> /\ Pop \in Seq(Key)
    BY <2>1, <2>2, <2>3, Zenon DEF Push, Pop, Pushed
  <2> QED  BY <2>4, Zenon DEF c
<1>7. ASSUME pc = "parameters"
      PROVE  /\ Push(x) = << a, path, <<member.key>>, d, x >> /\ Push(x) \in Seq(Key)
             /\ Pop = << a, path, <<member.key>> >> /\ Pop \in Seq(Key)
  <2> DEFINE c == <<member.key>>
  <2>1. ref_keys = << a, path, c, d >> /\ path \in Key /\ c \in Key
    BY <1>2, <1>3, <1>7 DEF RefsInv, StackInv, a, d
  <2> HIDE DEF c
  <2>2. Pushed(<<a, path, c, d>>, x, <<a, path, c, d, x>>)
    BY <1>1, <2>1, FiveKeys, Zenon
  <2>3. Pushed(<<a, path, c>>, d, <<a, path, c, d>>) /\ Pushed(<<a, path>>, c, <<a, path, c>>)
    BY <1>1, <2>1, ThreeKeys, FourKeys, Zenon
  <2>4. /\ Push(x) = << a, path, c, d, x >> /\ Push(x) \in Seq(Key)
        /\ Pop = << a, path, c >> /\ Pop \in Seq(Key)
    BY <2>1, <2>2, <2>3, Zenon DEF Push, Pop, Pushed
  <2> QED  BY <2>4, Zenon DEF c
<1> QED  BY <1>4, <1>5, <1>6, <1>7, Zenon DEF a, d

\* What the references should be is up to the document.
LEMMA SamePlaces ==
    ASSUME UNCHANGED doc
    PROVE  /\ \A m, p, ref : BodyRefIsRight(m, p, ref)' <=> BodyRefIsRight(m, p, ref)
           /\ \A m, p, in, v : ParamRefIsRight(m, p, in, v)' <=> ParamRefIsRight(m, p, in, v)
<1>1. \A p, key : MembersAt(p, key)' = MembersAt(p, key)
  BY DEF MembersAt
<1> QED  BY <1>1, Zenon DEF BodyRefIsRight, ParamRefIsRight

\* The references are right as long as what was built stays.
LEMMA SameBuilt ==
    ASSUME RefsInv, UNCHANGED <<doc, stores, routes>>
    PROVE  OwnStores' /\ RefsNameTheirPlace'
<1>1. UNCHANGED <<doc, stores, routes>>
  OBVIOUS
<1>2. OwnStores'
  BY <1>1 DEF RefsInv, OwnStores
<1>3. /\ \A m, p, ref : BodyRefIsRight(m, p, ref)' <=> BodyRefIsRight(m, p, ref)
      /\ \A m, p, in, v : ParamRefIsRight(m, p, in, v)' <=> ParamRefIsRight(m, p, in, v)
  BY <1>1, SamePlaces
<1>4. RefsNameTheirPlace
  BY DEF RefsInv
<1>5. RefsNameTheirPlace'
  BY <1>1, <1>3, <1>4, Zenon DEF RefsNameTheirPlace
<1> QED  BY <1>2, <1>5

(* Before ProcessPath is called nothing is built and ref_keys is empty       *)
(* (oas_validator_imp.cpp:25-27).                                           *)
THEOREM RefsInitInv == Init => RefsInv
<1> SUFFICES ASSUME Init
             PROVE  RefsInv
  OBVIOUS
<1>1. \A d \in Documents : Len(d) \in Nat
  BY DocumentsAssumption, LenProperties
<1>2. ref_keys \in Seq(Key)
  <2>1. "paths" \in Field
    BY DEF Field
  <2>2. <<"paths">> \in Key
    BY <2>1, OneKey, Zenon
  <2>3. << <<"paths">> >> \in Seq(Key)
    BY <2>2, OneStack, Zenon
  <2> QED  BY <2>3, Zenon DEF Init
<1>3. \A m \in Methods : DOMAIN routes[m] = {} /\ routes[m] \in Routes
  <2>1. [p \in {} |-> 0] \in [{} -> Nat] /\ {} \in SUBSET Path
    OBVIOUS
  <2>2. [p \in {} |-> 0] \in Routes
    BY <2>1, Zenon DEF Routes
  <2>3. routes = [m \in Methods |-> [p \in {} |-> 0]]
    BY DEF Init
  <2> HIDE DEF Routes
  <2> QED  BY <2>2, <2>3
<1>4. routes \in [Methods -> Routes]
  BY <1>3 DEF Init
<1>5. \A S : <<>> \in Seq(S)
  BY EmptySeq, Zenon
<1>6. TypeInv
  <2>1. stores \in Seq(StoreType)
    BY <1>5, Zenon DEF Init
  <2>2. doc \in Documents /\ pc = "paths" /\ i = 0 /\ j = 0 /\ k = 0
    BY DEF Init
  <2>3. 0 \in 0..Len(doc)
    BY <1>1, <2>2
  <2> QED  BY <1>2, <1>4, <2>1, <2>2, <2>3 DEF TypeInv
<1>7. Position /\ StackInv
  BY DEF Init, Position, StackInv
<1>8. OwnStores /\ RefsNameTheirPlace
  BY <1>3, Zenon DEF OwnStores, RefsNameTheirPlace
<1> QED  BY <1>6, <1>7, <1>8 DEF RefsInv

\* Counting on, of numbers that stay within a range.
LEMMA CountOn ==
    \A n, l \in Nat : n < l => n + 1 \in 1..l /\ n + 1 \in 0..l /\ n + 1 \in Nat
  OBVIOUS

(* Coming to a path pushes its key (oas_validator_imp.cpp:285-291).         *)
LEMMA EnterPathRefs == RefsInv /\ EnterPath => RefsInv'
<1> SUFFICES ASSUME RefsInv, EnterPath
             PROVE  RefsInv'
  OBVIOUS
<1> DEFINE n == i + 1
<1>1. /\ pc = "paths" /\ pc' = "members" /\ i' = n /\ j' = 0
      /\ UNCHANGED <<doc, k, stores, routes, outcome>>
  BY DEF EnterPath, built
<1>2. n \in DOMAIN doc /\ n \in 0..Len(doc)
  <2>1. i \in Nat /\ Len(doc) \in Nat /\ i < Len(doc) /\ DOMAIN doc = 1..Len(doc)
    BY DocumentsAssumption, LenProperties DEF RefsInv, TypeInv, EnterPath
  <2> QED  BY <2>1, CountOn, Zenon
<1>3. ref_keys' = Push(doc[n].path)
  BY DEF EnterPath
<1> HIDE DEF n
<1>4. doc[n].path \in Key /\ Len(doc[n].members) \in Nat
  BY <1>2, DocumentType, Zenon DEF RefsInv, TypeInv
<1>5. path' = doc[n].path
  BY <1>1, Zenon DEF path
<1>6. ref_keys' = << <<"paths">>, path' >> /\ ref_keys' \in Seq(Key)
  BY <1>1, <1>3, <1>4, <1>5, StackSteps, Zenon
<1>7. TypeInv'
  BY <1>1, <1>2, <1>6 DEF RefsInv, TypeInv
<1>8. Position'
  <2>1. \A l \in Nat : 0 \in 0..l
    OBVIOUS
  <2>2. doc'[i'].members = doc[n].members
    BY <1>1, Zenon
  <2> QED  BY <1>1, <1>2, <1>4, <2>1, <2>2 DEF RefsInv, Position
<1>9. StackInv'
  BY <1>1, <1>6 DEF StackInv
<1> QED  BY <1>1, <1>7, <1>8, <1>9, SameBuilt DEF RefsInv

(* Leaving a path pops its key (oas_validator_imp.cpp:292-296).             *)
LEMMA LeavePathRefs == RefsInv /\ LeavePath => RefsInv'
<1> SUFFICES ASSUME RefsInv, LeavePath
             PROVE  RefsInv'
  OBVIOUS
<1>1. /\ pc = "members" /\ pc' = "paths" /\ ref_keys' = Pop
      /\ UNCHANGED <<doc, i, j, k, stores, routes, outcome>>
  BY DEF LeavePath, built
<1>2. ref_keys' = << <<"paths">> >> /\ ref_keys' \in Seq(Key)
  <2>1. \E x : x \in Key
    BY OneKey, Zenon DEF Field
  <2> QED  BY <1>1, <2>1, StackSteps
<1>3. TypeInv' /\ Position' /\ StackInv'
  BY <1>1, <1>2 DEF RefsInv, TypeInv, Position, StackInv
<1> QED  BY <1>1, <1>3, SameBuilt DEF RefsInv

(* Coming to a method pushes its name, if it is one                        *)
(* (oas_validator_imp.cpp:299-305).                                         *)
LEMMA EnterMethodRefs == RefsInv /\ EnterMethod => RefsInv'
<1> SUFFICES ASSUME RefsInv, EnterMethod
             PROVE  RefsInv'
  OBVIOUS
<1> DEFINE n == j + 1
           key == doc[i].members[n].key
<1>1. /\ pc = "members" /\ pc' = "method" /\ j' = n
      /\ UNCHANGED <<doc, i, k, stores, routes, outcome>>
  BY DEF EnterMethod, built
<1>2. /\ i \in DOMAIN doc /\ n \in DOMAIN doc[i].members
      /\ n \in 0..Len(doc[i].members) /\ n \in Nat
  <2>1. i \in DOMAIN doc /\ doc \in Documents
    BY <1>1 DEF RefsInv, TypeInv, Position
  <2>2. j \in Nat /\ Len(doc[i].members) \in Nat /\ j < Len(doc[i].members)
        /\ DOMAIN doc[i].members = 1..Len(doc[i].members)
    BY <2>1, DocumentType DEF RefsInv, TypeInv, EnterMethod
  <2> QED  BY <2>1, <2>2, CountOn, Zenon
<1>3. ref_keys' = Push(<<key>>)
  BY DEF EnterMethod
<1> HIDE DEF n
<1>4. key \in STRING
  BY <1>2, DocumentType, Zenon DEF RefsInv, TypeInv
<1>5. path' = path /\ member'.key = key
  BY <1>1, Zenon DEF path, member
<1> HIDE DEF key
<1>6. <<key>> \in Key
  BY <1>4, OneKey, Zenon
<1>7. ref_keys' = << <<"paths">>, path', <<member'.key>> >> /\ ref_keys' \in Seq(Key)
  BY <1>1, <1>3, <1>5, <1>6, StackSteps, Zenon
<1>8. TypeInv'
  BY <1>1, <1>2, <1>7 DEF RefsInv, TypeInv
<1>9. Position'
  BY <1>1, <1>2 DEF RefsInv, Position
<1>10. StackInv'
  BY <1>1, <1>7 DEF StackInv
<1> QED  BY <1>1, <1>8, <1>9, <1>10, SameBuilt DEF RefsInv

(* After the last parameter "parameters" and the method are popped.         *)
LEMMA LeaveParametersRefs == RefsInv /\ LeaveParameters => RefsInv'
<1> SUFFICES ASSUME RefsInv, LeaveParameters
             PROVE  RefsInv'
  OBVIOUS
<1>1. /\ pc = "parameters" /\ pc' = "insert" /\ ref_keys' = Pop
      /\ UNCHANGED <<doc, i, j, k, stores, routes, outcome>>
  BY DEF LeaveParameters, built
<1>2. ref_keys' = << <<"paths">>, path, <<member.key>> >> /\ ref_keys' \in Seq(Key)
  <2>1. \E x : x \in Key
    BY OneKey, Zenon DEF Field
  <2> QED  BY <1>1, <2>1, StackSteps, Zenon
<1>3. path' = path /\ member' = member /\ method' = method
  BY <1>1, Zenon DEF path, member, method
<1>4. TypeInv' /\ Position'
  BY <1>1, <1>2, <1>3 DEF RefsInv, TypeInv, Position
<1>5. StackInv'
  BY <1>1, <1>2, <1>3 DEF StackInv
<1> QED  BY <1>1, <1>4, <1>5, SameBuilt DEF RefsInv

(* A path with parameters goes to the trie, and its method is popped.       *)
LEMMA InsertPathRefs == RefsInv /\ InsertPath => RefsInv'
<1> SUFFICES ASSUME RefsInv, InsertPath
             PROVE  RefsInv'
  OBVIOUS
<1>1. /\ pc = "insert" /\ pc' = "members" /\ ref_keys' = Pop
      /\ UNCHANGED <<doc, i, j, k, stores, routes, outcome>>
  BY DEF InsertPath
<1>2. ref_keys' = << <<"paths">>, path >> /\ ref_keys' \in Seq(Key)
  <2>1. \E x : x \in Key
    BY OneKey, Zenon DEF Field
  <2> QED  BY <1>1, <2>1, StackSteps, Zenon
<1>3. path' = path
  BY <1>1, Zenon DEF path
<1>4. TypeInv' /\ Position'
  BY <1>1, <1>2, <1>3 DEF RefsInv, TypeInv, Position
<1>5. StackInv'
  BY <1>1, <1>2, <1>3 DEF StackInv
<1> QED  BY <1>1, <1>4, <1>5, SameBuilt DEF RefsInv

\* What an end of the constructor leaves.
LEMMA EndRefs ==
    RefsInv /\ (Finish \/ UnknownKey \/ NotInPath \/ BadParam) => RefsInv'
<1> SUFFICES ASSUME RefsInv, Finish \/ UnknownKey \/ NotInPath \/ BadParam
             PROVE  RefsInv'
  OBVIOUS
<1>1. /\ pc' = "done" /\ outcome' # "NONE"
      /\ UNCHANGED <<doc, i, j, k, ref_keys, stores, routes>>
  BY DEF Finish, UnknownKey, NotInPath, BadParam, Throw, built
<1>2. TypeInv' /\ Position' /\ StackInv'
  BY <1>1 DEF RefsInv, TypeInv, Position, StackInv
<1> QED  BY <1>1, <1>2, SameBuilt DEF RefsInv

\* Where a method or a parameter of it is gone through.
LEMMA AtMember ==
    ASSUME RefsInv, pc \in {"method", "parameters", "insert"}
    PROVE  /\ i \in DOMAIN doc /\ j \in DOMAIN doc[i].members
           /\ path \in Path /\ path \in Key
           /\ member.key \in STRING /\ member.body \in BOOLEAN
           /\ member.params \in Seq(ParameterObject)
           /\ member \in MembersAt(path, member.key)
           /\ member.key \in DOMAIN MethodOf =>
                method \in Methods /\ member.key \in KeysOf(method)
<1>1. doc \in Documents /\ i \in DOMAIN doc /\ j \in DOMAIN doc[i].members
  BY DEF RefsInv, TypeInv, Position
<1>2. /\ path \in Path /\ path \in Key
      /\ member.key \in STRING /\ member.body \in BOOLEAN
      /\ member.params \in Seq(ParameterObject)
  BY <1>1, DocumentType DEF path, member
<1>3. member \in MembersAt(path, member.key)
  <2> DEFINE Here(a) == { doc[a].members[b] : b \in { c \in DOMAIN doc[a].members :
                                                    doc[a].members[c].key = member.key } }
  <2>1. member \in Here(i)
    BY <1>1 DEF member
  <2>2. i \in { c \in DOMAIN doc : doc[c].path = path }
    BY <1>1 DEF path
  <2>3. MembersAt(path, member.key) =
          UNION { Here(a) : a \in { c \in DOMAIN doc : doc[c].path = path } }
    BY DEF MembersAt
  <2> HIDE DEF Here
  <2> QED  BY <2>1, <2>2, <2>3
<1>4. member.key \in DOMAIN MethodOf => method \in Methods /\ member.key \in KeysOf(method)
  BY LoaderAssumption DEF KeysOf, method
<1> QED  BY <1>1, <1>2, <1>3, <1>4

\* A map that has been given a store has routes of its kind.
LEMMA EmplacedRoutes ==
    ASSUME NEW map \in Routes, NEW p \in Path, NEW s \in Nat
    PROVE  /\ Emplaced(map, p, s) \in Routes
           /\ DOMAIN Emplaced(map, p, s) = DOMAIN map \cup {p}
           /\ \A q \in DOMAIN map : Emplaced(map, p, s)[q] = map[q]
           /\ p \notin DOMAIN map => Emplaced(map, p, s)[p] = s
<1>1. PICK ps \in SUBSET Path : map \in [ps -> Nat]
  BY Zenon DEF Routes
<1>2. CASE p \in DOMAIN map
  BY <1>2 DEF Emplaced
<1>3. CASE p \notin DOMAIN map
  <2> DEFINE new == [x \in DOMAIN map \cup {p} |-> IF x = p THEN s ELSE map[x]]
  <2>1. Emplaced(map, p, s) = new
    BY <1>3 DEF Emplaced
  <2>2. new \in [ps \cup {p} -> Nat] /\ ps \cup {p} \in SUBSET Path
    BY <1>1
  <2>3. /\ DOMAIN new = DOMAIN map \cup {p}
        /\ \A q \in DOMAIN map : new[q] = map[q]
        /\ new[p] = s
    BY <1>3
  <2> HIDE DEF new
  <2>4. new \in Routes
    BY <2>2, Zenon DEF Routes
  <2> QED  BY <2>1, <2>3, <2>4, Zenon
<1> QED  BY <1>2, <1>3

(* What RequestBody makes of the stores and the maps: a store without      *)
(* parameters at the end, which is that of the path for the method unless  *)
(* there is one (method_validator and validators_store.cpp:12-15).         *)
LEMMA EmplacedStore ==
    ASSUME RefsInv, RequestBody
    PROVE  LET l == Len(stores)
               new == NewStore(IF member.body THEN Push(<<"schema">>) ELSE NoBody)
               map == routes'[method]
           IN  /\ l \in Nat /\ new \in StoreType /\ (new.body # NoBody <=> member.body)
               /\ \A in \in {"path", "query", "header"} : new[in] = <<>>
               /\ stores' \in Seq(StoreType) /\ Len(stores') = l + 1 /\ stores'[l + 1] = new
               /\ DOMAIN stores' = 1..(l + 1) /\ DOMAIN stores = 1..l
               /\ \A n \in 1..l : stores'[n] = stores[n]
               /\ routes' \in [Methods -> Routes]
               /\ \A m \in Methods : m # method => routes'[m] = routes[m]
               /\ DOMAIN map = DOMAIN routes[method] \cup {path}
               /\ \A p \in DOMAIN routes[method] : map[p] = routes[method][p]
               /\ path \notin DOMAIN routes[method] => map[path] = l + 1
<1> DEFINE body == IF member.body THEN Push(<<"schema">>) ELSE NoBody
           new == NewStore(body)
           l == Len(stores)
           m0 == method
           p0 == path
           key == member.key
<1>1. pc = "method" /\ key \in DOMAIN MethodOf
  BY DEF RequestBody
<1>2. stores' = Append(stores, new) /\ stores \in Seq(StoreType) /\ l \in Nat
  BY LenProperties DEF RequestBody, RefsInv, TypeInv
<1>3. m0 \in Methods /\ p0 \in Path
  BY <1>1, AtMember
<1>4. body \in Seq(Key) /\ (body # NoBody <=> member.body)
  <2>1. <<"schema">> \in Key
    BY OneKey, Zenon DEF Field
  <2>2. /\ Push(<<"schema">>) = << <<"paths">>, p0, <<key>>, <<"schema">> >>
        /\ Push(<<"schema">>) \in Seq(Key)
    BY <1>1, <2>1, StackSteps
  <2>3. NoBody \in Seq(Key) /\ \A a, b, c, d : << a, b, c, d >> # NoBody
    BY EmptySeq DEF NoBody
  <2> HIDE DEF p0, key
  <2> QED  BY <2>2, <2>3, Zenon
<1> HIDE DEF body
<1>5. new \in StoreType
  <2>1. \A S : <<>> \in Seq(S)
    BY EmptySeq, Zenon
  <2> QED  BY <1>4, <2>1 DEF NewStore, StoreType
<1>6. routes' = [routes EXCEPT ![m0] = Emplaced(@, p0, Len(stores'))]
  BY DEF RequestBody
<1>7. /\ new.body = body /\ \A in \in {"path", "query", "header"} : new[in] = <<>>
  BY DEF NewStore
<1> HIDE DEF new, m0, p0, l
<1>8. /\ stores' \in Seq(StoreType) /\ Len(stores') = l + 1 /\ stores'[l + 1] = new
      /\ DOMAIN stores' = 1..(l + 1) /\ DOMAIN stores = 1..l
      /\ \A n \in 1..l : stores'[n] = stores[n]
  <2> DEFINE u == Append(stores, new)
  <2>1. \A n \in 1..l : u[n] = stores[n]
    BY <1>2, <1>5 DEF l
  <2>2. /\ u \in Seq(StoreType) /\ Len(u) = l + 1 /\ u[l + 1] = new
        /\ DOMAIN stores = 1..l
    BY <1>2, <1>5, LenProperties DEF l
  <2> HIDE DEF u
  <2>3. DOMAIN u = 1..(l + 1)
    BY <2>2, LenProperties
  <2> QED  BY <1>2, <2>1, <2>2, <2>3, Zenon DEF u
<1>9. l + 1 \in Nat
  BY <1>2
<1>10. routes \in [Methods -> Routes]
  BY DEF RefsInv, TypeInv
<1>11. /\ routes' \in [Methods -> Routes]
       /\ \A m \in Methods : m # m0 => routes'[m] = routes[m]
       /\ DOMAIN routes'[m0] = DOMAIN routes[m0] \cup {p0}
       /\ \A p \in DOMAIN routes[m0] : routes'[m0][p] = routes[m0][p]
       /\ p0 \notin DOMAIN routes[m0] => routes'[m0][p0] = l + 1
  <2> DEFINE map == Emplaced(routes[m0], p0, l + 1)
  <2>1. routes[m0] \in Routes
    BY <1>3, <1>10
  <2>2. /\ map \in Routes /\ DOMAIN map = DOMAIN routes[m0] \cup {p0}
        /\ \A q \in DOMAIN routes[m0] : map[q] = routes[m0][q]
        /\ p0 \notin DOMAIN routes[m0] => map[p0] = l + 1
    BY <1>3, <1>9, <2>1, EmplacedRoutes
  <2>3. routes' = [routes EXCEPT ![m0] = map]
    BY <1>6, <1>8
  <2> HIDE DEF map
  <2>4. routes'[m0] = map /\ \A m \in Methods : m # m0 => routes'[m] = routes[m]
    BY <1>3, <1>10, <2>3
  <2>5. routes' \in [Methods -> Routes]
    BY <1>10, <2>2, <2>3
  <2> QED  BY <2>2, <2>4, <2>5, Zenon
<1> QED  BY <1>2, <1>4, <1>5, <1>7, <1>8, <1>11, Zenon DEF new, m0, p0, l, body

(* The store of a method is made with its body validator, whose reference  *)
(* is that of the stack, and emplaced unless the method has one of the path.*)
LEMMA RequestBodyRefs == RefsInv /\ RequestBody => RefsInv'
<1> SUFFICES ASSUME RefsInv, RequestBody
             PROVE  RefsInv'
  OBVIOUS
<1> DEFINE body == IF member.body THEN Push(<<"schema">>) ELSE NoBody
           new == NewStore(body)
           l == Len(stores)
           m0 == method
           p0 == path
           key == member.key
<1>1. /\ pc = "method" /\ pc' \in {"insert", "parameters"} /\ key \in DOMAIN MethodOf /\ k' = 0
      /\ UNCHANGED <<doc, i, j, outcome>>
  BY DEF RequestBody
<1>2. /\ m0 \in Methods /\ p0 \in Path /\ key \in KeysOf(m0)
      /\ member \in MembersAt(p0, key) /\ member.params \in Seq(ParameterObject)
  BY <1>1, AtMember
<1>3. body # NoBody => body = << <<"paths">>, p0, <<key>>, <<"schema">> >> /\ member.body
  <2>1. <<"schema">> \in Key
    BY OneKey, Zenon DEF Field
  <2>2. Push(<<"schema">>) = << <<"paths">>, p0, <<key>>, <<"schema">> >>
    BY <1>1, <2>1, StackSteps
  <2> HIDE DEF p0, key
  <2> QED  BY <2>2, Zenon
<1> HIDE DEF body
<1>4. BodyRefIsRight(m0, p0, body) \/ body = NoBody
  BY <1>2, <1>3, Zenon DEF BodyRefIsRight
<1>5. /\ new.body = body /\ \A in \in {"path", "query", "header"} : new[in] = <<>>
  BY DEF NewStore
<1>6. /\ l \in Nat /\ stores' \in Seq(StoreType) /\ stores'[l + 1] = new
      /\ DOMAIN stores' = 1..(l + 1) /\ DOMAIN stores = 1..l
      /\ \A n \in 1..l : stores'[n] = stores[n]
  BY EmplacedStore DEF body
<1>7. l + 1 \in 1..(l + 1) /\ \A n \in 1..l : n \in 1..(l + 1) /\ n # l + 1
  BY <1>6
<1>8. /\ routes' \in [Methods -> Routes] /\ p0 \in DOMAIN routes'[m0]
       /\ \A m \in Methods : \A p \in DOMAIN routes'[m] :
             \/ p \in DOMAIN routes[m] /\ routes'[m][p] = routes[m][p]
             \/ m = m0 /\ p = p0 /\ routes'[m][p] = l + 1
  <2>1. /\ routes' \in [Methods -> Routes]
        /\ \A m \in Methods : m # m0 => routes'[m] = routes[m]
        /\ DOMAIN routes'[m0] = DOMAIN routes[m0] \cup {p0}
        /\ \A p \in DOMAIN routes[m0] : routes'[m0][p] = routes[m0][p]
        /\ p0 \notin DOMAIN routes[m0] => routes'[m0][p0] = l + 1
    BY EmplacedStore
  <2> HIDE DEF m0, p0, l
  <2> QED  BY <2>1
<1> HIDE DEF new, m0, p0, l
<1>9. \A m \in Methods : \A p \in DOMAIN routes[m] : routes[m][p] \in 1..l
  BY <1>6 DEF RefsInv, OwnStores
<1>10. OwnStores'
  <2>1. OwnStores
    BY DEF RefsInv
  <2> SUFFICES ASSUME NEW m \in Methods, NEW n \in Methods,
                      NEW p \in DOMAIN routes'[m], NEW q \in DOMAIN routes'[n]
               PROVE  /\ routes'[m][p] \in DOMAIN stores'
                      /\ routes'[m][p] = routes'[n][q] => m = n /\ p = q
    BY Zenon DEF OwnStores
  <2>2. \/ p \in DOMAIN routes[m] /\ routes'[m][p] = routes[m][p] /\ routes[m][p] \in 1..l
        \/ m = m0 /\ p = p0 /\ routes'[m][p] = l + 1
    BY <1>8, <1>9, Zenon
  <2>3. \/ q \in DOMAIN routes[n] /\ routes'[n][q] = routes[n][q] /\ routes[n][q] \in 1..l
        \/ n = m0 /\ q = p0 /\ routes'[n][q] = l + 1
    BY <1>8, <1>9, Zenon
  <2>4. routes'[m][p] \in DOMAIN stores'
    BY <1>6, <1>7, <2>2, Zenon
  <2>5. p \in DOMAIN routes[m] /\ q \in DOMAIN routes[n] /\ routes[m][p] = routes[n][q]
          => m = n /\ p = q
    BY <2>1, ZenonT(60) DEF OwnStores
  <2>6. routes'[m][p] = routes'[n][q] => m = n /\ p = q
    BY <1>7, <2>2, <2>3, <2>5, ZenonT(60)
  <2> QED  BY <2>4, <2>6
<1>11. RefsNameTheirPlace'
  <2> SUFFICES ASSUME NEW m \in Methods, NEW p \in DOMAIN routes'[m]
               PROVE  LET s == stores'[routes'[m][p]]
                      IN  /\ s.body # NoBody => BodyRefIsRight(m, p, s.body)
                          /\ \A in \in {"path", "query", "header"} :
                                \A a \in DOMAIN s[in] : ParamRefIsRight(m, p, in, s[in][a])
    BY <1>1, SamePlaces, Zenon DEF RefsNameTheirPlace
  <2>1. CASE p \in DOMAIN routes[m] /\ routes'[m][p] = routes[m][p]
    <3>1. stores'[routes'[m][p]] = stores[routes[m][p]]
      <4>1. routes[m][p] \in 1..l
        BY <1>9, <2>1, Zenon
      <4>2. stores'[routes[m][p]] = stores[routes[m][p]]
        BY <1>6, <4>1, Zenon
      <4> QED  BY <2>1, <4>2, Zenon
    <3> QED  BY <2>1, <3>1, Zenon DEF RefsInv, RefsNameTheirPlace
  <2>2. CASE m = m0 /\ p = p0 /\ routes'[m][p] = l + 1
    <3>1. stores'[routes'[m][p]] = new
      BY <1>6, <2>2, Zenon
    <3>2. \A a \in DOMAIN <<>> : FALSE
      OBVIOUS
    <3> QED  BY <1>4, <1>5, <2>2, <3>1, <3>2, Zenon
  <2> QED  BY <1>8, <2>1, <2>2
<1>12. path' = path /\ member' = member /\ method' = method
  BY <1>1, Zenon DEF path, member, method
<1>13. /\ pc' = "insert" => ref_keys' = << <<"paths">>, path, <<member.key>> >>
       /\ pc' = "parameters" =>
             ref_keys' = << <<"paths">>, path, <<member.key>>, <<"parameters">> >>
       /\ ref_keys' \in Seq(Key)
  <2>1. <<"parameters">> \in Key
    BY OneKey, Zenon DEF Field
  <2>2. /\ Push(<<"parameters">>) = << <<"paths">>, path, <<member.key>>, <<"parameters">> >>
        /\ Push(<<"parameters">>) \in Seq(Key)
    BY <1>1, <2>1, StackSteps
  <2>3. ref_keys = << <<"paths">>, path, <<member.key>> >> /\ ref_keys \in Seq(Key)
    BY <1>1 DEF RefsInv, StackInv, TypeInv
  <2>4. /\ pc' = "insert" => ref_keys' = ref_keys
        /\ pc' = "parameters" => ref_keys' = Push(<<"parameters">>)
    BY DEF RequestBody
  <2> QED  BY <1>1, <2>2, <2>3, <2>4, Zenon
<1>14. StackInv'
  BY <1>1, <1>12, <1>13, Zenon DEF StackInv
<1>15. Position'
  <2>1. 0 \in 0..Len(member.params)
    <3>1. Len(member.params) \in Nat
      BY <1>2, LenProperties
    <3> QED  BY <3>1
  <2> QED  BY <1>1, <1>8, <1>12, <2>1 DEF RefsInv, Position, m0, p0
<1>16. TypeInv'
  BY <1>1, <1>6, <1>8, <1>13 DEF RefsInv, TypeInv
<1> QED  BY <1>10, <1>11, <1>14, <1>15, <1>16 DEF RefsInv

\* Where a parameter is gone through: it, its store and its reference.
LEMMA AtParameter ==
    ASSUME RefsInv, pc = "parameters", k < Len(member.params)
    PROVE  /\ k + 1 \in DOMAIN member.params /\ k + 1 \in 0..Len(member.params) /\ k + 1 \in Nat
           /\ param.name \in STRING /\ param.in \in STRING
           /\ method \in Methods /\ path \in DOMAIN routes[method]
           /\ store \in DOMAIN stores /\ stores[store] \in StoreType
           /\ Push(<<param.name>>) \in Seq(Key)
           /\ Push(<<param.name>>) =
                << <<"paths">>, path, <<member.key>>, <<"parameters">>, <<param.name>> >>
<1>1. k \in Nat /\ Len(member.params) \in Nat /\ DOMAIN member.params = 1..Len(member.params)
  <2>1. member.params \in Seq(ParameterObject)
    BY AtMember
  <2> QED  BY <2>1, LenProperties DEF RefsInv, TypeInv
<1>2. k + 1 \in DOMAIN member.params /\ k + 1 \in 0..Len(member.params) /\ k + 1 \in Nat
  BY <1>1, CountOn, Zenon
<1>3. doc \in Documents /\ i \in DOMAIN doc /\ j \in DOMAIN doc[i].members
  BY AtMember DEF RefsInv, TypeInv
<1>4. \A c \in DOMAIN member.params :
          member.params[c].in \in STRING /\ member.params[c].name \in STRING
  BY <1>3, DocumentType DEF member
<1>5. param.name \in STRING /\ param.in \in STRING
  BY <1>2, <1>4, Zenon DEF param
<1>6. method \in Methods /\ path \in DOMAIN routes[method]
  BY AtMember DEF RefsInv, Position
<1>7. store \in DOMAIN stores
  BY <1>6, Zenon DEF RefsInv, OwnStores, store
<1>8. stores[store] \in StoreType
  BY <1>7, ElementOfSeq, LenProperties DEF RefsInv, TypeInv
<1>9. <<param.name>> \in Key
  BY <1>5, OneKey, Zenon
<1> DEFINE x == <<param.name>>
<1> HIDE DEF x
<1>10. x \in Key
  BY <1>9 DEF x
<1>11. /\ Push(x) = << <<"paths">>, path, <<member.key>>, <<"parameters">>, x >>
       /\ Push(x) \in Seq(Key)
  BY <1>10, StackSteps
<1>12. /\ Push(<<param.name>>) \in Seq(Key)
       /\ Push(<<param.name>>) =
            << <<"paths">>, path, <<member.key>>, <<"parameters">>, <<param.name>> >>
  BY <1>11, Zenon DEF x
<1> QED  BY <1>2, <1>5, <1>6, <1>7, <1>8, <1>12

(* A validator of the parameter gone through, in its list of the store of  *)
(* the route, keeps the references right.                                  *)
LEMMA AddRefs ==
    ASSUME RefsInv, NEW in \in {"path", "query", "header"}, AtParam(in),
           NEW list, Add(in, list), [stores[store] EXCEPT ![in] = list] \in StoreType,
           \A a \in DOMAIN list :
              \/ \E b \in DOMAIN stores[store][in] : list[a] = stores[store][in][b]
              \/ list[a].name = param.name /\ list[a].ref = Push(<<param.name>>)
    PROVE  RefsInv'
<1> DEFINE s0 == store
           m0 == method
           p0 == path
           new == [stores[store] EXCEPT ![in] = list]
<1>1. /\ pc = "parameters" /\ k < Len(member.params) /\ param.in = in /\ k' = k + 1
      /\ UNCHANGED <<doc, pc, i, j, ref_keys, routes, outcome>>
  BY DEF AtParam, Add
<1>2. /\ m0 \in Methods /\ p0 \in DOMAIN routes[m0] /\ s0 = routes[m0][p0] /\ s0 \in DOMAIN stores
      /\ k + 1 \in Nat /\ k + 1 \in DOMAIN member.params
      /\ k + 1 \in 0..Len(member.params)
  BY <1>1, AtParameter DEF store
<1>3. /\ stores \in Seq(StoreType) /\ DOMAIN stores = 1..Len(stores)
      /\ stores' = [stores EXCEPT ![s0] = new]
  <2>1. stores \in Seq(StoreType) /\ DOMAIN stores = 1..Len(stores)
    BY LenProperties DEF RefsInv, TypeInv
  <2>2. stores' = [stores EXCEPT ![s0][in] = list]
    BY DEF Add
  <2> QED  BY <2>1, <2>2
<1>4. /\ stores[s0] \in StoreType /\ new \in StoreType
      /\ new.body = stores[s0].body /\ new[in] = list
      /\ \A f \in {"path", "query", "header"} : f # in => new[f] = stores[s0][f]
  <2>1. stores[s0] \in StoreType
    BY <1>1, AtParameter
  <2> QED  BY <2>1 DEF StoreType
<1>5. \A a \in DOMAIN list : ParamRefIsRight(m0, p0, in, list[a])
  <2> SUFFICES ASSUME NEW a \in DOMAIN list
               PROVE  ParamRefIsRight(m0, p0, in, list[a])
    OBVIOUS
  <2>1. CASE \E b \in DOMAIN stores[store][in] : list[a] = stores[store][in][b]
    <3>1. \A b \in DOMAIN stores[routes[m0][p0]][in] :
              ParamRefIsRight(m0, p0, in, stores[routes[m0][p0]][in][b])
      BY <1>2, Zenon DEF RefsInv, RefsNameTheirPlace
    <3> QED  BY <1>2, <2>1, <3>1, Zenon
  <2>2. CASE list[a].name = param.name /\ list[a].ref = Push(<<param.name>>)
    <3>1. member.key \in KeysOf(m0) /\ member \in MembersAt(p0, member.key)
      BY <1>1, AtMember DEF RefsInv, Position
    <3>2. list[a].ref =
             << <<"paths">>, p0, <<member.key>>, <<"parameters">>, <<list[a].name>> >>
      <4>1. Push(<<param.name>>) =
               << <<"paths">>, path, <<member.key>>, <<"parameters">>, <<param.name>> >>
        BY <1>1, AtParameter
      <4> QED  BY <2>2, <4>1, Zenon
    <3>3. member.params[k + 1].name = list[a].name /\ member.params[k + 1].in = in
      BY <1>1, <2>2, Zenon DEF param
    <3> QED  BY <1>2, <3>1, <3>2, <3>3, Zenon DEF ParamRefIsRight
  <2> QED  BY <2>1, <2>2
<1> HIDE DEF s0, m0, p0, new
<1>6. /\ stores' \in Seq(StoreType) /\ DOMAIN stores' = DOMAIN stores
      /\ stores'[s0] = new /\ \A n \in DOMAIN stores : n # s0 => stores'[n] = stores[n]
  <2>1. stores' \in Seq(StoreType)
    BY <1>2, <1>3, <1>4, ExceptSeq
  <2> QED  BY <1>2, <1>3, <2>1
<1>7. OwnStores'
  BY <1>1, <1>6 DEF RefsInv, OwnStores
<1>8. RefsNameTheirPlace'
  <2> SUFFICES ASSUME NEW m \in Methods, NEW p \in DOMAIN routes[m]
               PROVE  LET s == stores'[routes[m][p]]
                      IN  /\ s.body # NoBody => BodyRefIsRight(m, p, s.body)
                          /\ \A f \in {"path", "query", "header"} :
                                \A a \in DOMAIN s[f] : ParamRefIsRight(m, p, f, s[f][a])
    BY <1>1, SamePlaces, Zenon DEF RefsNameTheirPlace
  <2>1. LET s == stores[routes[m][p]]
        IN  /\ s.body # NoBody => BodyRefIsRight(m, p, s.body)
            /\ \A f \in {"path", "query", "header"} :
                  \A a \in DOMAIN s[f] : ParamRefIsRight(m, p, f, s[f][a])
    BY Zenon DEF RefsInv, RefsNameTheirPlace
  <2>2. routes[m][p] \in DOMAIN stores
    BY Zenon DEF RefsInv, OwnStores
  <2>3. CASE routes[m][p] # s0
    BY <1>6, <2>1, <2>2, <2>3, Zenon
  <2>4. CASE routes[m][p] = s0
    <3>1. m = m0 /\ p = p0
      <4>1. routes[m][p] = routes[m0][p0]
        BY <1>2, <2>4, Zenon
      <4>2. OwnStores
        BY DEF RefsInv
      <4>3. routes[m][p] = routes[m0][p0] => m = m0 /\ p = p0
        BY <1>2, <4>2 DEF OwnStores
      <4> QED  BY <4>1, <4>3, Zenon
    <3>2. stores'[routes[m][p]] = new
      BY <1>6, <2>4, Zenon
    <3>3. new.body # NoBody => BodyRefIsRight(m, p, new.body)
      BY <1>4, <2>1, <2>4, Zenon
    <3>4. \A f \in {"path", "query", "header"} :
              \A a \in DOMAIN new[f] : ParamRefIsRight(m, p, f, new[f][a])
      <4>1. TAKE f \in {"path", "query", "header"}
      <4>2. CASE f = in
        BY <1>4, <1>5, <3>1, <4>2, Zenon
      <4>3. CASE f # in
        BY <1>4, <2>1, <2>4, <4>3, Zenon
      <4> QED  BY <4>2, <4>3
    <3> QED  BY <3>2, <3>3, <3>4, Zenon
  <2> QED  BY <2>3, <2>4
<1>9. path' = path /\ member' = member /\ method' = method
  BY <1>1, Zenon DEF path, member, method
<1>10. Position'
  <2>1. k' \in 0..Len(member.params)
    BY <1>1, <1>2
  <2> QED  BY <1>1, <1>9, <2>1 DEF RefsInv, Position
<1>11. StackInv'
  BY <1>1, <1>9, Zenon DEF RefsInv, StackInv
<1>12. TypeInv'
  <2>1. k' \in Nat
    BY <1>1, <1>2
  <2> QED  BY <1>1, <1>6, <2>1 DEF RefsInv, TypeInv
<1> QED  BY <1>7, <1>8, <1>10, <1>11, <1>12 DEF RefsInv

\* A list with an element more, if it is of its kind.
LEMMA AppendedList ==
    ASSUME NEW S, NEW list \in Seq(S), NEW v \in S
    PROVE  /\ Append(list, v) \in Seq(S)
           /\ \A a \in DOMAIN Append(list, v) :
                 \/ \E b \in DOMAIN list : Append(list, v)[a] = list[b]
                 \/ Append(list, v)[a] = v
<1> DEFINE u == Append(list, v)
           l == Len(list)
<1>1. u \in Seq(S) /\ Len(u) = l + 1 /\ u[l + 1] = v /\ l \in Nat
      /\ DOMAIN list = 1..l
  BY LenProperties
<1>2. \A n \in 1..l : u[n] = list[n]
  OBVIOUS
<1> HIDE DEF u, l
<1>3. DOMAIN u = 1..(l + 1)
  BY <1>1, LenProperties
<1>4. \A n \in 1..(l + 1) : n \in 1..l \/ n = l + 1
  BY <1>1
<1>5. \A a \in DOMAIN u : (\E b \in DOMAIN list : u[a] = list[b]) \/ u[a] = v
  BY <1>1, <1>2, <1>3, <1>4, Zenon
<1> QED  BY <1>1, <1>5, Zenon DEF u

(* The validator of a parameter gets the stack with its name on top, and    *)
(* one in the path the index of its template (validators_store.cpp:17-36).  *)
LEMMA AddParamRefs ==
    RefsInv /\ (AddPathParam \/ AddQueryParam \/ AddHeaderParam) => RefsInv'
<1> SUFFICES ASSUME RefsInv
             PROVE  AddPathParam \/ AddQueryParam \/ AddHeaderParam => RefsInv'
  OBVIOUS
<1> DEFINE s0 == stores[store]
<1>1. ASSUME AddPathParam
      PROVE  RefsInv'
  <2> DEFINE v == AtIndex(PathParamIndices(path)[param.name])
             list == Append(s0.path, v)
  <2>1. /\ AtParam("path") /\ Add("path", list) /\ param.name \in DOMAIN PathParamIndices(path)
        /\ pc = "parameters" /\ k < Len(member.params)
    BY <1>1 DEF AddPathParam, AtParam
  <2>2. /\ s0 \in StoreType /\ param.name \in STRING /\ Push(<<param.name>>) \in Seq(Key)
    BY <2>1, AtParameter
  <2>3. v.name = param.name /\ v.ref = Push(<<param.name>>)
    BY DEF AtIndex
  <2>4. v \in PathParamValidatorType
    <3>1. path \in Path
      BY <2>1, AtMember
    <3>2. param.name \in Params
      BY <2>1, <3>1, IndexedNames
    <3>3. PathParamIndices(path)[param.name] \in Index
      BY <3>1, <3>2 DEF Index
    <3> QED  BY <2>2, <3>3 DEF AtIndex, PathParamValidatorType
  <2> HIDE DEF v
  <2>5. s0.path \in Seq(PathParamValidatorType)
    BY <2>2 DEF StoreType
  <2>6. /\ list \in Seq(PathParamValidatorType)
        /\ \A a \in DOMAIN list : (\E b \in DOMAIN s0.path : list[a] = s0.path[b]) \/ list[a] = v
    BY <2>4, <2>5, AppendedList
  <2> HIDE DEF list
  <2>7. [s0 EXCEPT !["path"] = list] \in StoreType
    BY <2>2, <2>6 DEF StoreType
  <2> QED  BY <2>1, <2>3, <2>6, <2>7, AddRefs
<1>2. ASSUME AtParam("query") \/ AtParam("header")
      PROVE  /\ s0 \in StoreType /\ Validator \in ParamValidatorType
             /\ Validator.name = param.name /\ Validator.ref = Push(<<param.name>>)
  <2>1. pc = "parameters" /\ k < Len(member.params)
    BY <1>2 DEF AtParam
  <2>2. /\ s0 \in StoreType /\ param.name \in STRING /\ Push(<<param.name>>) \in Seq(Key)
    BY <2>1, AtParameter
  <2> QED  BY <2>2 DEF Validator, ParamValidatorType
<1>3. ASSUME AddQueryParam
      PROVE  RefsInv'
  <2> DEFINE list == Append(s0.query, Validator)
  <2>1. AtParam("query") /\ Add("query", list)
    BY <1>3 DEF AddQueryParam
  <2>2. s0.query \in Seq(ParamValidatorType)
    BY <1>2, <2>1 DEF StoreType
  <2>3. /\ list \in Seq(ParamValidatorType)
        /\ \A a \in DOMAIN list : (\E b \in DOMAIN s0.query : list[a] = s0.query[b])
                                  \/ list[a] = Validator
    BY <1>2, <2>1, <2>2, AppendedList
  <2> HIDE DEF list
  <2>4. [s0 EXCEPT !["query"] = list] \in StoreType
    BY <1>2, <2>1, <2>3 DEF StoreType
  <2> QED  BY <1>2, <2>1, <2>3, <2>4, AddRefs
<1>4. ASSUME AddHeaderParam
      PROVE  RefsInv'
  <2> DEFINE list == IF Knows(s0.header, param.name) THEN s0.header
                                                     ELSE Append(s0.header, Validator)
  <2>1. AtParam("header") /\ Add("header", list)
    BY <1>4 DEF AddHeaderParam
  <2>2. s0.header \in Seq(ParamValidatorType)
    BY <1>2, <2>1 DEF StoreType
  <2>3. /\ list \in Seq(ParamValidatorType)
        /\ \A a \in DOMAIN list : (\E b \in DOMAIN s0.header : list[a] = s0.header[b])
                                  \/ list[a] = Validator
    BY <1>2, <2>1, <2>2, AppendedList
  <2> HIDE DEF list
  <2>4. [s0 EXCEPT !["header"] = list] \in StoreType
    BY <1>2, <2>1, <2>3 DEF StoreType
  <2> QED  BY <1>2, <2>1, <2>3, <2>4, AddRefs
<1> QED  BY <1>1, <1>3, <1>4

(* Every step of the loader keeps the references, the stack they are made   *)
(* from and the stores right.                                               *)
THEOREM RefsNextInv == RefsInv /\ [Next]_vars => RefsInv'
<1> SUFFICES ASSUME RefsInv, [Next]_vars
             PROVE  RefsInv'
  OBVIOUS
<1>1. CASE EnterPath
  BY <1>1, EnterPathRefs
<1>2. CASE EnterMethod
  BY <1>2, EnterMethodRefs
<1>3. CASE RequestBody
  BY <1>3, RequestBodyRefs
<1>4. CASE AddPathParam \/ AddQueryParam \/ AddHeaderParam
  BY <1>4, AddParamRefs
<1>5. CASE LeaveParameters
  BY <1>5, LeaveParametersRefs
<1>6. CASE InsertPath
  BY <1>6, InsertPathRefs
<1>7. CASE LeavePath
  BY <1>7, LeavePathRefs
<1>8. CASE Finish \/ UnknownKey \/ NotInPath \/ BadParam
  BY <1>8, EndRefs
<1>9. CASE UNCHANGED vars
  <2>1. UNCHANGED <<doc, pc, i, j, k, ref_keys, stores, routes, outcome>>
    BY <1>9 DEF vars, built
  <2>2. path' = path /\ member' = member /\ method' = method
    BY <2>1, Zenon DEF path, member, method
  <2>3. TypeInv' /\ Position' /\ StackInv'
    BY <2>1, <2>2 DEF RefsInv, TypeInv, Position, StackInv
  <2> QED  BY <2>1, <2>3, SameBuilt DEF RefsInv
<1> QED
  BY <1>1, <1>2, <1>3, <1>4, <1>5, <1>6, <1>7, <1>8, <1>9
     DEF Next, ProcessMethod, AddParamValidators

(* Every validator of a constructed OASValidator, or of one under          *)
(* construction, refers to the place of the document it was made from      *)
(* (oas_validator_imp.cpp:289-342, validators_store.cpp:23-35).            *)
THEOREM ReferencesAreRight == Spec => []RefsNameTheirPlace
<1>1. Spec => []RefsInv
  BY RefsInitInv, RefsNextInv, PTL DEF Spec
<1>2. RefsInv => RefsNameTheirPlace
  BY DEF RefsInv
<1> QED  BY <1>1, <1>2, PTL

-----------------------------------------------------------------------------
(* A document is refused for its first fault: nothing before the place the *)
(* loops are at has one.                                                   *)

FaultsInv ==
    /\ pc = "paths" => SoundBefore(i + 1, 0, 0)
    /\ pc \in {"members", "insert"} => SoundBefore(i, j + 1, 0)
    /\ pc = "method" => SoundBefore(i, j, 0)
    /\ pc = "parameters" => SoundBefore(i, j, k + 1)
    /\ RefusedForItsFirstFault

\* Places are numbers, and members of a document count from 1.
LEMMA PlaceType ==
    ASSUME TypeInv, NEW x \in DOMAIN doc, NEW y \in DOMAIN doc[x].members
    PROVE  /\ x \in Nat /\ y \in Nat /\ y >= 1 /\ Len(doc[x].members) \in Nat
           /\ y <= Len(doc[x].members) /\ x >= 1 /\ Len(doc) \in Nat /\ x <= Len(doc)
           /\ Len(doc[x].members[y].params) \in Nat
           /\ doc[x].members[y].params \in Seq(ParameterObject)
<1>1. /\ Len(doc) \in Nat /\ DOMAIN doc = 1..Len(doc) /\ Len(doc[x].members) \in Nat
      /\ DOMAIN doc[x].members = 1..Len(doc[x].members)
  BY DocumentType DEF TypeInv
<1>2. /\ Len(doc[x].members[y].params) \in Nat
      /\ doc[x].members[y].params \in Seq(ParameterObject)
  BY DocumentType DEF TypeInv
<1>3. \A n, l \in Nat : n \in 1..l => n >= 1 /\ n <= l
  OBVIOUS
<1>4. x \in Nat /\ y \in Nat
  BY <1>1
<1> QED  BY <1>1, <1>2, <1>3, <1>4, Zenon

\* The faultless beginning of a document grows by a place.
LEMMA SoundStep ==
    ASSUME TypeInv, NEW a \in Nat, NEW b \in Nat, NEW c \in Nat,
           SoundBefore(a, b, c), FaultAt(a, b, c) = "NONE"
    PROVE  SoundBefore(a, b, c + 1)
<1> SUFFICES ASSUME NEW x \in DOMAIN doc, NEW y \in DOMAIN doc[x].members,
                    NEW z \in 0..Len(doc[x].members[y].params),
                    Before(x, y, z, a, b, c + 1)
             PROVE  FaultAt(x, y, z) = "NONE"
  BY Zenon DEF SoundBefore
<1>1. x \in Nat /\ y \in Nat /\ z \in Nat
  BY PlaceType
<1>2. Before(x, y, z, a, b, c) \/ (x = a /\ y = b /\ z = c)
  BY <1>1 DEF Before
<1>3. CASE Before(x, y, z, a, b, c)
  BY <1>3, Zenon DEF SoundBefore
<1>4. CASE x = a /\ y = b /\ z = c
  BY <1>4, Zenon
<1> QED  BY <1>2, <1>3, <1>4

\* After the last parameter of a member comes the next member.
LEMMA SoundMember ==
    ASSUME TypeInv, NEW a \in Nat, NEW b \in Nat, NEW c \in Nat,
           SoundBefore(a, b, c), Len(doc[a].members[b].params) < c
    PROVE  SoundBefore(a, b + 1, 0)
<1> SUFFICES ASSUME NEW x \in DOMAIN doc, NEW y \in DOMAIN doc[x].members,
                    NEW z \in 0..Len(doc[x].members[y].params),
                    Before(x, y, z, a, b + 1, 0)
             PROVE  FaultAt(x, y, z) = "NONE"
  BY Zenon DEF SoundBefore
<1> DEFINE l == Len(doc[x].members[y].params)
<1>1. x \in Nat /\ y \in Nat /\ z \in Nat /\ l \in Nat /\ z <= l
  <2>1. l \in Nat
    BY PlaceType
  <2> HIDE DEF l
  <2>2. z \in 0..l
    BY DEF l
  <2> QED  BY <2>1, <2>2, PlaceType
<1>2. x = a /\ y = b => l < c
  BY Zenon
<1> HIDE DEF l
<1>3. Before(x, y, z, a, b, c)
  BY <1>1, <1>2 DEF Before
<1> QED  BY <1>3, Zenon DEF SoundBefore

\* After the last member of a path comes the next path.
LEMMA SoundPath ==
    ASSUME TypeInv, NEW a \in Nat, NEW b \in Nat, SoundBefore(a, b, 0), Len(doc[a].members) < b
    PROVE  SoundBefore(a + 1, 0, 0)
<1> SUFFICES ASSUME NEW x \in DOMAIN doc, NEW y \in DOMAIN doc[x].members,
                    NEW z \in 0..Len(doc[x].members[y].params),
                    Before(x, y, z, a + 1, 0, 0)
             PROVE  FaultAt(x, y, z) = "NONE"
  BY Zenon DEF SoundBefore
<1> DEFINE l == Len(doc[x].members)
<1>1. x \in Nat /\ y \in Nat /\ z \in Nat /\ l \in Nat /\ y <= l
  BY PlaceType
<1>2. x = a => l < b
  BY Zenon
<1> HIDE DEF l
<1>3. Before(x, y, z, a, b, 0)
  BY <1>1, <1>2 DEF Before
<1> QED  BY <1>3, Zenon DEF SoundBefore

\* Nothing of a path comes before its first member.
LEMMA SoundStart ==
    ASSUME TypeInv, NEW a \in Nat, SoundBefore(a, 0, 0)
    PROVE  SoundBefore(a, 1, 0)
<1> SUFFICES ASSUME NEW x \in DOMAIN doc, NEW y \in DOMAIN doc[x].members,
                    NEW z \in 0..Len(doc[x].members[y].params),
                    Before(x, y, z, a, 1, 0)
             PROVE  FaultAt(x, y, z) = "NONE"
  BY Zenon DEF SoundBefore
<1>1. x \in Nat /\ y \in Nat /\ z \in Nat /\ y >= 1
  BY PlaceType
<1>2. Before(x, y, z, a, 0, 0)
  BY <1>1 DEF Before
<1> QED  BY <1>2, Zenon DEF SoundBefore

\* What is faultless is up to the document.
LEMMA SameSound ==
    ASSUME UNCHANGED doc
    PROVE  /\ \A a, b, c : SoundBefore(a, b, c)' <=> SoundBefore(a, b, c)
           /\ \A a, b, c : FaultAt(a, b, c)' = FaultAt(a, b, c)
<1>1. \A a, b, c : FaultAt(a, b, c)' = FaultAt(a, b, c)
  BY DEF FaultAt, ParamFault
<1>2. \A a, b, c : SoundBefore(a, b, c)' <=> SoundBefore(a, b, c)
  BY <1>1 DEF SoundBefore, Before
<1> QED  BY <1>1, <1>2

\* The member or the parameter gone through, as a place.
LEMMA FaultHere ==
    ASSUME RefsInv
    PROVE  /\ pc = "method" =>
                FaultAt(i, j, 0) = IF member.key \in DOMAIN MethodOf THEN "NONE" ELSE "out_of_range"
           /\ pc = "parameters" /\ k < Len(member.params) =>
                FaultAt(i, j, k + 1) =
                    IF param.in = "path" /\ param.name \notin DOMAIN PathParamIndices(path)
                    THEN "out_of_range"
                    ELSE IF param.in \notin {"path", "query", "header"} \/ ~param.sound
                         THEN "ValidatorInitExc" ELSE "NONE"
<1>1. FaultAt(i, j, 0) = IF member.key \in DOMAIN MethodOf THEN "NONE" ELSE "out_of_range"
  BY DEF FaultAt, member
<1>2. ASSUME pc = "parameters", k < Len(member.params)
      PROVE  FaultAt(i, j, k + 1) = ParamFault(path, param)
  <2>1. k \in Nat
    BY DEF RefsInv, TypeInv
  <2>2. k + 1 > 0
    BY <2>1
  <2> QED  BY <2>2 DEF FaultAt, param, path, member
<1>3. pc = "parameters" => DOMAIN PathParamIndices(path) = ToSet(path) \cap Params
  BY AtMember, IndexedNames
<1>4. ParamFault(path, param) =
         IF param.in = "path" /\ param.name \notin ToSet(path) \cap Params
         THEN "out_of_range"
         ELSE IF param.in \notin {"path", "query", "header"} \/ ~param.sound
              THEN "ValidatorInitExc" ELSE "NONE"
  BY DEF ParamFault
<1> QED  BY <1>1, <1>2, <1>3, <1>4

(* Before ProcessPath is called nothing of the document has been passed     *)
(* (oas_validator_imp.cpp:25-27).                                           *)
THEOREM FaultsInitInv == Init => FaultsInv
<1> SUFFICES ASSUME Init
             PROVE  SoundBefore(1, 0, 0)
  BY DEF Init, FaultsInv, RefusedForItsFirstFault
<1>1. TypeInv
  BY RefsInitInv DEF RefsInv
<1> SUFFICES ASSUME NEW x \in DOMAIN doc, NEW y \in DOMAIN doc[x].members,
                    NEW z \in 0..Len(doc[x].members[y].params),
                    Before(x, y, z, 1, 0, 0)
             PROVE  FALSE
  BY Zenon DEF SoundBefore
<1>2. x \in Nat /\ y \in Nat /\ z \in Nat /\ x >= 1
  BY <1>1, PlaceType
<1> QED  BY <1>2 DEF Before

(* Every step leaves behind it only members and parameters without a fault; *)
(* at the first with one the constructor throws what that one is for.       *)
THEOREM FaultsNextInv == RefsInv /\ FaultsInv /\ [Next]_vars => FaultsInv'
<1> SUFFICES ASSUME RefsInv, FaultsInv, [Next]_vars
             PROVE  FaultsInv'
  OBVIOUS
<1>0. /\ TypeInv /\ i \in Nat /\ j \in Nat /\ k \in Nat /\ UNCHANGED doc
      /\ Len(doc) \in Nat
  <2>1. Len(doc) \in Nat
    BY DocumentsAssumption, LenProperties DEF RefsInv, TypeInv
  <2>2. UNCHANGED doc
    BY DEF Next, EnterPath, ProcessMethod, EnterMethod, UnknownKey, RequestBody, Throw, LeavePath,
           AddParamValidators, AddPathParam, AddQueryParam, AddHeaderParam, Add, NotInPath,
           BadParam, LeaveParameters, InsertPath, Finish, vars
  <2> QED  BY <2>1, <2>2 DEF RefsInv, TypeInv
<1>s. /\ \A a, b, c : SoundBefore(a, b, c)' <=> SoundBefore(a, b, c)
      /\ \A a, b, c : FaultAt(a, b, c)' = FaultAt(a, b, c)
  BY <1>0, SameSound
<1>1. CASE EnterPath
  <2>1. pc = "paths" /\ pc' = "members" /\ i' = i + 1 /\ j' = 0
    BY <1>1 DEF EnterPath
  <2>2. SoundBefore(i + 1, 1, 0)
    <3>1. i + 1 \in Nat
      BY <1>0
    <3> QED  BY <1>0, <2>1, <3>1, SoundStart DEF FaultsInv
  <2>3. 0 + 1 = 1
    OBVIOUS
  <2>4. SoundBefore(i', j' + 1, 0)
    BY <2>1, <2>2, <2>3, Zenon
  <2>5. SoundBefore(i, j + 1, 0)'
    BY <1>s, <2>4, Zenon
  <2> QED  BY <2>1, <2>5 DEF FaultsInv, RefusedForItsFirstFault
<1>2. CASE LeavePath
  <2>1. pc = "members" /\ pc' = "paths" /\ i' = i /\ j = Len(doc[i].members)
    BY <1>2 DEF LeavePath
  <2>2. SoundBefore(i, j + 1, 0) /\ Len(doc[i].members) < j + 1 /\ j + 1 \in Nat
    BY <1>0, <2>1 DEF FaultsInv
  <2>3. SoundBefore(i + 1, 0, 0)
    BY <1>0, <2>2, SoundPath
  <2>4. SoundBefore(i + 1, 0, 0)'
    BY <1>s, <2>1, <2>3, Zenon
  <2> QED  BY <2>1, <2>4 DEF FaultsInv, RefusedForItsFirstFault
<1>3. CASE EnterMethod
  <2>1. pc = "members" /\ pc' = "method" /\ i' = i /\ j' = j + 1
    BY <1>3 DEF EnterMethod
  <2>2. SoundBefore(i, j + 1, 0)
    BY <2>1 DEF FaultsInv
  <2>3. SoundBefore(i, j, 0)'
    BY <1>s, <2>1, <2>2, Zenon
  <2> QED  BY <2>1, <2>3 DEF FaultsInv, RefusedForItsFirstFault
<1>4. CASE RequestBody
  <2>1. /\ pc = "method" /\ member.key \in DOMAIN MethodOf /\ i' = i /\ j' = j /\ k' = 0
        /\ \/ pc' = "insert" /\ member.params = <<>>
           \/ pc' = "parameters"
    BY <1>4 DEF RequestBody
  <2>2. SoundBefore(i, j, 0) /\ FaultAt(i, j, 0) = "NONE"
    BY <2>1, FaultHere DEF FaultsInv
  <2>3. SoundBefore(i, j, 0 + 1)
    BY <1>0, <2>2, SoundStep
  <2>4. CASE pc' = "parameters"
    <3>1. SoundBefore(i, j, k + 1)'
      BY <1>s, <2>1, <2>3, Zenon
    <3> QED  BY <2>4, <3>1 DEF FaultsInv, RefusedForItsFirstFault
  <2>5. CASE pc' = "insert" /\ member.params = <<>>
    <3>1. Len(doc[i].members[j].params) < 1
      BY <2>5 DEF member
    <3>2. SoundBefore(i, j, 1)
      BY <2>3
    <3>3. SoundBefore(i, j + 1, 0)
      BY <1>0, <3>1, <3>2, SoundMember
    <3>4. SoundBefore(i, j + 1, 0)'
      BY <1>s, <2>1, <3>3, Zenon
    <3> QED  BY <2>5, <3>4 DEF FaultsInv, RefusedForItsFirstFault
  <2> QED  BY <2>1, <2>4, <2>5
<1>5. CASE AddPathParam \/ AddQueryParam \/ AddHeaderParam
  <2>1. /\ pc = "parameters" /\ k < Len(member.params) /\ pc' = pc /\ i' = i /\ j' = j /\ k' = k + 1
        /\ param.sound /\ param.in \in {"path", "query", "header"}
        /\ param.in = "path" => param.name \in DOMAIN PathParamIndices(path)
    BY <1>5 DEF AddPathParam, AddQueryParam, AddHeaderParam, AtParam, Add
  <2>2. SoundBefore(i, j, k + 1) /\ FaultAt(i, j, k + 1) = "NONE" /\ k + 1 \in Nat
    BY <1>0, <2>1, FaultHere DEF FaultsInv
  <2>3. SoundBefore(i, j, k + 1 + 1)
    BY <1>0, <2>2, SoundStep
  <2>4. SoundBefore(i, j, k + 1)'
    BY <1>s, <2>1, <2>3, Zenon
  <2> QED  BY <2>1, <2>4 DEF FaultsInv, RefusedForItsFirstFault
<1>6. CASE LeaveParameters
  <2>1. /\ pc = "parameters" /\ k = Len(member.params) /\ pc' = "insert" /\ i' = i /\ j' = j
    BY <1>6 DEF LeaveParameters
  <2>2. SoundBefore(i, j, k + 1) /\ k + 1 \in Nat /\ Len(doc[i].members[j].params) < k + 1
    BY <1>0, <2>1 DEF FaultsInv, member
  <2>3. SoundBefore(i, j + 1, 0)
    BY <1>0, <2>2, SoundMember
  <2>4. SoundBefore(i, j + 1, 0)'
    BY <1>s, <2>1, <2>3, Zenon
  <2> QED  BY <2>1, <2>4 DEF FaultsInv, RefusedForItsFirstFault
<1>7. CASE InsertPath
  <2>1. /\ pc = "insert" /\ pc' = "members" /\ i' = i /\ j' = j
    BY <1>7 DEF InsertPath
  <2>2. SoundBefore(i, j + 1, 0)
    BY <2>1 DEF FaultsInv
  <2>3. SoundBefore(i, j + 1, 0)'
    BY <1>s, <2>1, <2>2, Zenon
  <2> QED  BY <2>1, <2>3 DEF FaultsInv, RefusedForItsFirstFault
<1>8. CASE Finish
  <2>1. pc = "paths" /\ pc' = "done" /\ outcome' = "OK" /\ i = Len(doc) /\ doc' = doc
    BY <1>8 DEF Finish
  <2>2. SoundBefore(Len(doc) + 1, 0, 0)
    BY <2>1 DEF FaultsInv
  <2>3. SoundBefore(Len(doc) + 1, 0, 0)'
    BY <1>s, <2>1, <2>2, Zenon
  <2> QED  BY <2>1, <2>3 DEF FaultsInv, RefusedForItsFirstFault
<1>9. ASSUME NEW c \in 0..Len(doc[i].members[j].params), NEW fault,
             pc \in {"method", "parameters"}, pc' = "done", outcome' = fault, fault # "NONE",
             fault = FaultAt(i, j, c), SoundBefore(i, j, c)
      PROVE  FaultsInv'
  <2>1. i \in DOMAIN doc /\ j \in DOMAIN doc[i].members
    BY <1>9, AtMember
  <2>2. \E a \in DOMAIN doc : \E b \in DOMAIN doc[a].members :
          \E d \in 0..Len(doc[a].members[b].params) :
             /\ outcome' # "NONE" /\ outcome' = FaultAt(a, b, d)
             /\ SoundBefore(a, b, d)
    BY <1>9, <2>1, Zenon
  <2>3. RefusedForItsFirstFault'
    BY <1>0, <1>s, <2>2, Zenon DEF RefusedForItsFirstFault
  <2> QED  BY <1>9, <2>3 DEF FaultsInv
<1>10. CASE UnknownKey
  <2>1. /\ pc = "method" /\ member.key \notin DOMAIN MethodOf
        /\ pc' = "done" /\ outcome' = "out_of_range"
    BY <1>10 DEF UnknownKey, Throw
  <2>2. SoundBefore(i, j, 0) /\ FaultAt(i, j, 0) = "out_of_range"
    BY <2>1, FaultHere DEF FaultsInv
  <2>3. 0 \in 0..Len(doc[i].members[j].params)
    <3>1. Len(doc[i].members[j].params) \in Nat
      BY <2>1, AtMember, LenProperties DEF member
    <3> QED  BY <3>1
  <2> QED  BY <1>9, <2>1, <2>2, <2>3
<1>11. CASE NotInPath \/ BadParam
  <2>1. /\ pc = "parameters" /\ k < Len(member.params) /\ pc' = "done"
        /\ \/ /\ outcome' = "out_of_range" /\ param.in = "path"
              /\ param.name \notin DOMAIN PathParamIndices(path)
           \/ /\ outcome' = "ValidatorInitExc"
              /\ \/ param.in \notin {"path", "query", "header"}
                 \/ /\ param.in = "path" => param.name \in DOMAIN PathParamIndices(path)
                    /\ ~param.sound
    BY <1>11 DEF NotInPath, BadParam, AtParam, Throw
  <2>2. SoundBefore(i, j, k + 1) /\ FaultAt(i, j, k + 1) = outcome' /\ outcome' # "NONE"
    BY <2>1, FaultHere DEF FaultsInv
  <2>3. k + 1 \in 0..Len(doc[i].members[j].params)
    BY <2>1, AtParameter DEF member
  <2> QED  BY <1>9, <2>1, <2>2, <2>3
<1>12. CASE UNCHANGED vars
  <2>1. UNCHANGED <<doc, pc, i, j, k, outcome>>
    BY <1>12 DEF vars
  <2>2. RefusedForItsFirstFault'
    BY <1>s, <2>1 DEF FaultsInv, RefusedForItsFirstFault
  <2> QED  BY <1>s, <2>1, <2>2 DEF FaultsInv
<1> QED
  BY <1>1, <1>2, <1>3, <1>4, <1>5, <1>6, <1>7, <1>8, <1>10, <1>11, <1>12
     DEF Next, ProcessMethod, AddParamValidators

(* A document is taken exactly if it has no fault, and is refused for the  *)
(* first one it has (oas_validator_imp.cpp:303,                            *)
(* validators_store.cpp:26-34).                                            *)
THEOREM FirstFaultTold == Spec => []RefusedForItsFirstFault
<1>1. Spec => [](RefsInv /\ FaultsInv)
  BY RefsInitInv, RefsNextInv, FaultsInitInv, FaultsNextInv, PTL DEF Spec
<1>2. FaultsInv => RefusedForItsFirstFault
  BY DEF FaultsInv
<1> QED  BY <1>1, <1>2, PTL

-----------------------------------------------------------------------------
(* Documents are served: of what the document declares before the place    *)
(* the loops are at, every route has the validators.                       *)

Passed(a, b, c) == { d \in Places : Before(d[1], d[2], d[3], a, b, c) }

ServedInv ==
    /\ pc = "paths" => Served(Passed(i + 1, 0, 0))
    /\ pc \in {"members", "insert"} => Served(Passed(i, j + 1, 0))
    /\ pc = "method" => Served(Passed(i, j, 0))
    /\ pc = "parameters" => Served(Passed(i, j, k + 1))
    /\ DocumentIsServed

\* What the places of a document are.
LEMMA PlaceParts ==
    ASSUME TypeInv
    PROVE  /\ \A a \in DOMAIN doc : \A b \in DOMAIN doc[a].members :
                 \A c \in 0..Len(doc[a].members[b].params) : <<a, b, c>> \in Places
           /\ \A d \in Places :
                 /\ d = <<d[1], d[2], d[3]>> /\ d[1] \in DOMAIN doc
                 /\ d[2] \in DOMAIN doc[d[1]].members /\ d[3] \in 0..Len(MemberAt(d).params)
                 /\ d[1] \in Nat /\ d[2] \in Nat /\ d[3] \in Nat
                 /\ d[1] >= 1 /\ d[2] >= 1 /\ d[1] <= Len(doc) /\ d[2] <= Len(doc[d[1]].members)
                 /\ d[3] <= Len(MemberAt(d).params)
                 /\ Len(doc) \in Nat /\ Len(doc[d[1]].members) \in Nat
                 /\ Len(MemberAt(d).params) \in Nat
<1>1. \A a \in DOMAIN doc : \A b \in DOMAIN doc[a].members :
         \A c \in 0..Len(doc[a].members[b].params) : <<a, b, c>> \in Places
  BY DEF Places
<1>2. ASSUME NEW d \in Places
      PROVE  /\ d = <<d[1], d[2], d[3]>> /\ d[1] \in DOMAIN doc
             /\ d[2] \in DOMAIN doc[d[1]].members /\ d[3] \in 0..Len(MemberAt(d).params)
  <2>0. PICK a \in DOMAIN doc : \E b \in DOMAIN doc[a].members :
               \E c \in 0..Len(doc[a].members[b].params) : d = <<a, b, c>>
    BY DEF Places
  <2>1. PICK b \in DOMAIN doc[a].members :
               \E c \in 0..Len(doc[a].members[b].params) : d = <<a, b, c>>
    BY <2>0
  <2>2. PICK c \in 0..Len(doc[a].members[b].params) : d = <<a, b, c>>
    BY <2>1
  <2>3. d[1] = a /\ d[2] = b /\ d[3] = c
    BY <2>2
  <2> QED  BY <2>2, <2>3, Zenon DEF MemberAt
<1>3. ASSUME NEW d \in Places
      PROVE  /\ d[1] \in Nat /\ d[2] \in Nat /\ d[3] \in Nat
             /\ d[1] >= 1 /\ d[2] >= 1 /\ d[1] <= Len(doc) /\ d[2] <= Len(doc[d[1]].members)
             /\ d[3] <= Len(MemberAt(d).params)
             /\ Len(doc) \in Nat /\ Len(doc[d[1]].members) \in Nat
             /\ Len(MemberAt(d).params) \in Nat
  <2>1. /\ d[1] \in Nat /\ d[2] \in Nat /\ d[2] >= 1 /\ Len(doc[d[1]].members) \in Nat
        /\ d[2] <= Len(doc[d[1]].members) /\ d[1] >= 1 /\ Len(doc) \in Nat /\ d[1] <= Len(doc)
        /\ Len(doc[d[1]].members[d[2]].params) \in Nat
    BY <1>2, PlaceType
  <2>2. \A n, l : l \in Nat /\ n \in 0..l => n \in Nat /\ n <= l
    OBVIOUS
  <2>3. d[3] \in 0..Len(MemberAt(d).params) /\ Len(MemberAt(d).params) \in Nat
    BY <1>2, <2>1 DEF MemberAt
  <2> QED  BY <2>1, <2>2, <2>3, Zenon
<1> QED  BY <1>1, <1>2, <1>3, Zenon

\* The order of the places is one.
LEMMA EarlierOrder ==
    ASSUME TypeInv, NEW d \in Places, NEW e \in Places
    PROVE  Earlier(d, e) => ~Earlier(e, d) /\ d # e
<1>1. /\ d[1] \in Nat /\ d[2] \in Nat /\ d[3] \in Nat
      /\ e[1] \in Nat /\ e[2] \in Nat /\ e[3] \in Nat
  BY PlaceParts
<1>2. Earlier(d, e) => ~Earlier(e, d)
  BY <1>1 DEF Earlier, Before
<1>3. d = e => ~Earlier(d, e)
  BY <1>1 DEF Earlier, Before
<1> QED  BY <1>2, <1>3

\* What has been passed grows by a place.
LEMMA PassedStep ==
    ASSUME TypeInv, NEW a \in Nat, NEW b \in Nat, NEW c \in Nat, <<a, b, c>> \in Places
    PROVE  /\ Passed(a, b, c + 1) = Passed(a, b, c) \cup {<<a, b, c>>}
           /\ \A d \in Passed(a, b, c) : Earlier(d, <<a, b, c>>)
<1> DEFINE h == <<a, b, c>>
<1>0. h[1] = a /\ h[2] = b /\ h[3] = c
  OBVIOUS
<1>1. ASSUME NEW d \in Places
      PROVE  Before(d[1], d[2], d[3], a, b, c + 1) <=>
                Before(d[1], d[2], d[3], a, b, c) \/ d = h
  <2>1. d[1] \in Nat /\ d[2] \in Nat /\ d[3] \in Nat /\ d = <<d[1], d[2], d[3]>>
    BY PlaceParts
  <2>2. Before(d[1], d[2], d[3], a, b, c + 1) <=>
           Before(d[1], d[2], d[3], a, b, c) \/ (d[1] = a /\ d[2] = b /\ d[3] = c)
    BY <2>1 DEF Before
  <2>3. (d[1] = a /\ d[2] = b /\ d[3] = c) <=> d = h
    BY <1>0, <2>1, Zenon
  <2> QED  BY <2>2, <2>3
<1>2. \A d \in Passed(a, b, c) : Earlier(d, h)
  <2> HIDE DEF h
  <2> QED  BY <1>0 DEF Passed, Earlier
<1> HIDE DEF h
<1>3. h \in Places
  BY DEF h
<1>4. Passed(a, b, c + 1) = Passed(a, b, c) \cup {h}
  BY <1>1, <1>3 DEF Passed
<1> QED  BY <1>2, <1>4 DEF h

\* After the last parameter of a member comes the next member.
LEMMA PassedMember ==
    ASSUME TypeInv, NEW a \in Nat, NEW b \in Nat, NEW c \in Nat, c > 0,
           Len(doc[a].members[b].params) < c
    PROVE  Passed(a, b + 1, 0) = Passed(a, b, c)
<1>1. ASSUME NEW d \in Places
      PROVE  Before(d[1], d[2], d[3], a, b + 1, 0) <=> Before(d[1], d[2], d[3], a, b, c)
  <2> DEFINE l == Len(MemberAt(d).params)
  <2>1. /\ d[1] \in Nat /\ d[2] \in Nat /\ d[3] \in Nat /\ l \in Nat /\ d[3] <= l
    BY PlaceParts
  <2>2. d[1] = a /\ d[2] = b => l < c
    BY DEF MemberAt
  <2> HIDE DEF l
  <2> QED  BY <2>1, <2>2 DEF Before
<1> QED  BY <1>1, Zenon DEF Passed

\* After the last member of a path comes the next path.
LEMMA PassedPath ==
    ASSUME TypeInv, NEW a \in Nat, NEW b \in Nat, Len(doc[a].members) < b
    PROVE  Passed(a + 1, 0, 0) = Passed(a, b, 0)
<1>1. ASSUME NEW d \in Places
      PROVE  Before(d[1], d[2], d[3], a + 1, 0, 0) <=> Before(d[1], d[2], d[3], a, b, 0)
  <2> DEFINE l == Len(doc[d[1]].members)
  <2>1. /\ d[1] \in Nat /\ d[2] \in Nat /\ d[3] \in Nat /\ l \in Nat /\ d[2] <= l
    BY PlaceParts
  <2>2. d[1] = a => l < b
    OBVIOUS
  <2> HIDE DEF l
  <2> QED  BY <2>1, <2>2 DEF Before
<1> QED  BY <1>1, Zenon DEF Passed

\* Nothing of a path comes before its first member, nothing of the document
\* before its first path, and all of it before the end.
LEMMA PassedEnds ==
    ASSUME TypeInv
    PROVE  /\ \A a \in Nat : Passed(a, 1, 0) = Passed(a, 0, 0)
           /\ Passed(1, 0, 0) = {} /\ Passed(Len(doc) + 1, 0, 0) = Places
<1>1. ASSUME NEW d \in Places
      PROVE  /\ \A a \in Nat : Before(d[1], d[2], d[3], a, 1, 0) <=>
                               Before(d[1], d[2], d[3], a, 0, 0)
             /\ ~Before(d[1], d[2], d[3], 1, 0, 0)
             /\ Before(d[1], d[2], d[3], Len(doc) + 1, 0, 0)
  <2>1. /\ d[1] \in Nat /\ d[2] \in Nat /\ d[3] \in Nat /\ d[1] >= 1 /\ d[2] >= 1
        /\ d[1] <= Len(doc) /\ Len(doc) \in Nat
    BY PlaceParts
  <2> QED  BY <2>1 DEF Before
<1>2. /\ \A a \in Nat : Passed(a, 1, 0) = Passed(a, 0, 0)
  BY <1>1, Zenon DEF Passed
<1>3. Passed(1, 0, 0) = {} /\ Passed(Len(doc) + 1, 0, 0) = Places
  BY <1>1 DEF Passed
<1> QED  BY <1>2, <1>3

\* Of a parameter that has been passed the member has been passed.
LEMMA PassedClosed ==
    ASSUME TypeInv, NEW a \in Nat, NEW b \in Nat, NEW d \in Passed(a, b, 0)
    PROVE  \E e \in Passed(a, b, 0) :
              e[3] = 0 /\ PathAt(e) = PathAt(d) /\ MemberAt(e) = MemberAt(d)
<1> DEFINE e == <<d[1], d[2], 0>>
<1>1. d \in Places /\ Before(d[1], d[2], d[3], a, b, 0)
  BY DEF Passed
<1>2. /\ d[1] \in Nat /\ d[2] \in Nat /\ d[3] \in Nat /\ d[1] \in DOMAIN doc
      /\ d[2] \in DOMAIN doc[d[1]].members /\ Len(doc[d[1]].members[d[2]].params) \in Nat
  BY <1>1, PlaceParts DEF MemberAt
<1>3. e[1] = d[1] /\ e[2] = d[2] /\ e[3] = 0
  OBVIOUS
<1>4. e \in Places
  <2>1. 0 \in 0..Len(doc[d[1]].members[d[2]].params)
    BY <1>2
  <2> QED  BY <1>2, <2>1, PlaceParts
<1> HIDE DEF e
<1>5. Before(e[1], e[2], e[3], a, b, 0)
  BY <1>1, <1>2, <1>3 DEF Before
<1>6. e \in Passed(a, b, 0)
  BY <1>4, <1>5 DEF Passed
<1>7. PathAt(e) = PathAt(d) /\ MemberAt(e) = MemberAt(d)
  BY <1>3, Zenon DEF PathAt, MemberAt
<1> QED  BY <1>3, <1>6, <1>7

-----------------------------------------------------------------------------
\* An element more at the end of a list, of the place after all of the others.
LEMMA ListedMore ==
    ASSUME NEW V, NEW list \in Seq(V), NEW v \in V, NEW D, ListedInOrder(list, D),
           NEW d0, d0 \notin D, \A d \in D : Earlier(d, d0), v.name = ParamAt(d0).name
    PROVE  ListedInOrder(Append(list, v), D \cup {d0})
<1> DEFINE u == Append(list, v)
           l == Len(list)
<1>1. /\ l \in Nat /\ DOMAIN list = 1..l /\ DOMAIN u = 1..(l + 1) /\ u[l + 1] = v
      /\ \A n \in 1..l : u[n] = list[n]
  <2>1. u \in Seq(V) /\ Len(u) = l + 1 /\ u[l + 1] = v
    OBVIOUS
  <2>2. \A n \in 1..l : u[n] = list[n]
    OBVIOUS
  <2>3. l \in Nat /\ DOMAIN list = 1..l
    BY LenProperties
  <2> HIDE DEF u, l
  <2>4. DOMAIN u = 1..(l + 1)
    BY <2>1, LenProperties
  <2> QED  BY <2>1, <2>2, <2>3, <2>4
<1> HIDE DEF u, l
<1>2. /\ \A n \in 1..l : n \in 1..(l + 1) /\ n # l + 1
      /\ \A n \in 1..(l + 1) : n \in 1..l \/ n = l + 1
      /\ l + 1 \in 1..(l + 1)
      /\ \A n \in 1..(l + 1) : ~(l + 1 < n)
  BY <1>1
<1>3. PICK at \in [DOMAIN list -> D] :
          /\ \A d \in D : \E a \in DOMAIN list : at[a] = d
          /\ \A a, b \in DOMAIN list : a < b => Earlier(at[a], at[b])
          /\ \A a \in DOMAIN list : list[a].name = ParamAt(at[a]).name
  BY DEF ListedInOrder
<1> DEFINE new == [n \in 1..(l + 1) |-> IF n = l + 1 THEN d0 ELSE at[n]]
<1>4. /\ new \in [1..(l + 1) -> D \cup {d0}] /\ new[l + 1] = d0
      /\ \A n \in 1..l : new[n] = at[n] /\ at[n] \in D
  BY <1>1, <1>2, <1>3
<1> HIDE DEF new
<1>5. \A d \in D \cup {d0} : \E a \in 1..(l + 1) : new[a] = d
  BY <1>1, <1>2, <1>3, <1>4, Zenon
<1>6. ASSUME NEW a \in 1..(l + 1), NEW b \in 1..(l + 1), a < b
      PROVE  Earlier(new[a], new[b])
  <2>1. a \in 1..l
    BY <1>2, <1>6, Zenon
  <2>2. CASE b = l + 1
    BY <1>4, <2>1, <2>2, Zenon
  <2>3. CASE b \in 1..l
    BY <1>1, <1>3, <1>4, <1>6, <2>1, <2>3, Zenon
  <2> QED  BY <1>2, <2>2, <2>3
<1>7. ASSUME NEW a \in 1..(l + 1)
      PROVE  u[a].name = ParamAt(new[a]).name
  BY <1>1, <1>2, <1>3, <1>4, Zenon
<1>8. ListedInOrder(u, D \cup {d0})
  <2> DEFINE E == 1..(l + 1)
  <2> HIDE DEF E
  <2>1. \E f \in [E -> D \cup {d0}] :
          /\ \A d \in D \cup {d0} : \E a \in E : f[a] = d
          /\ \A a, b \in E : a < b => Earlier(f[a], f[b])
          /\ \A a \in E : u[a].name = ParamAt(f[a]).name
    BY <1>4, <1>5, <1>6, <1>7, Zenon DEF E
  <2>2. DOMAIN u = E
    BY <1>1 DEF E
  <2> QED  BY <2>1, <2>2, Zenon DEF ListedInOrder
<1> QED  BY <1>8 DEF u

\* Nothing is listed of no places.
LEMMA ListedNone == ListedInOrder(<<>>, {})
<1> DEFINE none == [n \in {} |-> 0]
<1>1. DOMAIN <<>> = {}
  OBVIOUS
<1>2. none \in [{} -> {}]
  OBVIOUS
<1> HIDE DEF none
<1>3. \E at \in [{} -> {}] :
          /\ \A d \in {} : \E a \in {} : at[a] = d
          /\ \A a, b \in {} : a < b => Earlier(at[a], at[b])
          /\ \A a \in {} : (<<>>)[a].name = ParamAt(at[a]).name
  BY <1>2
<1> QED  BY <1>1, <1>3 DEF ListedInOrder

\* A place that is not of a route changes nothing for it.
LEMMA ServesElsewhere ==
    ASSUME NEW S, NEW d0, NEW p, NEW m,
           PathAt(d0) # p \/ MemberAt(d0).key \notin KeysOf(m)
    PROVE  \A s : StoreServes(s, S \cup {d0}, p, m) <=> StoreServes(s, S, p, m)
<1>1. MembersFor(S \cup {d0}, p, m) = MembersFor(S, p, m)
  BY DEF MembersFor, MembersOf
<1>2. \A in : Declared(S \cup {d0}, p, m, in) = Declared(S, p, m, in)
  BY DEF Declared
<1> QED  BY <1>1, <1>2, Zenon DEF StoreServes

\* A member adds to the members of a route, and to its parameters nothing.
LEMMA MemberAdds ==
    ASSUME NEW S, NEW d0, d0[3] = 0, NEW p, NEW m, PathAt(d0) = p,
           MemberAt(d0).key \in KeysOf(m)
    PROVE  /\ MembersFor(S \cup {d0}, p, m) = MembersFor(S, p, m) \cup {d0}
           /\ \A in : Declared(S \cup {d0}, p, m, in) = Declared(S, p, m, in)
<1>1. MembersFor(S \cup {d0}, p, m) = MembersFor(S, p, m) \cup {d0}
  BY DEF MembersFor, MembersOf
<1>2. \A in : Declared(S \cup {d0}, p, m, in) = Declared(S, p, m, in)
  <2>1. ~ (d0[3] > 0)
    OBVIOUS
  <2> QED  BY <2>1 DEF Declared
<1> QED  BY <1>1, <1>2

\* A parameter adds to those of its kind, and to the members nothing.
ParameterAdded(S, d0, p, m) ==
    /\ \A n : MembersOf(S \cup {d0}, n) = MembersOf(S, n)
    /\ MembersFor(S \cup {d0}, p, m) = MembersFor(S, p, m)
    /\ \A in : Declared(S \cup {d0}, p, m, in) =
                  IF ParamAt(d0).in = in THEN Declared(S, p, m, in) \cup {d0}
                                         ELSE Declared(S, p, m, in)

\* What a parameter passed adds.
LEMMA ParameterAdds ==
    ASSUME NEW S, NEW d0, d0[3] \in Nat, d0[3] > 0, NEW p, NEW m, PathAt(d0) = p,
           MemberAt(d0).key \in KeysOf(m)
    PROVE  ParameterAdded(S, d0, p, m)
<1>1. d0[3] # 0
  OBVIOUS
<1>2. \A n : MembersOf(S \cup {d0}, n) = MembersOf(S, n)
  BY <1>1 DEF MembersOf
<1>3. MembersFor(S \cup {d0}, p, m) = MembersFor(S, p, m)
  BY <1>2 DEF MembersFor
<1>4. \A in : Declared(S \cup {d0}, p, m, in) =
                 IF ParamAt(d0).in = in THEN Declared(S, p, m, in) \cup {d0}
                                        ELSE Declared(S, p, m, in)
  BY DEF Declared
<1> QED  BY <1>2, <1>3, <1>4, Zenon DEF ParameterAdded

\* What is served is up to the document, the maps and the stores.
LEMMA SameServed ==
    ASSUME UNCHANGED doc
    PROVE  /\ \A a, b, c : Passed(a, b, c)' = Passed(a, b, c)
           /\ Places' = Places
           /\ \A S : Served(S)' <=>
                 \A m \in Methods :
                    /\ DOMAIN routes'[m] = { PathAt(d) : d \in MembersOf(S, m) }
                    /\ \A p \in DOMAIN routes'[m] :
                          StoreServes(stores'[routes'[m][p]], S, p, m)
<1>1. Places' = Places
  BY DEF Places
<1>2. \A a, b, c : Passed(a, b, c)' = Passed(a, b, c)
  BY <1>1 DEF Passed
<1>3. \A d : PathAt(d)' = PathAt(d) /\ MemberAt(d)' = MemberAt(d) /\ ParamAt(d)' = ParamAt(d)
  BY DEF PathAt, MemberAt, ParamAt
<1>4. \A S, m : MembersOf(S, m)' = MembersOf(S, m)
  BY <1>3 DEF MembersOf
<1>5. \A S, p, m : MembersFor(S, p, m)' = MembersFor(S, p, m)
  BY <1>3, <1>4 DEF MembersFor
<1>6. \A S, p, m, in : Declared(S, p, m, in)' = Declared(S, p, m, in)
  BY <1>3 DEF Declared
<1>7. \A s, D : BodyOfFirst(s, D)' <=> BodyOfFirst(s, D)
  BY <1>3, Zenon DEF BodyOfFirst
<1>8. \A list, D : ListedInOrder(list, D)' <=> ListedInOrder(list, D)
  BY <1>3, Zenon DEF ListedInOrder
<1>9. \A s, S, p, m : StoreServes(s, S, p, m)' <=> StoreServes(s, S, p, m)
  <2> SUFFICES ASSUME NEW s, NEW S, NEW p, NEW m
               PROVE  StoreServes(s, S, p, m)' <=> StoreServes(s, S, p, m)
    BY Zenon
  <2>1. { ParamAt(d).name : d \in Declared(S, p, m, "header") }' =
           { ParamAt(d).name : d \in Declared(S, p, m, "header") }
    BY <1>3, <1>6
  <2> QED  BY <1>5, <1>6, <1>7, <1>8, <2>1, Zenon DEF StoreServes
<1>10. ASSUME NEW S
       PROVE  Served(S)' <=>
                 \A m \in Methods :
                    /\ DOMAIN routes'[m] = { PathAt(d) : d \in MembersOf(S, m) }
                    /\ \A p \in DOMAIN routes'[m] :
                          StoreServes(stores'[routes'[m][p]], S, p, m)
  <2>1. \A m : { PathAt(d) : d \in MembersOf(S, m) }' = { PathAt(d) : d \in MembersOf(S, m) }
    BY <1>3, <1>4
  <2> QED  BY <1>9, <2>1, Zenon DEF Served
<1> QED  BY <1>1, <1>2, <1>10, Zenon

\* Where the loops are, as a place.
LEMMA PlaceHere ==
    ASSUME RefsInv
    PROVE  /\ pc \in {"method", "parameters", "insert"} =>
                /\ <<i, j, 0>> \in Places
                /\ PathAt(<<i, j, 0>>) = path /\ MemberAt(<<i, j, 0>>) = member
           /\ pc = "parameters" /\ k < Len(member.params) =>
                /\ <<i, j, k + 1>> \in Places
                /\ PathAt(<<i, j, k + 1>>) = path /\ MemberAt(<<i, j, k + 1>>) = member
                /\ ParamAt(<<i, j, k + 1>>) = param
<1>1. \A c : PathAt(<<i, j, c>>) = path /\ MemberAt(<<i, j, c>>) = member
  BY DEF PathAt, MemberAt, path, member
<1>2. ParamAt(<<i, j, k + 1>>) = param
  <2>1. (<<i, j, k + 1>>)[3] = k + 1
    OBVIOUS
  <2> QED  BY <1>1, <2>1, Zenon DEF ParamAt, param
<1>3. TypeInv
  BY DEF RefsInv
<1>4. pc \in {"method", "parameters", "insert"} => <<i, j, 0>> \in Places
  <2> SUFFICES ASSUME pc \in {"method", "parameters", "insert"}
               PROVE  <<i, j, 0>> \in Places
    OBVIOUS
  <2>1. i \in DOMAIN doc /\ j \in DOMAIN doc[i].members
    BY AtMember
  <2>2. Len(doc[i].members[j].params) \in Nat
    BY <1>3, <2>1, PlaceType
  <2>3. 0 \in 0..Len(doc[i].members[j].params)
    BY <2>2
  <2> QED  BY <1>3, <2>1, <2>3, PlaceParts
<1>5. pc = "parameters" /\ k < Len(member.params) => <<i, j, k + 1>> \in Places
  <2> SUFFICES ASSUME pc = "parameters", k < Len(member.params)
               PROVE  <<i, j, k + 1>> \in Places
    OBVIOUS
  <2>1. i \in DOMAIN doc /\ j \in DOMAIN doc[i].members
    BY AtMember
  <2>2. k + 1 \in 0..Len(doc[i].members[j].params)
    BY AtParameter DEF member
  <2> QED  BY <1>3, <2>1, <2>2, PlaceParts
<1> QED  BY <1>1, <1>2, <1>4, <1>5

\* What is served stays so as long as what was built stays.
LEMMA ServedStays ==
    ASSUME UNCHANGED <<doc, stores, routes>>, NEW S, Served(S)
    PROVE  Served(S)'
<1>1. UNCHANGED <<doc, stores, routes>>
  OBVIOUS
<1>2. Served(S)' <=>
         \A m \in Methods :
            /\ DOMAIN routes'[m] = { PathAt(d) : d \in MembersOf(S, m) }
            /\ \A p \in DOMAIN routes'[m] : StoreServes(stores'[routes'[m][p]], S, p, m)
  BY <1>1, SameServed
<1> QED  BY <1>1, <1>2, Zenon DEF Served

\* A key is one of a single method.
LEMMA OneMethod ==
    ASSUME NEW key, NEW m, NEW n, key \in KeysOf(m), key \in KeysOf(n)
    PROVE  m = n
  BY DEF KeysOf

\* A route without members has no parameters either.
LEMMA NoneDeclared ==
    ASSUME TypeInv, NEW a \in Nat, NEW b \in Nat, NEW p, NEW m,
           MembersFor(Passed(a, b, 0), p, m) = {}
    PROVE  \A in : Declared(Passed(a, b, 0), p, m, in) = {}
<1> SUFFICES ASSUME NEW in, NEW d \in Declared(Passed(a, b, 0), p, m, in)
             PROVE  FALSE
  OBVIOUS
<1>1. d \in Passed(a, b, 0) /\ MemberAt(d).key \in KeysOf(m) /\ PathAt(d) = p
  BY DEF Declared
<1>2. PICK e \in Passed(a, b, 0) :
               e[3] = 0 /\ PathAt(e) = PathAt(d) /\ MemberAt(e) = MemberAt(d)
  BY <1>1, PassedClosed
<1>3. e \in MembersFor(Passed(a, b, 0), p, m)
  BY <1>1, <1>2 DEF MembersFor, MembersOf
<1> QED  BY <1>3

(* The store of a route that has none gets the body validator that its     *)
(* first member asks for; another one leaves the route as it is            *)
(* (oas_validator_imp.cpp:299-342).                                        *)
LEMMA RequestBodyServes ==
    ASSUME RefsInv, RequestBody, Served(Passed(i, j, 0))
    PROVE  Served(Passed(i, j, 1))'
<1> DEFINE S == Passed(i, j, 0)
           d0 == <<i, j, 0>>
           l == Len(stores)
           new == NewStore(IF member.body THEN Push(<<"schema">>) ELSE NoBody)
           m0 == method
           p0 == path
<1>18. pc = "method" /\ member.key \in DOMAIN MethodOf /\ UNCHANGED <<doc, i, j>>
  BY DEF RequestBody
<1>19. /\ d0 \in Places /\ PathAt(d0) = p0 /\ MemberAt(d0) = member /\ d0[3] = 0
      /\ member.key \in KeysOf(m0) /\ m0 \in Methods
  <2>1. d0[3] = 0
    OBVIOUS
  <2> QED  BY <1>18, <2>1, PlaceHere, AtMember
<1>20. TypeInv /\ i \in Nat /\ j \in Nat
  BY DEF RefsInv, TypeInv
<1>21. Passed(i, j, 1) = S \cup {d0} /\ \A d \in S : Earlier(d, d0)
  <2>1. 0 \in Nat /\ 0 + 1 = 1
    OBVIOUS
  <2>2. /\ Passed(i, j, 0 + 1) = Passed(i, j, 0) \cup {<<i, j, 0>>}
        /\ \A d \in Passed(i, j, 0) : Earlier(d, <<i, j, 0>>)
    BY <1>19, <1>20, <2>1, PassedStep
  <2> QED  BY <2>1, <2>2, Zenon
<1>5. /\ l \in Nat /\ (new.body # NoBody <=> member.body)
      /\ \A in \in {"path", "query", "header"} : new[in] = <<>>
      /\ stores'[l + 1] = new /\ DOMAIN stores = 1..l
      /\ \A n \in 1..l : stores'[n] = stores[n]
      /\ \A m \in Methods : m # m0 => routes'[m] = routes[m]
      /\ DOMAIN routes'[m0] = DOMAIN routes[m0] \cup {p0}
      /\ \A p \in DOMAIN routes[m0] : routes'[m0][p] = routes[m0][p]
      /\ p0 \notin DOMAIN routes[m0] => routes'[m0][p0] = l + 1
  BY EmplacedStore
<1>6. \A m \in Methods : MembersOf(S \cup {d0}, m) =
                            IF m = m0 THEN MembersOf(S, m) \cup {d0} ELSE MembersOf(S, m)
  <2>1. \A m : MemberAt(d0).key \in KeysOf(m) <=> m = m0
    BY <1>19, OneMethod, Zenon
  <2> HIDE DEF d0, S, m0
  <2> QED  BY <1>19, <2>1 DEF MembersOf
<1>7. Earlier(d0, d0) = FALSE
  BY <1>19, <1>20, EarlierOrder
<1>8. MembersFor(S, p0, m0) = {} => \A in : Declared(S, p0, m0, in) = {}
  BY <1>20, NoneDeclared
<1> HIDE DEF S, d0, l, new, m0, p0
<1>9. \A m \in Methods : \A p \in DOMAIN routes[m] :
          routes[m][p] \in 1..l /\ stores'[routes[m][p]] = stores[routes[m][p]]
  BY <1>5 DEF RefsInv, OwnStores
<1>10. \A m \in Methods : DOMAIN routes'[m] = { PathAt(d) : d \in MembersOf(S \cup {d0}, m) }
  <2> SUFFICES ASSUME NEW m \in Methods
               PROVE  DOMAIN routes'[m] = { PathAt(d) : d \in MembersOf(S \cup {d0}, m) }
    OBVIOUS
  <2>1. DOMAIN routes[m] = { PathAt(d) : d \in MembersOf(S, m) }
    BY DEF Served, S
  <2>2. CASE m = m0
    <3>1. { PathAt(d) : d \in MembersOf(S, m) \cup {d0} } =
             { PathAt(d) : d \in MembersOf(S, m) } \cup {PathAt(d0)}
      OBVIOUS
    <3> QED  BY <1>19, <1>5, <1>6, <2>1, <2>2, <3>1
  <2>3. CASE m # m0
    BY <1>5, <1>6, <2>1, <2>3
  <2> QED  BY <2>2, <2>3
<1>11. \A m \in Methods : \A p \in DOMAIN routes[m] :
          StoreServes(stores[routes[m][p]], S, p, m)
  BY Zenon DEF Served, S
<1>12. ASSUME NEW m \in Methods, NEW p \in DOMAIN routes'[m], m # m0 \/ p # p0
       PROVE  StoreServes(stores'[routes'[m][p]], S \cup {d0}, p, m)
  <2>1. p \in DOMAIN routes[m] /\ routes'[m][p] = routes[m][p]
    BY <1>5, <1>12
  <2>2. StoreServes(stores'[routes'[m][p]], S, p, m)
    BY <1>9, <1>11, <2>1, Zenon
  <2>3. PathAt(d0) # p \/ MemberAt(d0).key \notin KeysOf(m)
    BY <1>19, <1>12, OneMethod, Zenon
  <2> QED  BY <2>2, <2>3, ServesElsewhere, Zenon
<1>13. /\ MembersFor(S \cup {d0}, p0, m0) = MembersFor(S, p0, m0) \cup {d0}
       /\ \A in : Declared(S \cup {d0}, p0, m0, in) = Declared(S, p0, m0, in)
  BY <1>19, MemberAdds
<1>14. ASSUME p0 \in DOMAIN routes[m0]
       PROVE  StoreServes(stores'[routes'[m0][p0]], S \cup {d0}, p0, m0)
  <2> DEFINE s == stores[routes[m0][p0]]
             D == MembersFor(S, p0, m0)
  <2>1. StoreServes(s, S, p0, m0) /\ stores'[routes'[m0][p0]] = s
    <3>1. routes'[m0][p0] = routes[m0][p0]
      BY <1>5, <1>14, Zenon
    <3>2. stores'[routes[m0][p0]] = s /\ StoreServes(s, S, p0, m0)
      BY <1>19, <1>9, <1>11, <1>14, Zenon
    <3> QED  BY <3>1, <3>2, Zenon
  <2>2. D # {} /\ \A d \in D : Earlier(d, d0)
    <3>1. p0 \in { PathAt(d) : d \in MembersOf(S, m0) }
      BY <1>19, <1>14 DEF Served, S
    <3> QED  BY <1>21, <3>1 DEF MembersFor, MembersOf
  <2> HIDE DEF s, D
  <2>3. BodyOfFirst(s, D)
    BY <2>1 DEF StoreServes, D
  <2>4. BodyOfFirst(s, D \cup {d0})
    BY <2>2, <2>3 DEF BodyOfFirst
  <2>5. StoreServes(s, S \cup {d0}, p0, m0)
    BY <1>13, <2>1, <2>4, Zenon DEF StoreServes, D
  <2> QED  BY <2>1, <2>5, Zenon
<1>15. ASSUME p0 \notin DOMAIN routes[m0]
       PROVE  StoreServes(stores'[routes'[m0][p0]], S \cup {d0}, p0, m0)
  <2>1. MembersFor(S, p0, m0) = {}
    <3>1. p0 \notin { PathAt(d) : d \in MembersOf(S, m0) }
      BY <1>19, <1>15 DEF Served, S
    <3> QED  BY <3>1 DEF MembersFor
  <2>2. \A in : Declared(S, p0, m0, in) = {}
    BY <1>8, <2>1, Zenon
  <2>3. stores'[routes'[m0][p0]] = new
    BY <1>5, <1>15, Zenon
  <2>4. BodyOfFirst(new, {d0})
    BY <1>19, <1>5 DEF BodyOfFirst
  <2>5. MembersFor(S \cup {d0}, p0, m0) = {d0}
    BY <1>13, <2>1
  <2>6. \A in \in {"path", "query", "header"} :
           new[in] = <<>> /\ Declared(S \cup {d0}, p0, m0, in) = {}
    BY <1>5, <1>13, <2>2, Zenon
  <2>7. /\ new.query = <<>> /\ new.path = <<>> /\ new.header = <<>>
        /\ Declared(S \cup {d0}, p0, m0, "query") = {}
        /\ Declared(S \cup {d0}, p0, m0, "path") = {}
        /\ Declared(S \cup {d0}, p0, m0, "header") = {}
    BY <2>6
  <2>8. DOMAIN <<>> = {}
    OBVIOUS
  <2>9. { new.header[a].name : a \in DOMAIN new.header } =
           { ParamAt(d).name : d \in Declared(S \cup {d0}, p0, m0, "header") }
    BY <2>7, <2>8
  <2>10. StoreServes(new, S \cup {d0}, p0, m0)
    BY <2>4, <2>5, <2>7, <2>8, <2>9, ListedNone, Zenon DEF StoreServes, NamedApart
  <2> QED  BY <2>3, <2>10, Zenon
<1>16. \A R : R = S \cup {d0} => Served(R)'
  <2> SUFFICES ASSUME NEW R, R = S \cup {d0}
               PROVE  Served(R)'
    OBVIOUS
  <2>1. Served(R)' <=>
           \A m \in Methods :
              /\ DOMAIN routes'[m] = { PathAt(d) : d \in MembersOf(R, m) }
              /\ \A p \in DOMAIN routes'[m] : StoreServes(stores'[routes'[m][p]], R, p, m)
    BY <1>18, SameServed
  <2>2. ASSUME NEW m \in Methods, NEW p \in DOMAIN routes'[m]
        PROVE  StoreServes(stores'[routes'[m][p]], R, p, m)
    BY <1>12, <1>14, <1>15, Zenon
  <2>3. \A m \in Methods : DOMAIN routes'[m] = { PathAt(d) : d \in MembersOf(R, m) }
    BY <1>10
  <2> QED  BY <2>1, <2>2, <2>3, Zenon
<1>17. Passed(i, j, 1)' = S \cup {d0}
  BY <1>18, <1>21, SameServed, Zenon
<1> QED  BY <1>16, <1>17, Zenon

\* A list of a store can be set, and the others stay.
LEMMA StoreWith ==
    ASSUME NEW s \in StoreType, NEW in \in {"path", "query", "header"}, NEW list
    PROVE  LET t == [s EXCEPT ![in] = list]
           IN  /\ t.body = s.body /\ t[in] = list
               /\ in = "path" => t.path = list /\ t.query = s.query /\ t.header = s.header
               /\ in = "query" => t.query = list /\ t.path = s.path /\ t.header = s.header
               /\ in = "header" => t.header = list /\ t.path = s.path /\ t.query = s.query
  BY DEF StoreType

\* The list u has the names of another one and a name.
NamesAdded(u, list, name) ==
    /\ NamedApart(u)
    /\ { u[a].name : a \in DOMAIN u } = { list[a].name : a \in DOMAIN list } \cup {name}

\* A list that knows a name stays, and any other gets the validator with it.
LEMMA NamedMore ==
    ASSUME NEW V, NEW list \in Seq(V), NEW v \in V, NamedApart(list),
           NEW u, u = IF Knows(list, v.name) THEN list ELSE Append(list, v)
    PROVE  NamesAdded(u, list, v.name)
<1> DEFINE l == Len(list)
           t == Append(list, v)
<1>18. /\ l \in Nat /\ DOMAIN list = 1..l /\ DOMAIN t = 1..(l + 1) /\ t[l + 1] = v
      /\ \A n \in 1..l : t[n] = list[n]
  <2>1. t \in Seq(V) /\ Len(t) = l + 1 /\ t[l + 1] = v
    OBVIOUS
  <2>2. \A n \in 1..l : t[n] = list[n]
    OBVIOUS
  <2>3. l \in Nat /\ DOMAIN list = 1..l
    BY LenProperties
  <2> HIDE DEF t, l
  <2>4. DOMAIN t = 1..(l + 1)
    BY <2>1, LenProperties
  <2> QED  BY <2>1, <2>2, <2>3, <2>4
<1>19. Knows(list, v.name) <=> \E n \in DOMAIN list : list[n].name = v.name
  BY <1>18 DEF Knows, l
<1> HIDE DEF l, t
<1>20. CASE Knows(list, v.name)
  BY <1>19, <1>20 DEF NamesAdded
<1>21. CASE ~Knows(list, v.name)
  <2>1. /\ \A n \in 1..l : n \in 1..(l + 1)
        /\ \A n \in 1..(l + 1) : n \in 1..l \/ n = l + 1
        /\ l + 1 \in 1..(l + 1)
    BY <1>18
  <2>2. NamedApart(t)
    <3> SUFFICES ASSUME NEW a \in 1..(l + 1), NEW b \in 1..(l + 1), t[a].name = t[b].name
                 PROVE  a = b
      BY <1>18, Zenon DEF NamedApart
    <3>1. CASE a \in 1..l /\ b \in 1..l
      BY <1>18, <3>1, Zenon DEF NamedApart
    <3>2. CASE a = l + 1 /\ b \in 1..l
      BY <1>18, <1>19, <1>21, <3>2, Zenon
    <3>3. CASE b = l + 1 /\ a \in 1..l
      BY <1>18, <1>19, <1>21, <3>3, Zenon
    <3>4. CASE a = l + 1 /\ b = l + 1
      BY <3>4
    <3> QED  BY <2>1, <3>1, <3>2, <3>3, <3>4, Zenon
  <2>3. { t[a].name : a \in DOMAIN t } = { list[a].name : a \in DOMAIN list } \cup {v.name}
    BY <1>18, <2>1
  <2> QED  BY <1>21, <2>2, <2>3, Zenon DEF t, NamesAdded
<1> QED  BY <1>20, <1>21

(* A parameter changes the store of its own route only: if that serves the *)
(* parameter as well, all that has been passed is served.                  *)
LEMMA AddServes ==
    ASSUME RefsInv, NEW in \in {"path", "query", "header"}, AtParam(in),
           NEW list, Add(in, list), Served(Passed(i, j, k + 1)),
           StoreServes([stores[store] EXCEPT ![in] = list],
                       Passed(i, j, k + 1) \cup {<<i, j, k + 1>>}, path, method)
    PROVE  Served(Passed(i, j, k + 1))'
<1> DEFINE S == Passed(i, j, k + 1)
           d0 == <<i, j, k + 1>>
           new == [stores[store] EXCEPT ![in] = list]
           m0 == method
           p0 == path
<1>1. /\ pc = "parameters" /\ k < Len(member.params) /\ param.in = in /\ k' = k + 1
      /\ UNCHANGED <<doc, i, j, routes>>
  BY DEF AtParam, Add
<1>2. /\ d0 \in Places /\ PathAt(d0) = p0 /\ MemberAt(d0) = member /\ d0[3] = k + 1
      /\ member.key \in KeysOf(m0) /\ m0 \in Methods /\ p0 \in DOMAIN routes[m0]
  <2>1. d0[3] = k + 1
    OBVIOUS
  <2>2. member.key \in DOMAIN MethodOf
    BY <1>1 DEF RefsInv, Position
  <2> QED  BY <1>1, <2>1, <2>2, PlaceHere, AtMember, AtParameter
<1>3. TypeInv /\ i \in Nat /\ j \in Nat /\ k \in Nat /\ k + 1 \in Nat /\ k + 1 > 0
  BY DEF RefsInv, TypeInv
<1>4. Passed(i, j, k + 1 + 1) = S \cup {d0}
  BY <1>2, <1>3, PassedStep, Zenon
<1>5. stores' = [stores EXCEPT ![store] = new] /\ store \in DOMAIN stores
      /\ store = routes[m0][p0]
  <2>1. stores' = [stores EXCEPT ![store][in] = list]
    BY DEF Add
  <2> QED  BY <1>1, <2>1, AtParameter DEF store
<1>6. \A m \in Methods : MembersOf(S \cup {d0}, m) = MembersOf(S, m)
  <2>1. d0[3] \in Nat /\ d0[3] > 0
    BY <1>2, <1>3
  <2> HIDE DEF d0, S, p0, m0
  <2> QED  BY <1>2, <2>1, ParameterAdds, Zenon DEF ParameterAdded
<1>7. StoreServes(new, S \cup {d0}, p0, m0)
  OBVIOUS
<1> HIDE DEF S, d0, new, m0, p0
<1>8. stores'[store] = new /\ \A n \in DOMAIN stores : n # store => stores'[n] = stores[n]
  BY <1>5
<1>9. ASSUME NEW m \in Methods
      PROVE  DOMAIN routes[m] = { PathAt(d) : d \in MembersOf(S \cup {d0}, m) }
  BY <1>6 DEF Served, S
<1>10. ASSUME NEW m \in Methods, NEW p \in DOMAIN routes[m], m # m0 \/ p # p0
       PROVE  StoreServes(stores'[routes[m][p]], S \cup {d0}, p, m)
  <2>1. routes[m][p] \in DOMAIN stores /\ routes[m][p] # store
    <3>1. OwnStores
      BY DEF RefsInv
    <3>2. routes[m][p] = routes[m0][p0] => m = m0 /\ p = p0
      BY <1>2, <3>1 DEF OwnStores
    <3> QED  BY <1>5, <1>10, <3>1, <3>2, Zenon DEF OwnStores
  <2>2. StoreServes(stores[routes[m][p]], S, p, m)
    BY Zenon DEF Served, S
  <2>3. StoreServes(stores'[routes[m][p]], S, p, m)
    BY <1>8, <2>1, <2>2, Zenon
  <2>4. PathAt(d0) # p \/ MemberAt(d0).key \notin KeysOf(m)
    BY <1>2, <1>10, OneMethod, Zenon
  <2> QED  BY <2>3, <2>4, ServesElsewhere, Zenon
<1>11. \A R : R = S \cup {d0} => Served(R)'
  <2> SUFFICES ASSUME NEW R, R = S \cup {d0}
               PROVE  Served(R)'
    OBVIOUS
  <2>1. Served(R)' <=>
           \A m \in Methods :
              /\ DOMAIN routes'[m] = { PathAt(d) : d \in MembersOf(R, m) }
              /\ \A p \in DOMAIN routes'[m] : StoreServes(stores'[routes'[m][p]], R, p, m)
    BY <1>1, SameServed
  <2>2. ASSUME NEW m \in Methods, NEW p \in DOMAIN routes[m]
        PROVE  StoreServes(stores'[routes[m][p]], R, p, m)
    BY <1>5, <1>7, <1>8, <1>10, Zenon
  <2>3. \A m \in Methods : DOMAIN routes[m] = { PathAt(d) : d \in MembersOf(R, m) }
    BY <1>9
  <2> QED  BY <1>1, <2>1, <2>2, <2>3, Zenon
<1>12. Passed(i, j, k + 1)' = S \cup {d0}
  BY <1>1, <1>4, SameServed, Zenon
<1> QED  BY <1>11, <1>12, Zenon

(* The validator of the parameter gone through comes last in its list, as  *)
(* the parameter does among those passed; one in the path has the index of *)
(* its template, and one in a header adds its name once                    *)
(* (validators_store.cpp:17-36).                                           *)
LEMMA AddParamServes ==
    ASSUME RefsInv, Served(Passed(i, j, k + 1)),
           AddPathParam \/ AddQueryParam \/ AddHeaderParam
    PROVE  Served(Passed(i, j, k + 1))'
<1> DEFINE S == Passed(i, j, k + 1)
           d0 == <<i, j, k + 1>>
           s == stores[store]
           D(in) == Declared(S, path, method, in)
<1>1. pc = "parameters" /\ k < Len(member.params)
  BY DEF AddPathParam, AddQueryParam, AddHeaderParam, AtParam
<1>2. /\ d0 \in Places /\ PathAt(d0) = path /\ MemberAt(d0) = member /\ ParamAt(d0) = param
      /\ d0[3] \in Nat /\ d0[3] > 0
      /\ member.key \in KeysOf(method) /\ method \in Methods /\ path \in DOMAIN routes[method]
      /\ s \in StoreType /\ param.name \in STRING /\ Push(<<param.name>>) \in Seq(Key)
  <2>1. d0[3] = k + 1 /\ k \in Nat
    BY DEF RefsInv, TypeInv
  <2>2. d0[3] \in Nat /\ d0[3] > 0
    BY <2>1
  <2>3. member.key \in DOMAIN MethodOf
    BY <1>1 DEF RefsInv, Position
  <2> QED  BY <1>1, <2>2, <2>3, PlaceHere, AtMember, AtParameter
<1>3. \A d \in S : Earlier(d, d0)
  <2>1. TypeInv /\ i \in Nat /\ j \in Nat /\ k + 1 \in Nat
    BY DEF RefsInv, TypeInv
  <2> QED  BY <1>2, <2>1, PassedStep, Zenon
<1>4. d0 \notin S
  <2>1. TypeInv
    BY DEF RefsInv
  <2>2. ~Earlier(d0, d0)
    BY <1>2, <2>1, EarlierOrder
  <2> QED  BY <1>3, <2>2, Zenon
<1>5. StoreServes(s, S, path, method)
  BY <1>2, Zenon DEF Served, store
<1>6. \A in : d0 \notin D(in) /\ \A d \in D(in) : Earlier(d, d0)
  BY <1>3, <1>4 DEF Declared
<1>7. /\ MembersFor(S \cup {d0}, path, method) = MembersFor(S, path, method)
      /\ \A in : Declared(S \cup {d0}, path, method, in) =
                    IF param.in = in THEN D(in) \cup {d0} ELSE D(in)
  <2> HIDE DEF S, d0
  <2>1. MemberAt(d0).key \in KeysOf(method)
    BY <1>2, Zenon
  <2>2. ParameterAdded(S, d0, path, method)
    BY <1>2, <2>1, ParameterAdds, Zenon
  <2> QED  BY <1>2, <2>2, Zenon DEF ParameterAdded
<1> HIDE DEF S, d0, s
<1>8. ASSUME NEW in \in {"path", "query", "header"}, AtParam(in), NEW t,
             MembersFor(S \cup {d0}, path, method) = MembersFor(S, path, method),
             t.body = s.body, ListedInOrder(t.query, Declared(S \cup {d0}, path, method, "query")),
             ListedInOrder(t.path, Declared(S \cup {d0}, path, method, "path")),
             \A a \in DOMAIN t.path : path[t.path[a].idx + 1] = t.path[a].name,
             { t.header[a].name : a \in DOMAIN t.header } =
               { ParamAt(d).name : d \in Declared(S \cup {d0}, path, method, "header") },
             NamedApart(t.header)
      PROVE  StoreServes(t, S \cup {d0}, path, method)
  <2>1. BodyOfFirst(t, MembersFor(S, path, method))
    BY <1>5, <1>8, Zenon DEF StoreServes, BodyOfFirst
  <2> QED  BY <1>8, <2>1, Zenon DEF StoreServes
<1>9. CASE AddPathParam
  <2> DEFINE v == AtIndex(PathParamIndices(path)[param.name])
             list == Append(s.path, v)
             t == [s EXCEPT !["path"] = list]
  <2>1. AtParam("path") /\ Add("path", list) /\ param.name \in DOMAIN PathParamIndices(path)
        /\ param.in = "path"
    BY <1>9 DEF AddPathParam, AtParam, s
  <2>2. path \in Path
    BY <1>1, AtMember
  <2>3. v \in PathParamValidatorType /\ v.name = param.name
        /\ v.idx = PathParamIndices(path)[param.name]
    <3>1. param.name \in Params
      BY <2>1, <2>2, IndexedNames
    <3>2. PathParamIndices(path)[param.name] \in Index
      BY <2>2, <3>1 DEF Index
    <3> QED  BY <1>2, <3>2 DEF AtIndex, PathParamValidatorType
  <2>4. path[v.idx + 1] = v.name
    BY <2>1, <2>2, <2>3, IndexIsPlace
  <2> HIDE DEF v
  <2>5. s.path \in Seq(PathParamValidatorType)
    BY <1>2 DEF StoreType
  <2>6. ListedInOrder(list, D("path") \cup {d0})
    <3>1. ListedInOrder(s.path, D("path"))
      BY <1>5 DEF StoreServes
    <3> HIDE DEF D
    <3> QED  BY <1>2, <1>6, <2>3, <2>5, <3>1, ListedMore
  <2>7. \A a \in DOMAIN list : path[list[a].idx + 1] = list[a].name
    <3>1. \A a \in DOMAIN s.path : path[s.path[a].idx + 1] = s.path[a].name
      BY <1>5 DEF StoreServes
    <3>2. \A a \in DOMAIN list : (\E b \in DOMAIN s.path : list[a] = s.path[b]) \/ list[a] = v
      BY <2>3, <2>5, AppendedList
    <3> HIDE DEF list
    <3> QED  BY <2>4, <3>1, <3>2, Zenon
  <2> HIDE DEF list
  <2>8. t.body = s.body /\ t.path = list /\ t.query = s.query /\ t.header = s.header
    BY <1>2, StoreWith
  <2> HIDE DEF t
  <2>9. /\ Declared(S \cup {d0}, path, method, "path") = D("path") \cup {d0}
        /\ Declared(S \cup {d0}, path, method, "query") = D("query")
        /\ Declared(S \cup {d0}, path, method, "header") = D("header")
    BY <1>7, <2>1
  <2>10. /\ ListedInOrder(s.query, D("query")) /\ NamedApart(s.header)
         /\ { s.header[a].name : a \in DOMAIN s.header } =
               { ParamAt(d).name : d \in D("header") }
    BY <1>5, Zenon DEF StoreServes
  <2>11. StoreServes(t, S \cup {d0}, path, method)
    <3> HIDE DEF D
    <3>1. /\ ListedInOrder(t.query, Declared(S \cup {d0}, path, method, "query"))
          /\ ListedInOrder(t.path, Declared(S \cup {d0}, path, method, "path"))
      BY <2>6, <2>8, <2>9, <2>10, Zenon
    <3>2. \A a \in DOMAIN t.path : path[t.path[a].idx + 1] = t.path[a].name
      BY <2>7, <2>8, Zenon
    <3>3. /\ NamedApart(t.header)
          /\ { t.header[a].name : a \in DOMAIN t.header } =
                { ParamAt(d).name : d \in Declared(S \cup {d0}, path, method, "header") }
      BY <2>8, <2>9, <2>10, Zenon
    <3> QED  BY <1>7, <1>8, <2>1, <2>8, <3>1, <3>2, <3>3, Zenon
  <2> QED  BY <2>1, <2>11, AddServes DEF S, d0, s, t
<1>10. ASSUME AtParam("query") \/ AtParam("header")
       PROVE  Validator \in ParamValidatorType /\ Validator.name = param.name
  BY <1>2 DEF Validator, ParamValidatorType
<1>11. CASE AddQueryParam
  <2> DEFINE list == Append(s.query, Validator)
             t == [s EXCEPT !["query"] = list]
  <2>1. AtParam("query") /\ Add("query", list) /\ param.in = "query"
    BY <1>11 DEF AddQueryParam, AtParam, s
  <2>2. s.query \in Seq(ParamValidatorType)
    BY <1>2 DEF StoreType
  <2>3. ListedInOrder(list, D("query") \cup {d0})
    <3>1. ListedInOrder(s.query, D("query"))
      BY <1>5 DEF StoreServes
    <3> HIDE DEF D
    <3> QED  BY <1>2, <1>6, <1>10, <2>1, <2>2, <3>1, ListedMore
  <2> HIDE DEF list
  <2>4. t.body = s.body /\ t.query = list /\ t.path = s.path /\ t.header = s.header
    BY <1>2, StoreWith
  <2> HIDE DEF t
  <2>5. /\ Declared(S \cup {d0}, path, method, "query") = D("query") \cup {d0}
        /\ Declared(S \cup {d0}, path, method, "path") = D("path")
        /\ Declared(S \cup {d0}, path, method, "header") = D("header")
    BY <1>7, <2>1
  <2>6. /\ ListedInOrder(s.path, D("path")) /\ NamedApart(s.header)
        /\ \A a \in DOMAIN s.path : path[s.path[a].idx + 1] = s.path[a].name
        /\ { s.header[a].name : a \in DOMAIN s.header } =
              { ParamAt(d).name : d \in D("header") }
    BY <1>5, Zenon DEF StoreServes
  <2>7. StoreServes(t, S \cup {d0}, path, method)
    <3> HIDE DEF D
    <3> QED  BY <1>7, <1>8, <2>1, <2>3, <2>4, <2>5, <2>6, Zenon
  <2> QED  BY <2>1, <2>7, AddServes DEF S, d0, s, t
<1>12. CASE AddHeaderParam
  <2> DEFINE list == IF Knows(s.header, param.name) THEN s.header
                                                    ELSE Append(s.header, Validator)
             t == [s EXCEPT !["header"] = list]
  <2>1. AtParam("header") /\ Add("header", list) /\ param.in = "header"
    BY <1>12 DEF AddHeaderParam, AtParam, s
  <2>2. s.header \in Seq(ParamValidatorType)
    BY <1>2 DEF StoreType
  <2>3. /\ NamedApart(s.header)
        /\ { s.header[a].name : a \in DOMAIN s.header } =
              { ParamAt(d).name : d \in D("header") }
    BY <1>5, Zenon DEF StoreServes
  <2>4. /\ NamedApart(list)
        /\ { list[a].name : a \in DOMAIN list } =
              { s.header[a].name : a \in DOMAIN s.header } \cup {param.name}
    <3>1. Validator \in ParamValidatorType /\ Validator.name = param.name
      BY <1>10, <2>1
    <3>2. list = IF Knows(s.header, Validator.name) THEN s.header
                                                    ELSE Append(s.header, Validator)
      BY <3>1
    <3> HIDE DEF list
    <3>3. /\ NamedApart(list)
          /\ { list[a].name : a \in DOMAIN list } =
                { s.header[a].name : a \in DOMAIN s.header } \cup {Validator.name}
      <4>1. NamesAdded(list, s.header, Validator.name)
        BY <2>2, <2>3, <3>1, <3>2, NamedMore, Zenon
      <4> QED  BY <4>1, Zenon DEF NamesAdded
    <3> QED  BY <3>1, <3>3
  <2>5. { list[a].name : a \in DOMAIN list } = { ParamAt(d).name : d \in D("header") \cup {d0} }
    <3>1. { ParamAt(d).name : d \in D("header") \cup {d0} } =
             { ParamAt(d).name : d \in D("header") } \cup {param.name}
      BY <1>2
    <3> QED  BY <2>3, <2>4, <3>1
  <2> HIDE DEF list
  <2>6. t.body = s.body /\ t.header = list /\ t.path = s.path /\ t.query = s.query
    BY <1>2, StoreWith
  <2> HIDE DEF t
  <2>7. /\ Declared(S \cup {d0}, path, method, "header") = D("header") \cup {d0}
        /\ Declared(S \cup {d0}, path, method, "path") = D("path")
        /\ Declared(S \cup {d0}, path, method, "query") = D("query")
    BY <1>7, <2>1
  <2>8. /\ ListedInOrder(s.path, D("path")) /\ ListedInOrder(s.query, D("query"))
        /\ \A a \in DOMAIN s.path : path[s.path[a].idx + 1] = s.path[a].name
    BY <1>5, Zenon DEF StoreServes
  <2>9. StoreServes(t, S \cup {d0}, path, method)
    <3> HIDE DEF D
    <3> QED  BY <1>7, <1>8, <2>1, <2>4, <2>5, <2>6, <2>7, <2>8, Zenon
  <2> QED  BY <2>1, <2>9, AddServes DEF S, d0, s, t
<1> QED  BY <1>9, <1>11, <1>12

(* Before ProcessPath is called there are no routes, and nothing of the     *)
(* document has been passed (oas_validator_imp.cpp:25-27).                  *)
THEOREM ServedInitInv == Init => ServedInv
<1> SUFFICES ASSUME Init
             PROVE  ServedInv
  OBVIOUS
<1>1. TypeInv
  BY RefsInitInv DEF RefsInv
<1>2. pc = "paths" /\ i = 0 /\ outcome = "NONE" /\ routes = [m \in Methods |-> [p \in {} |-> 0]]
  BY DEF Init
<1>3. Passed(i + 1, 0, 0) = {}
  <2>1. i + 1 = 1
    BY <1>2
  <2> QED  BY <1>1, <2>1, PassedEnds, Zenon
<1>4. Served({})
  <2>1. \A m \in Methods : DOMAIN routes[m] = {}
    BY <1>2
  <2>2. \A m : { PathAt(d) : d \in MembersOf({}, m) } = {}
    BY DEF MembersOf
  <2> QED  BY <2>1, <2>2, Zenon DEF Served
<1>5. Served(Passed(i + 1, 0, 0))
  BY <1>3, <1>4
<1> QED  BY <1>2, <1>5 DEF ServedInv, DocumentIsServed

(* Every step leaves behind it only members and parameters that are        *)
(* served, until all of the document is.                                   *)
THEOREM ServedNextInv == RefsInv /\ ServedInv /\ [Next]_vars => ServedInv'
<1> SUFFICES ASSUME RefsInv, ServedInv, [Next]_vars
             PROVE  ServedInv'
  OBVIOUS
<1>0. TypeInv /\ i \in Nat /\ j \in Nat /\ k \in Nat /\ Len(doc) \in Nat
  <2>1. Len(doc) \in Nat
    BY DocumentsAssumption, LenProperties DEF RefsInv, TypeInv
  <2> QED  BY <2>1 DEF RefsInv, TypeInv
<1>s. ASSUME UNCHANGED <<doc, stores, routes>>
      PROVE  /\ \A a, b, c : Served(Passed(a, b, c)) => Served(Passed(a, b, c))'
             /\ Served(Places) => Served(Places)'
  <2>1. /\ \A a, b, c : Passed(a, b, c)' = Passed(a, b, c)
        /\ Places' = Places
    BY <1>s, SameServed
  <2>2. \A S : Served(S) => Served(S)'
    BY <1>s, ServedStays
  <2> QED  BY <2>1, <2>2, Zenon
<1>1. CASE EnterPath
  <2>1. /\ pc = "paths" /\ pc' = "members" /\ i' = i + 1 /\ j' = 0 /\ outcome' = outcome
        /\ UNCHANGED <<doc, stores, routes>> /\ outcome # "OK"
    BY <1>1 DEF EnterPath, built, RefsInv, Position
  <2>2. Served(Passed(i + 1, 1, 0))
    <3>1. i + 1 \in Nat
      BY <1>0
    <3>2. Passed(i + 1, 1, 0) = Passed(i + 1, 0, 0)
      BY <1>0, <3>1, PassedEnds
    <3> QED  BY <2>1, <3>2 DEF ServedInv
  <2>3. 0 + 1 = 1
    OBVIOUS
  <2>4. Served(Passed(i', j' + 1, 0))
    BY <2>1, <2>2, <2>3, Zenon
  <2>5. Served(Passed(i, j + 1, 0))'
    BY <1>s, <2>1, <2>4, Zenon
  <2> QED  BY <2>1, <2>5 DEF ServedInv, DocumentIsServed
<1>2. CASE LeavePath
  <2>1. /\ pc = "members" /\ pc' = "paths" /\ i' = i /\ j = Len(doc[i].members)
        /\ UNCHANGED <<doc, stores, routes>> /\ outcome' = outcome /\ outcome # "OK"
    BY <1>2 DEF LeavePath, built, RefsInv, Position
  <2>2. Served(Passed(i, j + 1, 0)) /\ Len(doc[i].members) < j + 1 /\ j + 1 \in Nat
    BY <1>0, <2>1 DEF ServedInv
  <2>3. Served(Passed(i + 1, 0, 0))
    BY <1>0, <2>2, PassedPath
  <2>4. Served(Passed(i + 1, 0, 0))'
    BY <1>s, <2>1, <2>3, Zenon
  <2> QED  BY <2>1, <2>4 DEF ServedInv, DocumentIsServed
<1>3. CASE EnterMethod
  <2>1. /\ pc = "members" /\ pc' = "method" /\ i' = i /\ j' = j + 1
        /\ UNCHANGED <<doc, stores, routes>> /\ outcome' = outcome /\ outcome # "OK"
    BY <1>3 DEF EnterMethod, built, RefsInv, Position
  <2>2. Served(Passed(i, j + 1, 0))
    BY <2>1 DEF ServedInv
  <2>3. Served(Passed(i, j, 0))'
    BY <1>s, <2>1, <2>2, Zenon
  <2> QED  BY <2>1, <2>3 DEF ServedInv, DocumentIsServed
<1>4. CASE RequestBody
  <2>1. /\ pc = "method" /\ UNCHANGED <<doc, i, j>> /\ k' = 0
        /\ \/ pc' = "insert" /\ member.params = <<>>
           \/ pc' = "parameters"
        /\ outcome' = outcome /\ outcome # "OK"
    BY <1>4 DEF RequestBody, RefsInv, Position
  <2>2. Served(Passed(i, j, 1))'
    BY <1>4, <2>1, RequestBodyServes DEF ServedInv
  <2>3. CASE pc' = "parameters"
    <3>1. k' + 1 = 1
      BY <2>1
    <3>2. Served(Passed(i, j, k + 1))'
      BY <2>2, <3>1, Zenon
    <3> QED  BY <2>1, <2>3, <3>2 DEF ServedInv, DocumentIsServed
  <2>4. CASE pc' = "insert" /\ member.params = <<>>
    <3>1. Len(doc[i].members[j].params) < 1 /\ 1 \in Nat /\ 1 > 0
      BY <2>4 DEF member
    <3>2. Passed(i, j + 1, 0) = Passed(i, j, 1)
      BY <1>0, <3>1, PassedMember
    <3>3. \A a, b, c : Passed(a, b, c)' = Passed(a, b, c)
      BY <2>1, SameServed
    <3>4. Passed(i, j + 1, 0)' = Passed(i, j, 1)'
      BY <2>1, <3>2, <3>3, Zenon
    <3>5. Served(Passed(i, j + 1, 0))'
      BY <2>2, <3>4, Zenon
    <3> QED  BY <2>1, <2>4, <3>5 DEF ServedInv, DocumentIsServed
  <2> QED  BY <2>1, <2>3, <2>4
<1>5. CASE AddPathParam \/ AddQueryParam \/ AddHeaderParam
  <2>1. pc = "parameters" /\ pc' = pc /\ outcome' = outcome /\ outcome # "OK"
    BY <1>5 DEF AddPathParam, AddQueryParam, AddHeaderParam, AtParam, Add, RefsInv, Position
  <2>2. Served(Passed(i, j, k + 1))'
    BY <1>5, <2>1, AddParamServes DEF ServedInv
  <2> QED  BY <2>1, <2>2 DEF ServedInv, DocumentIsServed
<1>6. CASE LeaveParameters
  <2>1. /\ pc = "parameters" /\ pc' = "insert" /\ k = Len(member.params)
        /\ UNCHANGED <<doc, i, j, stores, routes>> /\ outcome' = outcome /\ outcome # "OK"
    BY <1>6 DEF LeaveParameters, built, RefsInv, Position
  <2>2. Len(doc[i].members[j].params) < k + 1 /\ k + 1 \in Nat /\ k + 1 > 0
    <3>1. k < k + 1 /\ k + 1 \in Nat /\ k + 1 > 0
      BY <1>0
    <3> QED  BY <2>1, <3>1, Zenon DEF member
  <2>3. Passed(i, j + 1, 0) = Passed(i, j, k + 1)
    BY <1>0, <2>2, PassedMember
  <2>4. Served(Passed(i, j + 1, 0))
    BY <2>1, <2>3 DEF ServedInv
  <2>5. Served(Passed(i, j + 1, 0))'
    BY <1>s, <2>1, <2>4, Zenon
  <2> QED  BY <2>1, <2>5 DEF ServedInv, DocumentIsServed
<1>7. CASE InsertPath
  <2>1. /\ pc = "insert" /\ pc' = "members"
        /\ UNCHANGED <<doc, i, j, stores, routes>> /\ outcome' = outcome /\ outcome # "OK"
    BY <1>7 DEF InsertPath, RefsInv, Position
  <2>2. Served(Passed(i, j + 1, 0))
    BY <2>1 DEF ServedInv
  <2>3. Served(Passed(i, j + 1, 0))'
    BY <1>s, <2>1, <2>2, Zenon
  <2> QED  BY <2>1, <2>3 DEF ServedInv, DocumentIsServed
<1>8. CASE Finish
  <2>1. /\ pc = "paths" /\ pc' = "done" /\ i = Len(doc)
        /\ UNCHANGED <<doc, stores, routes>>
    BY <1>8 DEF Finish, built
  <2>2. Served(Places)
    <3>1. Passed(i + 1, 0, 0) = Places
      BY <1>0, <2>1, PassedEnds
    <3> QED  BY <2>1, <3>1 DEF ServedInv
  <2>3. Served(Places)'
    BY <1>s, <2>1, <2>2
  <2> QED  BY <2>1, <2>3 DEF ServedInv, DocumentIsServed
<1>9. CASE UnknownKey \/ NotInPath \/ BadParam
  <2>1. pc' = "done" /\ outcome' # "OK"
    BY <1>9 DEF UnknownKey, NotInPath, BadParam, Throw
  <2> QED  BY <2>1 DEF ServedInv, DocumentIsServed
<1>10. CASE UNCHANGED vars
  <2>1. UNCHANGED <<doc, pc, i, j, k, stores, routes, outcome>>
    BY <1>10 DEF vars, built
  <2>2. DocumentIsServed'
    BY <1>s, <2>1, Zenon DEF ServedInv, DocumentIsServed
  <2>3. /\ pc' = "paths" => Served(Passed(i + 1, 0, 0))'
        /\ pc' \in {"members", "insert"} => Served(Passed(i, j + 1, 0))'
        /\ pc' = "method" => Served(Passed(i, j, 0))'
        /\ pc' = "parameters" => Served(Passed(i, j, k + 1))'
    BY <1>s, <2>1, Zenon DEF ServedInv
  <2> QED  BY <2>2, <2>3 DEF ServedInv
<1> QED
  BY <1>1, <1>2, <1>3, <1>4, <1>5, <1>6, <1>7, <1>8, <1>9, <1>10
     DEF Next, ProcessMethod, AddParamValidators

(* A constructed OASValidator serves its document: it has its routes and,  *)
(* behind each, the validators of what is declared there, in their order   *)
(* (oas_validator_imp.cpp:285-315, validators_store.cpp:17-36).            *)
THEOREM DocumentServed == Spec => []DocumentIsServed
<1>1. Spec => [](RefsInv /\ ServedInv)
  BY RefsInitInv, RefsNextInv, ServedInitInv, ServedNextInv, PTL DEF Spec
<1>2. ServedInv => DocumentIsServed
  BY DEF ServedInv
<1> QED  BY <1>1, <1>2, PTL

-----------------------------------------------------------------------------
(* SpecLoader implements the loading of Router: what the loops have built  *)
(* is what they had built before the path they are at, and the path.       *)

PathsUpTo(n) == { doc[a].path : a \in 1..n }

\* The trie of m once the path is in it, if m has the path.
Grown(m) == IF path \in DOMAIN routes[m] /\ HasPathParam(path)
            THEN Insert(whole.trie[m], path)
            ELSE whole.trie[m]

\* There is a map and a trie for every method, and for nothing else.
PerMethod ==
    /\ whole.routes = [m \in Methods |-> whole.routes[m]]
    /\ whole.trie = [m \in Methods |-> whole.trie[m]]
    /\ trie = [m \in Methods |-> trie[m]]

LoadInv ==
    /\ PerMethod
    /\ pc = "paths" =>
         \A m \in Methods : /\ whole.routes[m] = DOMAIN routes[m]
                            /\ whole.trie[m] = trie[m]
                            /\ whole.routes[m] \subseteq PathsUpTo(i)
    /\ pc \in {"members", "method", "parameters", "insert"} =>
         \A m \in Methods : /\ whole.routes[m] = DOMAIN routes[m] \ {path}
                            /\ whole.routes[m] \subseteq PathsUpTo(i - 1)
    /\ pc \in {"members", "method"} => \A m \in Methods : trie[m] = Grown(m)
    /\ pc \in {"parameters", "insert"} =>
         \A m \in Methods : \/ trie[m] = Grown(m)
                            \/ m = method /\ trie[m] = whole.trie[m]

\* Marking a node twice is marking it once.
LEMMA MarkTwice ==
    \A f, n, node : MarkParam(f, n, MarkParam(f, n, node)) = MarkParam(f, n, node)
  BY DEF MarkParam

(* Two members for one method, "get" and "GET", insert the path twice      *)
(* (path_trie.cpp:50-77).                                                  *)
LEMMA InsertTwice ==
    ASSUME NEW t, NEW p
    PROVE  Insert(Insert(t, p), p) = Insert(t, p)
<1> DEFINE f == Fragments(p)
           W == WalkNodes(f)
           D == DOMAIN t \cup W
           First(n) == IF n \in DOMAIN t THEN t[n] ELSE NewNode(Len(n))
           u == [n \in D |-> MarkParam(f, n, First(n))]
<1>1. Insert(t, p) = u
  BY DEF Insert
<1>2. DOMAIN u = D
  OBVIOUS
<1>3. Insert(u, p) = [n \in DOMAIN u \cup W |->
                         MarkParam(f, n, IF n \in DOMAIN u THEN u[n] ELSE NewNode(Len(n)))]
  BY DEF Insert
<1>4. \A n \in D : u[n] = MarkParam(f, n, First(n))
  OBVIOUS
<1> HIDE DEF f, First
<1>5. DOMAIN u \cup W = D
  BY <1>2
<1> HIDE DEF u, D, W
<1>6. Insert(u, p) = [n \in D |-> MarkParam(f, n, u[n])]
  BY <1>2, <1>3, <1>5
<1>7. \A n \in D : MarkParam(f, n, u[n]) = u[n]
  BY <1>4, MarkTwice
<1>8. [n \in D |-> MarkParam(f, n, u[n])] = [n \in D |-> u[n]]
  BY <1>7
<1>9. u = [n \in D |-> u[n]]
  BY DEF u
<1> QED  BY <1>1, <1>6, <1>8, <1>9

\* The trie that Router inserts into is the one of the loader.
LEMMA SameInsert ==
    \A t, p : /\ Loaded!Insert(t, p) = Insert(t, p)
              /\ Loaded!HasPathParam(p) = HasPathParam(p)
              /\ Loaded!EmptyTrie = EmptyTrie
  BY DEF Loaded!Insert, Insert, Loaded!HasPathParam, HasPathParam, Loaded!Fragments, Fragments,
         Loaded!WalkNodes, WalkNodes, Loaded!MarkParam, MarkParam, Loaded!OnWalk, OnWalk,
         Loaded!NewNode, NewNode, Loaded!EmptyTrie, EmptyTrie, Loaded!Root, Root

\* No more paths than places for them.
LEMMA FewPaths ==
    ASSUME TypeInv, NEW n \in Nat, n <= Len(doc), NEW S \in SUBSET PathsUpTo(n)
    PROVE  IsFiniteSet(S) /\ Cardinality(S) <= n
<1> DEFINE f == [a \in 1..n |-> doc[a].path]
           T == PathsUpTo(n)
<1>1. f \in Surjection(1..n, T)
  BY DEF PathsUpTo, Surjection
<1>2. IsFiniteSet(1..n) /\ Cardinality(1..n) = n
  <2>1. IsFiniteSet(1..n) /\ Cardinality(1..n) = IF 1 > n THEN 0 ELSE n - 1 + 1
    BY FS_Interval
  <2> QED  BY <2>1
<1> HIDE DEF f, T
<1>3. IsFiniteSet(T) /\ Cardinality(T) <= Cardinality(1..n)
  BY <1>1, <1>2, FS_Surjection
<1>4. IsFiniteSet(S) /\ Cardinality(S) <= Cardinality(T)
  BY <1>3, FS_Subset DEF T
<1>5. Cardinality(S) \in Nat /\ Cardinality(T) \in Nat
  BY <1>3, <1>4, FS_CardinalityType
<1> QED  BY <1>2, <1>3, <1>4, <1>5

LEMMA LoadInitInv == HInit => LoadInv
<1> SUFFICES ASSUME HInit
             PROVE  LoadInv
  OBVIOUS
<1>1. /\ pc = "paths" /\ i = 0
      /\ routes = [m \in Methods |-> [p \in {} |-> 0]]
      /\ trie = [m \in Methods |-> EmptyTrie]
      /\ whole = [routes |-> [m \in Methods |-> {}], trie |-> trie]
  BY DEF HInit, Init
<1>2. whole.routes = [m \in Methods |-> {}] /\ whole.trie = trie
  BY <1>1
<1>3. PerMethod
  BY <1>1, <1>2 DEF PerMethod
<1>4. \A m \in Methods : DOMAIN routes[m] = {} /\ whole.routes[m] = {} /\ whole.trie[m] = trie[m]
  BY <1>1, <1>2
<1> QED  BY <1>1, <1>3, <1>4 DEF LoadInv

\* The path the loops come to is none of those before it.
LEMMA NewPath ==
    ASSUME TypeInv, NEW n \in DOMAIN doc
    PROVE  doc[n].path \notin PathsUpTo(n - 1)
<1>1. DOMAIN doc = 1..Len(doc) /\ Len(doc) \in Nat
  BY DocumentsAssumption, LenProperties DEF TypeInv
<1>2. \A a \in 1..(n - 1) : a \in DOMAIN doc /\ a # n
  BY <1>1
<1>3. \A a \in DOMAIN doc : doc[a].path = doc[n].path => a = n
  BY KeysAssumption DEF TypeInv
<1> QED  BY <1>2, <1>3 DEF PathsUpTo

(* The path come to is new to every map, as the keys are distinct.          *)
LEMMA EnterPathLoad ==
    ASSUME RefsInv, LoadInv, EnterPath, UNCHANGED whole
    PROVE  LoadInv'
<1> DEFINE n == i + 1
<1>1. /\ pc = "paths" /\ pc' = "members" /\ i' = n
      /\ UNCHANGED <<doc, routes, trie, whole>>
  BY DEF EnterPath, built
<1>2. n \in DOMAIN doc /\ n - 1 = i
  <2>1. i \in Nat /\ Len(doc) \in Nat /\ i < Len(doc) /\ DOMAIN doc = 1..Len(doc)
    BY DocumentsAssumption, LenProperties DEF RefsInv, TypeInv, EnterPath
  <2>2. n \in 1..Len(doc)
    BY <2>1, CountOn, Zenon
  <2>3. i + 1 - 1 = i
    BY <2>1
  <2> QED  BY <2>1, <2>2, <2>3
<1> HIDE DEF n
<1>3. doc[n].path \notin PathsUpTo(i)
  BY <1>2, NewPath DEF RefsInv
<1>4. path' = doc[n].path
  BY <1>1, Zenon DEF path
<1>5. \A l : PathsUpTo(l)' = PathsUpTo(l)
  BY <1>1 DEF PathsUpTo
<1>6. \A m \in Methods : /\ whole.routes[m] = DOMAIN routes[m] /\ whole.trie[m] = trie[m]
                         /\ whole.routes[m] \subseteq PathsUpTo(i)
  BY <1>1 DEF LoadInv
<1>7. \A m \in Methods : path' \notin DOMAIN routes[m]
  BY <1>3, <1>4, <1>6
<1>8. \A m \in Methods : trie'[m] = Grown(m)'
  BY <1>1, <1>6, <1>7 DEF Grown
<1>9. \A m \in Methods : /\ whole'.routes[m] = DOMAIN routes'[m] \ {path'}
                         /\ whole'.routes[m] \subseteq PathsUpTo(i - 1)'
  <2>1. PathsUpTo(i - 1)' = PathsUpTo(i)
    BY <1>1, <1>2, <1>5, Zenon
  <2> QED  BY <1>1, <1>6, <1>7, <2>1
<1>10. PerMethod'
  BY <1>1 DEF LoadInv, PerMethod
<1> QED  BY <1>1, <1>8, <1>9, <1>10 DEF LoadInv

(* The path left is one the maps and the tries have in full.                *)
LEMMA LeavePathLoad ==
    ASSUME RefsInv, LoadInv, LeavePath, whole' = Whole
    PROVE  LoadInv'
<1>1. /\ pc = "members" /\ pc' = "paths" /\ UNCHANGED <<doc, i, routes, trie>>
  BY DEF LeavePath, built
<1>2. whole'.routes = [m \in Methods |-> DOMAIN routes[m]] /\ whole'.trie = trie
  BY <1>1 DEF Whole
<1>3. i \in 1..Len(doc) /\ Len(doc) \in Nat
  BY <1>1, DocumentsAssumption, LenProperties DEF RefsInv, TypeInv, Position
<1>4. PathsUpTo(i - 1) \subseteq PathsUpTo(i) /\ path \in PathsUpTo(i)
  <2>1. i \in 1..i /\ \A a \in 1..(i - 1) : a \in 1..i
    BY <1>3
  <2> QED  BY <2>1, Zenon DEF PathsUpTo, path
<1>5. \A l : PathsUpTo(l)' = PathsUpTo(l)
  BY <1>1 DEF PathsUpTo
<1>6. \A m \in Methods : DOMAIN routes[m] \subseteq PathsUpTo(i)
  <2>1. \A m \in Methods : DOMAIN routes[m] \ {path} \subseteq PathsUpTo(i - 1)
    BY <1>1 DEF LoadInv
  <2> QED  BY <1>4, <2>1
<1>7. PathsUpTo(i)' = PathsUpTo(i)
  BY <1>1, <1>5, Zenon
<1>8. PerMethod'
  BY <1>1, <1>2 DEF LoadInv, PerMethod
<1>9. \A m \in Methods : /\ whole'.routes[m] = DOMAIN routes'[m]
                         /\ whole'.trie[m] = trie'[m]
                         /\ whole'.routes[m] \subseteq PathsUpTo(i)'
  BY <1>1, <1>2, <1>6, <1>7
<1> QED  BY <1>1, <1>8, <1>9 DEF LoadInv

(* Emplacing a store adds the path to the map of its method alone, when     *)
(* the method has it not yet.                                               *)
LEMMA RequestBodyLoad ==
    ASSUME RefsInv, LoadInv, RequestBody, UNCHANGED whole
    PROVE  LoadInv'
<1> DEFINE m0 == method
           p0 == path
           map == Emplaced(routes[m0], p0, Len(stores'))
<1>1. /\ pc = "method" /\ pc' \in {"insert", "parameters"} /\ member.key \in DOMAIN MethodOf
      /\ UNCHANGED <<doc, i, j, trie, whole>>
  BY DEF RequestBody
<1>2. m0 \in Methods /\ p0 \in Path
  BY <1>1, AtMember
<1>3. path' = path /\ method' = method
  BY <1>1, Zenon DEF path, member, method
<1>4. routes' = [routes EXCEPT ![m0] = map] /\ routes \in [Methods -> Routes]
  BY DEF RequestBody, RefsInv, TypeInv
<1>5. DOMAIN map = DOMAIN routes[m0] \cup {p0}
  BY DEF Emplaced
<1> HIDE DEF map, m0, p0
<1>6. /\ DOMAIN routes'[m0] = DOMAIN routes[m0] \cup {p0}
      /\ \A m \in Methods : m # m0 => routes'[m] = routes[m]
  BY <1>2, <1>4, <1>5
<1>7. \A m \in Methods : /\ whole.routes[m] = DOMAIN routes[m] \ {p0}
                         /\ whole.routes[m] \subseteq PathsUpTo(i - 1)
                         /\ trie[m] = Grown(m)
  BY <1>1 DEF LoadInv, p0
<1>8. \A m \in Methods : /\ whole'.routes[m] = DOMAIN routes'[m] \ {path'}
                         /\ whole'.routes[m] \subseteq PathsUpTo(i - 1)'
  <2>1. PathsUpTo(i - 1)' = PathsUpTo(i - 1)
    BY <1>1 DEF PathsUpTo
  <2> QED  BY <1>1, <1>3, <1>6, <1>7, <2>1 DEF p0
<1>9. \A m \in Methods : trie'[m] = Grown(m)' \/ (m = method' /\ trie'[m] = whole'.trie[m])
  <2> SUFFICES ASSUME NEW m \in Methods
               PROVE  trie'[m] = Grown(m)' \/ (m = method' /\ trie'[m] = whole'.trie[m])
    OBVIOUS
  <2>1. CASE p0 \in DOMAIN routes[m] \/ m # m0
    <3>1. p0 \in DOMAIN routes'[m] <=> p0 \in DOMAIN routes[m]
      BY <1>6, <2>1
    <3>2. Grown(m)' = Grown(m)
      BY <1>1, <1>3, <3>1 DEF Grown, p0
    <3> QED  BY <1>1, <1>7, <3>2
  <2>2. CASE p0 \notin DOMAIN routes[m] /\ m = m0
    <3>1. trie[m] = whole.trie[m]
      BY <1>7, <2>2 DEF Grown, p0
    <3> QED  BY <1>1, <1>3, <2>2, <3>1 DEF m0
  <2> QED  BY <2>1, <2>2
<1>10. PerMethod'
  BY <1>1 DEF LoadInv, PerMethod
<1> QED  BY <1>1, <1>8, <1>9, <1>10 DEF LoadInv

(* Inserting the path into the trie of the method makes the trie that of    *)
(* the map, also when a repeated method inserts it twice.                   *)
LEMMA InsertPathLoad ==
    ASSUME RefsInv, LoadInv, InsertPath, UNCHANGED whole
    PROVE  LoadInv'
<1>1. /\ pc = "insert" /\ pc' = "members"
      /\ UNCHANGED <<doc, i, j, routes, whole>>
      /\ trie' = IF HasPathParam(path) THEN [trie EXCEPT ![method] = Insert(@, path)] ELSE trie
  BY DEF InsertPath
<1>2. method \in Methods /\ path \in DOMAIN routes[method]
  BY <1>1, AtMember DEF RefsInv, Position
<1>3. path' = path /\ PathsUpTo(i - 1)' = PathsUpTo(i - 1)
  BY <1>1 DEF path, PathsUpTo
<1>4. trie = [m \in Methods |-> trie[m]]
  BY DEF LoadInv, PerMethod
<1>5. \A m \in Methods : \/ trie[m] = Grown(m)
                         \/ m = method /\ trie[m] = whole.trie[m]
  BY <1>1 DEF LoadInv
<1>6. \A m \in Methods : Grown(m)' = Grown(m)
  BY <1>1, <1>3 DEF Grown
<1>7. \A m \in Methods : trie'[m] = Grown(m)
  <2> SUFFICES ASSUME NEW m \in Methods
               PROVE  trie'[m] = Grown(m)
    OBVIOUS
  <2>1. CASE ~HasPathParam(path)
    BY <1>1, <1>5, <2>1 DEF Grown
  <2>2. CASE HasPathParam(path) /\ m # method
    BY <1>1, <1>2, <1>4, <1>5, <2>2
  <2>3. CASE HasPathParam(path) /\ m = method
    <3>1. trie'[m] = Insert(trie[m], path)
      BY <1>1, <1>2, <1>4, <2>3
    <3>2. Grown(m) = Insert(whole.trie[m], path)
      BY <1>2, <2>3 DEF Grown
    <3>3. trie[m] = Insert(whole.trie[m], path) \/ trie[m] = whole.trie[m]
      BY <1>5, <3>2
    <3> QED  BY <3>1, <3>2, <3>3, InsertTwice
  <2> QED  BY <2>1, <2>2, <2>3
<1>8. PerMethod'
  <2>1. trie' = [m \in Methods |-> trie'[m]]
    BY <1>1, <1>4
  <2> QED  BY <1>1, <2>1 DEF LoadInv, PerMethod
<1>9. \A m \in Methods : trie'[m] = Grown(m)'
  BY <1>6, <1>7
<1>10. \A m \in Methods : /\ whole'.routes[m] = DOMAIN routes'[m] \ {path'}
                          /\ whole'.routes[m] \subseteq PathsUpTo(i - 1)'
  BY <1>1, <1>3 DEF LoadInv
<1> QED  BY <1>1, <1>8, <1>9, <1>10 DEF LoadInv

\* The steps that neither come to a path nor leave one, nor change a map or a trie.
LEMMA OtherLoad ==
    ASSUME RefsInv, LoadInv, UNCHANGED whole,
           \/ EnterMethod \/ AddPathParam \/ AddQueryParam \/ AddHeaderParam \/ LeaveParameters
           \/ Finish \/ UnknownKey \/ NotInPath \/ BadParam \/ UNCHANGED vars
    PROVE  LoadInv'
<1>1. /\ UNCHANGED <<doc, i, routes, trie, whole>>
      /\ \/ pc = "members" /\ pc' = "method"
         \/ pc \in {"parameters", "insert"} /\ pc' \in {"parameters", "insert"} /\ j' = j
         \/ pc' = "done"
         \/ pc' = pc /\ j' = j
  BY DEF EnterMethod, AddPathParam, AddQueryParam, AddHeaderParam, AtParam, Add, LeaveParameters,
         Finish, UnknownKey, NotInPath, BadParam, Throw, built, vars
<1>2. path' = path /\ (j' = j => method' = method) /\ \A l : PathsUpTo(l)' = PathsUpTo(l)
  BY <1>1 DEF path, method, member, PathsUpTo
<1>3. \A m : Grown(m)' = Grown(m)
  BY <1>1, <1>2 DEF Grown
<1>4. PathsUpTo(i)' = PathsUpTo(i) /\ PathsUpTo(i - 1)' = PathsUpTo(i - 1)
  BY <1>1 DEF PathsUpTo
<1>5. PerMethod'
  BY <1>1 DEF LoadInv, PerMethod
<1> QED  BY <1>1, <1>2, <1>3, <1>4, <1>5 DEF LoadInv

(* Every step keeps each method to its own map and trie: the paths of the   *)
(* document so far, and the trie they make.                                 *)
LEMMA LoadNextInv ==
    RefsInv /\ LoadInv /\ [HNext]_<<vars, whole>> => LoadInv'
<1> SUFFICES ASSUME RefsInv, LoadInv, [HNext]_<<vars, whole>>
             PROVE  LoadInv'
  OBVIOUS
<1>1. CASE LeavePath /\ whole' = Whole
  BY <1>1, LeavePathLoad
<1>2. CASE Next /\ UNCHANGED whole /\ ~LeavePath
  BY <1>2, EnterPathLoad, RequestBodyLoad, InsertPathLoad, OtherLoad
     DEF Next, ProcessMethod, AddParamValidators
<1>3. CASE UNCHANGED <<vars, whole>>
  BY <1>3, OtherLoad
<1> QED  BY <1>1, <1>2, <1>3 DEF HNext

(* The paths Router has declared are counted as sets are counted here.     *)
LEMMA SameCount ==
    ASSUME NEW S
    PROVE  Loaded!Cardinality(S) = Cardinality(S)
  BY DEF Loaded!Cardinality, Cardinality

(* Leaving a path of the document is ProcessPath of Router, for the        *)
(* methods that have it now (oas_validator_imp.cpp:285-297).               *)
LEMMA LeavePathImplements ==
    ASSUME RefsInv, LoadInv, LeavePath, whole' = Whole
    PROVE  \E p \in Paths, ms \in SUBSET Methods : Loaded!ProcessPath(p, ms)
<1> DEFINE ms == {m \in Methods : path \in DOMAIN routes[m]}
<1>1. /\ pc = "members" /\ UNCHANGED <<routes, trie, outcome>> /\ outcome # "OK"
  BY DEF LeavePath, built, RefsInv, Position
<1>2. whole'.routes = [m \in Methods |-> DOMAIN routes[m]] /\ whole'.trie = trie
  BY <1>1 DEF Whole
<1>3. /\ i \in DOMAIN doc /\ doc \in Documents
      /\ Len(doc) \in Nat /\ DOMAIN doc = 1..Len(doc) /\ TypeInv
  BY <1>1, DocumentsAssumption, LenProperties DEF RefsInv, TypeInv, Position
<1>4. path \in Paths
  BY <1>3, KeysAssumption DEF path
<1>5. \A m \in Methods : /\ whole.routes[m] = DOMAIN routes[m] \ {path}
                         /\ whole.routes[m] \subseteq PathsUpTo(i - 1)
                         /\ trie[m] = Grown(m)
  BY <1>1 DEF LoadInv
<1>6. Loaded!Declared = UNION { whole.routes[m] : m \in Methods }
  BY DEF Loaded!Declared
<1>7. path \notin Loaded!Declared
  BY <1>5, <1>6
<1>8. Loaded!Cardinality(Loaded!Declared) < MaxPaths
  <2> DEFINE S == Loaded!Declared
             n == i - 1
  <2>1. S \in SUBSET PathsUpTo(n)
    BY <1>5, <1>6
  <2>2. n \in Nat /\ n <= Len(doc) /\ n < Len(doc)
    BY <1>3
  <2> HIDE DEF S
  <2>3. Cardinality(S) <= n /\ IsFiniteSet(S)
    <3>1. Cardinality(S) <= n
      BY <1>3, <2>1, <2>2, FewPaths
    <3>2. IsFiniteSet(S)
      BY <1>3, <2>1, <2>2, FewPaths
    <3> QED  BY <3>1, <3>2
  <2>4. Cardinality(S) \in Nat /\ MaxPaths \in Nat /\ Len(doc) <= MaxPaths
    BY <1>3, <2>3, FS_CardinalityType, KeysAssumption
  <2> HIDE DEF n
  <2>5. Cardinality(S) < MaxPaths
    BY <1>3, <2>2, <2>3, <2>4
  <2> QED  BY <2>5, SameCount DEF S
<1>9. whole'.routes = [m \in Methods |-> IF m \in ms THEN whole.routes[m] \cup {path}
                                                    ELSE whole.routes[m]]
  <2>1. \A m \in Methods : DOMAIN routes[m] = IF m \in ms THEN whole.routes[m] \cup {path}
                                                          ELSE whole.routes[m]
    BY <1>5
  <2> QED  BY <1>2, <2>1
<1>10. whole'.trie = [m \in Methods |-> IF m \in ms /\ Loaded!HasPathParam(path)
                                        THEN Loaded!Insert(whole.trie[m], path)
                                        ELSE whole.trie[m]]
  <2>1. \A m \in Methods : trie[m] = IF m \in ms /\ Loaded!HasPathParam(path)
                                     THEN Loaded!Insert(whole.trie[m], path)
                                     ELSE whole.trie[m]
    BY <1>5, SameInsert DEF Grown
  <2>2. trie = [m \in Methods |-> trie[m]]
    BY DEF LoadInv, PerMethod
  <2> QED  BY <1>2, <2>1, <2>2
<1>11. Loaded!ProcessPath(path, ms)
  <2>1. ~ (outcome = "OK") /\ (outcome = "OK")' = (outcome = "OK")
    BY <1>1
  <2> HIDE DEF ms
  <2> QED  BY <1>7, <1>8, <1>9, <1>10, <2>1, Zenon
           DEF Loaded!ProcessPath, Loaded!argVars, Loaded!walkVars
<1>12. ms \in SUBSET Methods
  OBVIOUS
<1> QED  BY <1>4, <1>11, <1>12

(* Every step of the loader is a step of loading in Router, or none.       *)
LEMMA StepImplements ==
    RefsInv /\ LoadInv /\ [HNext]_<<vars, whole>> => [Loaded!Load]_(Loaded!specVars)
<1> SUFFICES ASSUME RefsInv, LoadInv, [HNext]_<<vars, whole>>
             PROVE  [Loaded!Load]_(Loaded!specVars)
  OBVIOUS
<1>1. CASE LeavePath /\ whole' = Whole
  BY <1>1, LeavePathImplements DEF Loaded!Load
<1>2. CASE Finish /\ UNCHANGED whole
  <2>1. outcome = "NONE" /\ outcome' = "OK"
    BY <1>2 DEF Finish, RefsInv, Position
  <2>2. Loaded!Serve
    BY <1>2, <2>1 DEF Loaded!Serve, Loaded!argVars, Loaded!walkVars
  <2> QED  BY <2>2 DEF Loaded!Load
<1>3. CASE Next /\ UNCHANGED whole /\ ~LeavePath /\ ~Finish
  <2>1. outcome # "OK" /\ outcome' # "OK"
    BY <1>3 DEF Next, EnterPath, ProcessMethod, EnterMethod, UnknownKey, RequestBody, Throw,
                AddParamValidators, AddPathParam, AddQueryParam, AddHeaderParam, AtParam, Add,
                NotInPath, BadParam, LeaveParameters, InsertPath, RefsInv, Position
  <2> QED  BY <1>3, <2>1 DEF Loaded!specVars
<1>4. CASE UNCHANGED <<vars, whole>>
  BY <1>4 DEF vars, Loaded!specVars
<1> QED  BY <1>1, <1>2, <1>3, <1>4 DEF HNext

(* The loader implements the loading of Router: what requests are routed   *)
(* by is declared path by path, and served when all of it is there         *)
(* (oas_validator_imp.cpp:25-27, 285-315).                                 *)
THEOREM LoaderImplements == HSpec => ImplementsLoading
<1>1. HInit => Loaded!Init
  <2>1. HInit => /\ whole.routes = [m \in Methods |-> {}]
                 /\ whole.trie = [m \in Methods |-> EmptyTrie]
                 /\ outcome = "NONE"
    BY DEF HInit, Init
  <2> QED  BY <2>1, SameInsert DEF Loaded!Init, Loaded!NoIdxs, Loaded!Root, Root
<1>2. HInit => RefsInv /\ LoadInv
  BY RefsInitInv, LoadInitInv DEF HInit
<1>3. RefsInv /\ [HNext]_<<vars, whole>> => RefsInv'
  <2>1. [HNext]_<<vars, whole>> => [Next]_vars
    BY DEF HNext
  <2> QED  BY <2>1, RefsNextInv
<1>4. HSpec => [](RefsInv /\ LoadInv)
  BY <1>2, <1>3, LoadNextInv, PTL DEF HSpec
<1>5. HSpec => [][Loaded!Load]_(Loaded!specVars)
  BY <1>4, StepImplements, PTL DEF HSpec
<1> QED  BY <1>1, <1>5, PTL DEF HSpec, ImplementsLoading
=============================================================================
