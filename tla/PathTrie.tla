------------------------------ MODULE PathTrie ------------------------------
(***************************************************************************)
(* The fragment trie of src/utils/path_trie.cpp, as operators on a trie    *)
(* value.                                                                  *)
(*                                                                         *)
(* A path string is the nonempty sequence of the fields its '/' characters *)
(* separate: "/a/{x}" is <<"", "a", "{x}">>, "/a/" is <<"", "a", "">> and  *)
(* the empty string is <<"">>.  A field is an atom; the fields that begin  *)
(* with '{' are the members of Params.                                     *)
(*                                                                         *)
(* A trie is a function from the nodes it holds to their Node records.  A  *)
(* node is named by the labels on the way to it from the root, <<>>, so    *)
(* n.children is the set of nodes one label longer than n.                 *)
(***************************************************************************)
EXTENDS Integers, Sequences

CONSTANTS Literals, \* fields that are not templates, "" among them
          Params    \* fields that begin with '{', such as "{x}"

ASSUME LabelsAssumption == /\ "" \in Literals
                           /\ Literals \cap Params = {}

Labels == Literals \cup Params

(* What the loops of Insert, Search and GetPathParamIndices iterate over:  *)
(* they stop at the end of the string, so an empty last field (a trailing  *)
(* '/', or the empty string) is never seen.                                *)
Fragments(path) == IF path[Len(path)] = "" THEN SubSeq(path, 1, Len(path) - 1)
                                           ELSE path

(* The string Search builds from the labels it went through: each label is *)
(* appended with a '/' and the last '/' is popped.                         *)
Joined(labels) == IF labels = <<>> THEN <<"">> ELSE labels

Root == <<>>
NewNode(idx) == [dir |-> "", is_param |-> FALSE, frag_idx |-> idx]
EmptyTrie == [n \in {Root} |-> NewNode(0)]

Child(n, label) == Append(n, label)
HasChild(t, n, label) == Child(n, label) \in DOMAIN t

(* children.begin() of an unordered_map: any child, the standard does not  *)
(* order them.                                                             *)
FirstChildren(t, n) == { Child(n, label) : label \in {l \in Labels : HasChild(t, n, l)} }

-----------------------------------------------------------------------------
(* Insert(path): walks the fragments from the root; a node left over a     *)
(* template fragment becomes a parameter node and remembers that fragment, *)
(* whatever an earlier path left there; children that are missing are      *)
(* created with the number of fragments consumed so far.                   *)

\* n is a node of the walk and fragment Len(n) + 1 of the path leaves it.
OnWalk(f, n) == Len(n) < Len(f) /\ n = SubSeq(f, 1, Len(n))

WalkNodes(f) == { SubSeq(f, 1, k) : k \in 0..Len(f) }

\* Mutant: marks the node that a template fragment leads to.
MarkParamOnChild(f, n, node) ==
    IF n # Root /\ n = SubSeq(f, 1, Len(n)) /\ f[Len(n)] \in Params
    THEN [dir |-> f[Len(n)], is_param |-> TRUE, frag_idx |-> node.frag_idx]
    ELSE node

MarkParam(f, n, node) ==
    IF OnWalk(f, n) /\ f[Len(n) + 1] \in Params
    THEN [dir |-> f[Len(n) + 1], is_param |-> TRUE, frag_idx |-> node.frag_idx]
    ELSE node

\* Mutant: numbers a new node before its fragment is counted.
InsertNumberedLate(t, path) ==
    LET f == Fragments(path)
    IN  [n \in DOMAIN t \cup WalkNodes(f) |->
            MarkParam(f, n, IF n \in DOMAIN t THEN t[n] ELSE NewNode(Len(n) - 1))]

Insert(t, path) ==
    LET f == Fragments(path)
    IN  [n \in DOMAIN t \cup WalkNodes(f) |->
            MarkParam(f, n, IF n \in DOMAIN t THEN t[n] ELSE NewNode(Len(n)))]

-----------------------------------------------------------------------------
(* PathParamIndices(path)[name]: what GetPathParamIndices gives the        *)
(* validators of the path parameters of a declared path, a name being the  *)
(* template fragment itself; of two fragments with one name the first      *)
(* counts.                                                                 *)
PathParamIndices(path) ==
    LET f == Fragments(path)
        names == { f[j] : j \in {k \in 1..Len(f) : f[k] \in Params} }
    IN  [name \in names |->
            (CHOOSE j \in 1..Len(f) : f[j] = name /\ \A k \in 1..(j - 1) : f[k] # name) - 1]

=============================================================================
