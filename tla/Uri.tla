-------------------------------- MODULE Uri ---------------------------------
(***************************************************************************)
(* GenericUri: the parts of a URI, and the resolution of a reference       *)
(* against a base, by which an id and a $ref of a schema are located. The  *)
(* characters are codes; the parts lie one after the other in one block,   *)
(* which is as long as the text needs.                                     *)
(***************************************************************************)
EXTENDS Integers, SequencesExt

Hash == 35
Dot == 46
Slash == 47
Colon == 58
Question == 63

\* The part of s before the first of the characters.
Before(s, chars) == LET found == { i \in DOMAIN s : s[i] \in chars }
                    IN  IF found = {} THEN s
                        ELSE SubSeq(s, 1, (CHOOSE i \in found : \A j \in found : i <= j) - 1)
After(s, n) == SubSeq(s, n + 1, Len(s))

UpToLastSlash(s) == LET found == { i \in DOMAIN s : s[i] = Slash }
                    IN  IF found = {} THEN <<>>
                        ELSE SubSeq(s, 1, CHOOSE i \in found : \A j \in found : i >= j)

\* Mutant: a step up may leave the root.
RECURSIVE RemoveDotsBeyondRoot(_, _)
RemoveDotsBeyondRoot(path, new) ==
    LET segment == Before(path, {Slash})
        rest == After(path, Len(segment) + 1)
        slash == IF Len(segment) < Len(path) THEN <<Slash>> ELSE <<>>
    IN  CASE path = <<>> -> new
          [] path # <<>> /\ segment = <<Dot, Dot>> ->
               RemoveDotsBeyondRoot(rest, IF new = <<>> THEN new ELSE UpToLastSlash(Front(new)))
          [] path # <<>> /\ segment = <<Dot>> -> RemoveDotsBeyondRoot(rest, new)
          [] OTHER -> RemoveDotsBeyondRoot(rest, new \o segment \o slash)

\* The segments of path after those in new, without the dots: ".." takes the last
\* segment back, unless only the first slash is left.
RECURSIVE RemoveDots(_, _)
RemoveDots(path, new) ==
    LET segment == Before(path, {Slash})
        rest == After(path, Len(segment) + 1)
        slash == IF Len(segment) < Len(path) THEN <<Slash>> ELSE <<>>
    IN  CASE path = <<>> -> new
          [] path # <<>> /\ segment = <<Dot, Dot>> ->
               RemoveDots(rest, IF Len(new) > 1 THEN UpToLastSlash(Front(new)) ELSE new)
          [] path # <<>> /\ segment = <<Dot>> -> RemoveDots(rest, new)
          [] OTHER -> RemoveDots(rest, new \o segment \o slash)

RemoveDotSegments(path) == RemoveDots(path, <<>>)

UriOf(scheme, auth, path, query, frag) ==
    [scheme |-> scheme, auth |-> auth, path |-> path, query |-> query, frag |-> frag,
     base |-> scheme \o auth \o path \o query, uri |-> scheme \o auth \o path \o query \o frag]

\* A scheme includes its colon, an authority its slashes, a query and a fragment the
\* character they begin with. A colon at the front makes a scheme without a name.
ParseUri(uri) ==
    LET upToColon == Before(uri, {Colon})
        hasScheme == Len(upToColon) < Len(Before(uri, {Slash, Question, Hash}))
        scheme == IF hasScheme THEN Append(upToColon, Colon) ELSE <<>>
        s1 == After(uri, Len(scheme))
        hasAuth == IsPrefix(<<Slash, Slash>>, s1)
        auth == IF hasAuth THEN <<Slash, Slash>> \o Before(After(s1, 2), {Slash, Question, Hash})
                ELSE <<>>
        s2 == After(s1, Len(auth))
        path == Before(s2, {Question, Hash})
        normal == IF IsPrefix(<<Slash>>, path) THEN RemoveDotSegments(path) ELSE path
        s3 == After(s2, Len(path))
        query == IF IsPrefix(<<Question>>, s3) THEN Before(s3, {Hash}) ELSE <<>>
        frag == After(s3, Len(query))
    IN  UriOf(scheme, auth, normal, query, frag)

Resolve(r, base) ==
    LET joined == (IF base.auth # <<>> /\ base.path = <<>> THEN <<Slash>> ELSE <<>>)
                    \o UpToLastSlash(base.path) \o r.path
    IN  CASE r.scheme # <<>> ->
               UriOf(r.scheme, r.auth, RemoveDotSegments(r.path), r.query, r.frag)
          [] r.scheme = <<>> /\ r.auth # <<>> ->
               UriOf(base.scheme, r.auth, RemoveDotSegments(r.path), r.query, r.frag)
          [] r.scheme = <<>> /\ r.auth = <<>> /\ r.path = <<>> ->
               UriOf(base.scheme, base.auth, base.path,
                     IF r.query = <<>> THEN base.query ELSE r.query, r.frag)
          [] OTHER ->
               UriOf(base.scheme, base.auth,
                     RemoveDotSegments(IF r.path[1] = Slash THEN r.path ELSE joined),
                     r.query, r.frag)

Match(a, b, full) == IF full THEN a.uri = b.uri ELSE a.base = b.base

-----------------------------------------------------------------------------
(* The same by RFC 3986, 5.2, which the comments name: the parts may be    *)
(* absent rather than empty, and dots are removed from the text in steps.  *)

RECURSIVE DropDots(_, _)
DropDots(in, out) ==
    LET Begins(t) == IsPrefix(t, in)
        Cut(t) == After(in, Len(t))
        dropped == { i \in DOMAIN out : out[i] = Slash }
        up == IF dropped = {} THEN <<>>
              ELSE SubSeq(out, 1, (CHOOSE i \in dropped : \A j \in dropped : i >= j) - 1)
        first == IF Begins(<<Slash>>) THEN <<Slash>> \o Before(Cut(<<Slash>>), {Slash})
                 ELSE Before(in, {Slash})
    IN  CASE in = <<>> -> out
          [] Begins(<<Dot, Dot, Slash>>) -> DropDots(Cut(<<Dot, Dot, Slash>>), out)
          [] Begins(<<Dot, Slash>>) -> DropDots(Cut(<<Dot, Slash>>), out)
          [] Begins(<<Slash, Dot, Slash>>) -> DropDots(Cut(<<Slash, Dot>>), out)
          [] in = <<Slash, Dot>> -> DropDots(<<Slash>>, out)
          [] Begins(<<Slash, Dot, Dot, Slash>>) -> DropDots(Cut(<<Slash, Dot, Dot>>), up)
          [] in = <<Slash, Dot, Dot>> -> DropDots(<<Slash>>, up)
          [] in \in {<<Dot>>, <<Dot, Dot>>} -> out
          [] OTHER -> DropDots(Cut(first), out \o first)

\* The target of a reference whose parts are the texts r, given a base of the texts b,
\* whose path is rooted; absent parts are <<>>.
Target(r, b) ==
    LET text == CASE r.scheme # <<>> ->
                       <<r.scheme, r.auth, DropDots(r.path, <<>>), r.query>>
                  [] r.scheme = <<>> /\ r.auth # <<>> ->
                       <<b.scheme, r.auth, DropDots(r.path, <<>>), r.query>>
                  [] r.scheme = <<>> /\ r.auth = <<>> /\ r.path = <<>> ->
                       <<b.scheme, b.auth, DropDots(b.path, <<>>),
                         IF r.query # <<>> THEN r.query ELSE b.query>>
                  [] OTHER ->
                       <<b.scheme, b.auth,
                         DropDots(CASE r.path[1] = Slash -> r.path
                                    [] r.path[1] # Slash /\ b.path = <<>> -> <<Slash>> \o r.path
                                    [] OTHER -> UpToLastSlash(b.path) \o r.path, <<>>), r.query>>
    IN  FlattenSeq(text) \o r.frag

(* A reference put together of its parts is resolved against a base that   *)
(* has an authority to the target RFC 3986 gives it, and what is resolved  *)
(* is normal: resolving it again changes nothing (uri.h:152-225, 276-360,  *)
(* 405-452, whose comments say "in accordance with URI resolution rules"). *)
ResolvesByTheRules(r, b) ==
    LET Text(p) == p.scheme \o p.auth \o p.path \o p.query \o p.frag
        base == ParseUri(Text(b))
        resolved == Resolve(ParseUri(Text(r)), base)
        normal == [b EXCEPT !.path = DropDots(b.path, <<>>)]
    IN  /\ resolved.uri = Target(r, normal)
        /\ Resolve(ParseUri(resolved.uri), base) = resolved
=============================================================================
