------------------------------- MODULE Regex --------------------------------
(***************************************************************************)
(* rapidjson's regular expressions, which the keyword pattern is checked   *)
(* with: Parse turns the characters of an expression into the states of a  *)
(* Thompson automaton, Search runs the automaton over a text.              *)
(*                                                                         *)
(* States are numbered from 1, and 0 is kRegexInvalidState.  A quantifier  *)
(* in braces is one character, whose bounds ParseUnsigned would read.      *)
(* RAPIDJSON_ASSERT does nothing in the builds of the library: what        *)
(* follows a failed one is "UNDEFINED".  The last section is the reference *)
(* a search is compared with.                                              *)
(***************************************************************************)
EXTENDS Integers, SequencesExt

CONSTANTS Order,      \* the characters of expressions and texts, in the order of their codes
          Quantifiers \* the bounds of each quantifier in braces

Code(c) == CHOOSE i \in DOMAIN Order : Order[i] = c

-----------------------------------------------------------------------------
(* States and fragments.                                                   *)

State(out, out1, on, ranges) == [out |-> out, out1 |-> out1, on |-> on, ranges |-> ranges]
Frag(start, out, minIndex) == [start |-> start, out |-> out, minIndex |-> minIndex]

RECURSIVE Patch(_, _, _), LastOut(_, _)
Patch(states, l, s) ==
    IF l = 0 THEN states ELSE Patch([states EXCEPT ![l].out = s], states[l].out, s)
LastOut(states, l) == IF states[l].out = 0 THEN l ELSE LastOut(states, states[l].out)
AppendList(states, l1, l2) == [states EXCEPT ![LastOut(states, l1)].out = l2]

\* The top n operands give way to e.
With(p, states, n, e) ==
    [p EXCEPT !.states = states,
              !.operands = Append(SubSeq(@, 1, Len(@) - n), e)]
Fails(p, why) == [p EXCEPT !.status = why]

PushOperand(p, on, ranges) ==
    LET s == Len(p.states) + 1
    IN  With(p, Append(p.states, State(0, 0, on, ranges)), 0, Frag(s, s, s))

Smaller(a, b) == IF a < b THEN a ELSE b

Eval(p, op) ==
    LET n == Len(p.operands)
        e == p.operands[n]
        e1 == p.operands[n - 1]
        min == Smaller(e1.minIndex, e.minIndex)
        s == Len(p.states) + 1
        Split(out, out1) == Append(p.states, State(out, out1, "split", <<>>))
    IN  CASE op = "concat" /\ n < 2 -> Fails(p, "UNDEFINED")
          [] op = "concat" /\ n >= 2 ->
               With(p, Patch(p.states, e1.out, e.start), 2, Frag(e1.start, e.out, min))
          [] op = "|" /\ n >= 2 ->
               With(p, AppendList(Split(e1.start, e.start), e1.out, e.out), 2,
                    Frag(s, e1.out, min))
          [] op = "?" /\ n >= 1 ->
               With(p, AppendList(Split(0, e.start), e.out, s), 1, Frag(s, e.out, e.minIndex))
          [] op = "*" /\ n >= 1 ->
               With(p, Patch(Split(0, e.start), e.out, s), 1, Frag(s, s, e.minIndex))
          [] op = "+" /\ n >= 1 ->
               With(p, Patch(Split(0, e.start), e.out, s), 1, Frag(e.start, s, e.minIndex))
          [] OTHER -> Fails(p, "INVALID")

\* Mutant: the links within the copy stay where they were.
CloneTopOperandUnlinked(p) ==
    LET src == Last(p.operands)
        count == Len(p.states) + 1 - src.minIndex
    IN  With(p, p.states \o SubSeq(p.states, src.minIndex, Len(p.states)), 0,
             Frag(src.start + count, src.out + count, src.minIndex + count))

CloneTopOperand(p) ==
    LET src == Last(p.operands)
        count == Len(p.states) + 1 - src.minIndex
        Moved(l) == IF l = 0 THEN 0 ELSE l + count
        copy == [i \in 1..count |->
                   LET s == p.states[src.minIndex + i - 1]
                   IN  [s EXCEPT !.out = Moved(@), !.out1 = Moved(@)]]
    IN  With(p, p.states \o copy, 0,
             Frag(src.start + count, src.out + count, src.minIndex + count))

Times(Op(_), n, p) == FoldLeft(LAMBDA q, i : Op(q), p, [i \in 1..n |-> i])
Concat(p) == Eval(p, "concat")

Infinity == 99 \* kInfinityQuantifier, above every bound of Quantifiers

EvalQuantifier(p, n, m) ==
    CASE p.operands = <<>> -> Fails(p, "UNDEFINED")
      [] n = 0 /\ m = 0 -> Fails(p, "INVALID")
      [] n = 0 /\ m = Infinity -> Eval(p, "*")
      [] n = 0 /\ m \notin {0, Infinity} ->
           Times(Concat, m - 1, Times(CloneTopOperand, m - 1, Eval(p, "?")))
      [] n > 0 ->
           LET q == Times(CloneTopOperand, n - 1, p)
               more == Times(CloneTopOperand, m - n - 1, Eval(CloneTopOperand(q), "?"))
               r == CASE m = Infinity -> Eval(q, "+")
                      [] n < m /\ m < Infinity -> Times(Concat, m - n, more)
                      [] m = n -> q
           IN  Times(Concat, n - 1, r)

-----------------------------------------------------------------------------
(* Parse                                                                   *)

Control == [f |-> "FF", n |-> "LF", r |-> "CR", t |-> "TAB", v |-> "VT"]
Meta == {"^", "$", "|", "(", ")", "?", "*", "+", ".", "[", "]", "{", "}", "\\"}

\* What an escaped character stands for; "" when it is not supported.
CharacterEscape(c) == IF c \in Meta THEN c ELSE IF c \in DOMAIN Control THEN Control[c] ELSE ""

\* The ranges between brackets; step 2 follows a '-' after a character.
RECURSIVE ParseRange(_, _, _, _)
ParseRange(t, ranges, step, first) ==
    LET escaped == t # <<>> /\ t[1] = "\\" /\ Len(t) >= 2
        c == IF escaped THEN (IF t[2] = "b" THEN "BS" ELSE CharacterEscape(t[2]))
             ELSE t[1]
        rest == SubSeq(t, IF escaped THEN 3 ELSE 2, Len(t))
        Found(rs, neg) == [ok |-> TRUE, ranges |-> [negate |-> neg, of |-> rs], rest |-> rest]
    IN  CASE t = <<>> \/ (t # <<>> /\ c = "") \/ (c = "]" /\ ~escaped /\ ranges = <<>>) ->
               [ok |-> FALSE]
          [] first /\ c = "^" /\ ~escaped ->
               LET r == ParseRange(rest, ranges, step, FALSE)
               IN  IF r.ok THEN [r EXCEPT !.ranges.negate = TRUE] ELSE r
          [] c = "]" /\ ~escaped /\ ranges # <<>> ->
               Found(IF step = 2 THEN Append(ranges, <<"-", "-">>) ELSE ranges, FALSE)
          [] step = 1 /\ c = "-" -> ParseRange(rest, ranges, 2, FALSE)
          [] step = 2 -> ParseRange(rest, Append(Front(ranges), <<Last(ranges)[1], c>>), 0, FALSE)
          [] OTHER -> ParseRange(rest, Append(ranges, <<c, c>>), 1, FALSE)

ImplicitConcatenation(p) ==
    [p EXCEPT !.operators = IF Last(p.atoms) > 0 THEN Append(@, "concat") ELSE @,
              !.atoms = Append(Front(@), Last(@) + 1)]

RECURSIVE EvalWhile(_, _)
EvalWhile(p, ops) ==
    IF p.status # "OK" \/ p.operators = <<>> \/ Last(p.operators) \notin ops THEN p
    ELSE EvalWhile(Eval([p EXCEPT !.operators = Front(@)], Last(p.operators)), ops)

Alternative(p) ==
    LET q == EvalWhile(p, {"concat"})
    IN  IF q.status # "OK" THEN q
        ELSE [q EXCEPT !.operators = Append(@, "|"), !.atoms = Append(Front(@), 0)]

CloseGroup(p) ==
    LET q == EvalWhile(p, {"concat", "|"})
    IN  IF q.status # "OK" THEN q
        ELSE IF q.operators = <<>> THEN Fails(q, "INVALID")
        ELSE ImplicitConcatenation([q EXCEPT !.operators = Front(@), !.atoms = Front(@)])

RECURSIVE ParseFrom(_, _)
ParseFrom(p, t) ==
    IF p.status # "OK" \/ t = <<>> THEN p
    ELSE LET c == Head(t)
             rest == Tail(t)
             Atom(on, ranges) == ImplicitConcatenation(PushOperand(p, on, ranges))
             class == ParseRange(rest, <<>>, 0, TRUE)
             escaped == IF rest = <<>> THEN "" ELSE CharacterEscape(Head(rest))
         IN  CASE c = "^" -> ParseFrom([p EXCEPT !.anchorBegin = TRUE], rest)
               [] c = "$" -> ParseFrom([p EXCEPT !.anchorEnd = TRUE], rest)
               [] c = "|" -> ParseFrom(Alternative(p), rest)
               [] c = "(" ->
                    ParseFrom([p EXCEPT !.operators = Append(@, "("), !.atoms = Append(@, 0)], rest)
               [] c = ")" -> ParseFrom(CloseGroup(p), rest)
               [] c \in {"?", "*", "+"} -> ParseFrom(Eval(p, c), rest)
               [] c \in DOMAIN Quantifiers ->
                    ParseFrom(EvalQuantifier(p, Quantifiers[c][1], Quantifiers[c][2]), rest)
               [] c = "." -> ParseFrom(Atom("ANY", <<>>), rest)
               [] c = "[" -> IF class.ok THEN ParseFrom(Atom("RANGE", class.ranges), class.rest)
                             ELSE Fails(p, "INVALID")
               [] c = "\\" -> IF escaped # "" THEN ParseFrom(Atom(escaped, <<>>), Tail(rest))
                              ELSE Fails(p, "INVALID")
               [] OTHER -> ParseFrom(Atom(c, <<>>), rest)

Empty == [status |-> "OK", states |-> <<>>, operands |-> <<>>, operators |-> <<>>,
          atoms |-> <<0>>, anchorBegin |-> FALSE, anchorEnd |-> FALSE, root |-> 0]

Parse(source) ==
    LET p == EvalWhile(ParseFrom(Empty, source), {"concat", "|", "("})
        e == p.operands[1]
    IN  IF p.status # "OK" THEN p
        ELSE IF Len(p.operands) # 1 THEN Fails(p, "INVALID")
        ELSE [p EXCEPT !.states = Patch(Append(@, State(0, 0, "END", <<>>)), e.out, Len(@) + 1),
                       !.root = e.start]

-----------------------------------------------------------------------------
(* Search                                                                  *)

MatchRange(ranges, c) ==
    (\E i \in DOMAIN ranges.of :
        Code(ranges.of[i][1]) <= Code(c) /\ Code(c) <= Code(ranges.of[i][2]))
    # ranges.negate

\* Adds to the list l the states reached from state i without a character, and says
\* whether one of them ends the expression. A split that leads to itself is
\* followed for ever: only the states of the list are known as visited.
RECURSIVE AddState(_, _, _, _)
AddState(states, l, i, above) ==
    LET s == states[i]
        a == AddState(states, l, s.out, above \cup {i})
        b == AddState(states, a, s.out1, above \cup {i})
    IN  IF l.endless \/ i \in above THEN [l EXCEPT !.endless = TRUE]
        ELSE IF s.out1 # 0 THEN [b EXCEPT !.matched = a.matched \/ b.matched]
        ELSE [l EXCEPT !.on = IF i \in ToSet(@) THEN @ ELSE Append(@, i),
                       !.matched = s.out = 0]

Start == [on |-> <<>>, matched |-> FALSE, endless |-> FALSE]

\* What the states of current make of a character: the next list, whether the
\* expression ended in one of them, and whether the rest need not be looked at.
Step(p, current, c) ==
    LET Takes(s) == \/ s.on = c \/ s.on = "ANY"
                    \/ s.on = "RANGE" /\ MatchRange(s.ranges, c)
        Visit(l, i) ==
            LET s == p.states[i]
                a == IF Takes(s) THEN AddState(p.states, l, s.out, {})
                     ELSE [l EXCEPT !.matched = FALSE]
                matched == l.matched \/ a.matched
                b == IF p.anchorBegin THEN a ELSE AddState(p.states, a, p.root, {})
            IN  IF l.endless \/ (l.matched /\ ~p.anchorEnd) THEN l
                ELSE IF matched /\ ~p.anchorEnd THEN [a EXCEPT !.matched = TRUE]
                ELSE [b EXCEPT !.matched = matched]
    IN  FoldLeft(Visit, Start, current)

RECURSIVE SearchFrom(_, _, _)
SearchFrom(p, l, text) ==
    LET next == Step(p, l.on, Head(text))
    IN  CASE l.endless -> "ENDLESS"
          [] ~l.endless /\ (l.on = <<>> \/ text = <<>>) -> IF l.matched THEN "YES" ELSE "NO"
          [] OTHER -> IF next.matched /\ ~p.anchorEnd /\ ~next.endless THEN "YES"
                      ELSE SearchFrom(p, next, Tail(text))

Search(source, text) ==
    LET p == Parse(source)
    IN  IF p.status # "OK" THEN p.status
        ELSE SearchFrom(p, AddState(p.states, Start, p.root, {}), text)

-----------------------------------------------------------------------------
(* What an expression means, by recursion on its structure, and how it is  *)
(* written: the reference the automaton is compared with.                  *)

Char(c) == [kind |-> "char", char |-> c]
Class(text, members) == [kind |-> "class", text |-> text, members |-> members]
Cat(a, b) == [kind |-> "cat", a |-> a, b |-> b]
Alt(a, b) == [kind |-> "alt", a |-> a, b |-> b]
Rep(a, sign, from, to) == [kind |-> "rep", a |-> a, sign |-> sign, from |-> from, to |-> to]

RECURSIVE Written(_, _)
\* The characters of e; level 1 within an alternation, 2 within a concatenation,
\* 3 below a repetition.
Written(e, level) ==
    LET own == CASE e.kind = "char" -> <<e.char>>
                 [] e.kind = "class" -> e.text
                 [] e.kind = "cat" -> Written(e.a, 2) \o Written(e.b, 2)
                 [] e.kind = "alt" -> Written(e.a, 1) \o <<"|">> \o Written(e.b, 1)
                 [] e.kind = "rep" -> Written(e.a, 3) \o <<e.sign>>
        binds == CASE e.kind = "alt" -> 1 [] e.kind = "cat" -> 2 [] OTHER -> 3
    IN  IF binds < level THEN <<"(">> \o own \o <<")">> ELSE own

\* Where a match of e in t that begins at i may end.
RECURSIVE Ends(_, _, _), EndsOf(_, _, _, _)
Ends(e, t, i) ==
    CASE e.kind = "char" -> IF i <= Len(t) /\ t[i] = e.char THEN {i + 1} ELSE {}
      [] e.kind = "class" -> IF i <= Len(t) /\ t[i] \in e.members THEN {i + 1} ELSE {}
      [] e.kind = "cat" -> UNION { Ends(e.b, t, j) : j \in Ends(e.a, t, i) }
      [] e.kind = "alt" -> Ends(e.a, t, i) \cup Ends(e.b, t, i)
      [] e.kind = "rep" ->
           UNION { EndsOf(e.a, t, {i}, n) :
                     n \in e.from..(IF e.to = Infinity THEN e.from + Len(t) ELSE e.to) }
EndsOf(e, t, at, n) ==
    IF n = 0 THEN at ELSE EndsOf(e, t, UNION { Ends(e, t, j) : j \in at }, n - 1)

Nullable(e) == 1 \in Ends(e, <<>>, 1)

\* A repetition without a limit of what may be empty.
RECURSIVE Circular(_)
Circular(e) ==
    CASE e.kind \in {"cat", "alt"} -> Circular(e.a) \/ Circular(e.b)
      [] e.kind = "rep" -> Circular(e.a) \/ (e.to = Infinity /\ Nullable(e.a))
      [] OTHER -> FALSE

\* Whether e occurs in t: at the beginning, at the end, both, or anywhere; nonempty
\* says whether the empty match counts.
Occurs(e, t, begin, end, nonempty) ==
    \E i \in IF begin THEN {1} ELSE 1..(Len(t) + 1) :
        \E j \in Ends(e, t, i) : (end => j = Len(t) + 1) /\ (nonempty => j > i)
=============================================================================
