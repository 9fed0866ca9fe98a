------------------------------- MODULE Writer -------------------------------
(***************************************************************************)
(* Writer and PrettyWriter: the events of a handler become a JSON text.    *)
(*                                                                         *)
(* The options o are the write flags, the encoding of the output, and      *)
(* whether and how the text is laid out. The events are those of the       *)
(* reader. A double is +-i * 10^p, where i has no trailing zero: these     *)
(* are the digits dtoa finds, and only how it lays them out is modelled.   *)
(***************************************************************************)
EXTENDS Reader

Text(n) == LET digits[k \in Nat] == IF k < 10 THEN <<48 + k>>
                                    ELSE Append(digits[k \div 10], 48 + (k % 10))
           IN  digits[n]
Zeros(n) == [i \in 1..Max({n, 0}) |-> 48]
Point == 46

-----------------------------------------------------------------------------
(* Integers: the digits are taken in pairs from a table. An unsigned of 64 *)
(* bits is split into a * 10^16 + v0 * 10^8 + v1.                          *)

Pair(n) == <<48 + (n \div 10), 48 + (n % 10)>>
Four(n) == Pair(n \div 100) \o Pair(n % 100)
Eight(n) == Four(n \div 10000) \o Four(n % 10000)
\* The last n digits that count of a number written with leading zeros.
Counting(digits, n) == SubSeq(digits, Len(digits) - n + 1, Len(digits))
LengthUpTo(n, most) == Cardinality({ k \in 1..most - 1 : n >= 10^k }) + 1

u32toa(n) ==
    CASE n < 10000 -> Counting(Four(n), LengthUpTo(n, 4))
      [] n \in 10000..99999999 -> Counting(Eight(n), LengthUpTo(n, 8))
      [] OTHER -> LET a == n \div 100000000
                  IN  (IF a >= 10 THEN Pair(a) ELSE <<48 + a>>) \o Eight(n % 100000000)

u64toa(a, v0, v1) ==
    CASE a = 0 /\ v0 = 0 -> IF v1 < 10000 THEN Counting(Four(v1), LengthUpTo(v1, 4))
                            ELSE Counting(Eight(v1), LengthUpTo(v1, 8))
      [] a = 0 /\ v0 > 0 -> Counting(Eight(v0), LengthUpTo(v0, 8)) \o Eight(v1)
      [] OTHER -> Counting(Four(a), LengthUpTo(a, 4)) \o Eight(v0) \o Eight(v1)

Minus(text) == <<45>> \o text
i32toa(n) == IF n < 0 THEN Minus(u32toa(-n)) ELSE u32toa(n)

-----------------------------------------------------------------------------
(* Doubles                                                                 *)

RECURSIVE Normal(_, _)
Normal(i, p) == IF i = 0 THEN <<0, 0>>
                ELSE IF i % 10 = 0 THEN Normal(i \div 10, p + 1) ELSE <<i, p>>

WriteExponent(n) ==
    LET size == IF n < 0 THEN -n ELSE n
        digits == CASE size >= 100 -> <<48 + (size \div 100)>> \o Pair(size % 100)
                    [] size \in 10..99 -> Pair(size)
                    [] OTHER -> <<48 + size>>
    IN  IF n < 0 THEN Minus(digits) ELSE digits

\* What remains of a text whose decimals end at last, without the zeros there, but
\* with one decimal, which is at first.
RECURSIVE WithoutZeros(_, _, _)
WithoutZeros(text, first, last) ==
    IF last > first /\ text[last] = 48 THEN WithoutZeros(text, first, last - 1)
    ELSE SubSeq(text, 1, Max({first, last}))

\* The digits of a number d * 10^k.
Prettify(digits, k, maxDecimalPlaces) ==
    LET length == Len(digits)
        kk == length + k
        below == <<48, Point>> \o Zeros(-kk) \o digits
        mixed == SubSeq(digits, 1, kk) \o <<Point>> \o SubSeq(digits, kk + 1, length)
    IN  CASE 0 <= k /\ kk <= 21 -> digits \o Zeros(k) \o <<Point, 48>>
          [] k < 0 /\ 0 < kk /\ kk <= 21 ->
               IF 0 > k + maxDecimalPlaces
               THEN WithoutZeros(mixed, kk + 2, kk + 1 + maxDecimalPlaces) ELSE mixed
          [] -6 < kk /\ kk <= 0 ->
               IF length - kk > maxDecimalPlaces
               THEN WithoutZeros(below, 3, maxDecimalPlaces + 2) ELSE below
          [] kk <= -6 /\ kk < -maxDecimalPlaces -> <<48, Point, 48>>
          [] OTHER -> (IF length = 1 THEN digits ELSE <<digits[1], Point>> \o Tail(digits))
                        \o <<101>> \o WriteExponent(kk - 1)

dtoa(minus, i, p, maxDecimalPlaces) ==
    LET n == Normal(i, p)
        text == IF i = 0 THEN <<48, Point, 48>> ELSE Prettify(Text(n[1]), n[2], maxDecimalPlaces)
    IN  IF minus THEN Minus(text) ELSE text

-----------------------------------------------------------------------------
(* Strings                                                                 *)

HexDigits(n) == [k \in 1..4 |-> LET d == (n \div 16^(4 - k)) % 16
                                IN  IF d < 10 THEN 48 + d ELSE 55 + d]
EscapeU(n) == <<Backslash, 117>> \o HexDigits(n)
ShortEscape == [u \in {Quote, Backslash, 8, 9, 10, 12, 13} |->
                  CASE u = 8 -> 98 [] u = 9 -> 116 [] u = 10 -> 110 [] u = 12 -> 102
                    [] u = 13 -> 114 [] OTHER -> u]

\* Mutant: a character beyond the first plane is written as one escape.
EscapedLow(cp) == EscapeU(cp % 65536)

Escaped(cp) == IF cp <= 65535 THEN EscapeU(cp)
               ELSE EscapeU(EncodeUTF16(cp)[1]) \o EscapeU(EncodeUTF16(cp)[2])

\* The UTF-8 string s between quotation marks, in the encoding of the output.
RECURSIVE WriteString(_, _)
WriteString(o, s) ==
    LET u == s[1]
        d == Decode("UTF8", s)
        checked == Validate("UTF8", s)
        other == Transcode("UTF8", o.target, s)
        Rest(n) == WriteString(o, SubSeq(s, n + 1, Len(s)))
        Then1(bytes, n) == [ok |-> Rest(n).ok, out |-> bytes \o Rest(n).out]
        Fails == [ok |-> FALSE, out |-> <<>>]
    IN  CASE s = <<>> -> [ok |-> TRUE, out |-> <<Quote>>]
          [] s # <<>> /\ o.target = "ASCII" /\ u >= 128 ->
               IF d.ok THEN Then1(Escaped(d.cp), d.used) ELSE Fails
          [] s # <<>> /\ u \in DOMAIN ShortEscape -> Then1(<<Backslash, ShortEscape[u]>>, 1)
          [] s # <<>> /\ u \in 0..31 \ DOMAIN ShortEscape -> Then1(EscapeU(u), 1)
          [] OTHER ->
               CASE "validate" \in o.flags /\ o.target = "UTF8" ->
                      IF checked.ok THEN Then1(checked.out, Len(checked.out)) ELSE Fails
                 [] "validate" \notin o.flags /\ o.target = "UTF8" -> Then1(other.out, 1)
                 [] OTHER -> IF other.ok THEN Then1(other.out, d.used) ELSE Fails

-----------------------------------------------------------------------------
(* A writer w: its output, a level for each array and object it is in, and *)
(* whether it has begun a root and whether an event has failed.            *)

Level(inArray) == [count |-> 0, inArray |-> inArray]
Fresh == [out |-> <<>>, levels |-> <<>>, hasRoot |-> FALSE, ok |-> TRUE]
Put1(w, text) == [w EXCEPT !.out = @ \o text]
IsComplete(w) == w.hasRoot /\ w.levels = <<>>

Indent(o, w) == [i \in 1..(Len(w.levels) * o.indent) |-> 32]
Line(o, w) == <<10>> \o Indent(o, w)

\* What stands before a value that follows count values in its level.
Separator(o, w, level) ==
    LET first == level.count = 0
        name == ~level.inArray /\ level.count % 2 = 0
        comma == IF first THEN <<>> ELSE <<Comma>>
    IN  CASE ~name /\ ~level.inArray -> IF o.pretty THEN <<ColonChar, 32>> ELSE <<ColonChar>>
          [] ~o.pretty /\ (name \/ level.inArray) -> comma
          [] o.pretty /\ level.inArray /\ o.oneLine ->
               comma \o IF first THEN <<>> ELSE <<32>>
          [] OTHER -> comma \o Line(o, w)

Prefix(o, w) ==
    IF w.levels = <<>> THEN [w EXCEPT !.hasRoot = TRUE]
    ELSE [Put1(w, Separator(o, w, Last(w.levels)))
            EXCEPT !.levels[Len(w.levels)].count = @ + 1]

\* NaN and infinity are refused unless a flag allows them or asks for null.
WriteDouble(o, event) ==
    CASE Len(event) = 4 -> [ok |-> TRUE, out |-> dtoa(event[2], event[3], event[4], o.places)]
      [] Len(event) = 3 /\ "nullnan" \in o.flags -> [ok |-> TRUE, out |-> Null4]
      [] Len(event) = 3 /\ "nullnan" \notin o.flags /\ "nan" \in o.flags ->
           [ok |-> TRUE, out |-> (IF event[2] THEN <<45>> ELSE <<>>)
              \o IF event[3] = "NaN" THEN <<78, 97, 78>>
                 ELSE <<73, 110, 102, 105, 110, 105, 116, 121>>]
      [] OTHER -> [ok |-> FALSE, out |-> <<>>]

WrittenScalar(o, event) ==
    CASE event[1] = "Null" -> [ok |-> TRUE, out |-> Null4]
      [] event[1] = "Bool" -> [ok |-> TRUE, out |-> IF event[2] THEN True4 ELSE False5]
      [] event[1] \in {"Int", "Uint", "Int64", "Uint64"} ->
           [ok |-> TRUE, out |-> i32toa(event[2])]
      [] event[1] = "Double" -> WriteDouble(o, event)
      [] event[1] \in {"String", "Key"} ->
           LET s == WriteString(o, event[2]) IN [ok |-> s.ok, out |-> <<Quote>> \o s.out]

End(o, w, close, oneLine) ==
    LET level == Last(w.levels)
        popped == [w EXCEPT !.levels = Front(@)]
        line == IF o.pretty /\ level.count > 0 /\ ~oneLine THEN Line(o, popped) ELSE <<>>
    IN  Put1(popped, line \o <<close>>)

Handle(o, w, event) ==
    LET p == Prefix(o, w)
        scalar == WrittenScalar(o, event)
    IN  CASE ~w.ok -> w
          [] w.ok /\ event[1] = "StartObject" ->
               [Put1(p, <<OpenCurly>>) EXCEPT !.levels = Append(@, Level(FALSE))]
          [] w.ok /\ event[1] = "StartArray" ->
               [Put1(p, <<OpenSquare>>) EXCEPT !.levels = Append(@, Level(TRUE))]
          [] w.ok /\ event[1] = "EndObject" -> End(o, w, CloseCurly, FALSE)
          [] w.ok /\ event[1] = "EndArray" -> End(o, w, CloseSquare, o.oneLine)
          [] OTHER -> [Put1(p, scalar.out) EXCEPT !.ok = scalar.ok]

RECURSIVE Handled(_, _, _)
Handled(o, w, events) ==
    IF events = <<>> THEN w ELSE Handled(o, Handle(o, w, Head(events)), Tail(events))
Write(o, events) == Handled(o, Fresh, events)
=============================================================================
