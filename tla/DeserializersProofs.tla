------------------------- MODULE DeserializersProofs --------------------------
(***************************************************************************)
(* Whatever the parameters, their styles and the ranges they are given: no *)
(* step of a deserializer leaves the cursor beyond the NUL that ends the   *)
(* buffer, every step brings the call nearer to its end, and what is       *)
(* accepted and parses is what the style makes of its JSON.                *)
(***************************************************************************)
EXTENDS Deserializers, WellFoundedInduction, SequenceTheorems, TLAPS

NoRange == [buffer |-> <<>>, beg |-> 1, end |-> 1]

\* The call is one of a parameter with a range of it.
CallKnown == /\ pc = "idle" => range = NoRange
             /\ pc # "idle" => param \in Params /\ range \in Ranges[param]

\* The cursor passes the end of the range only by an object's separator, which
\* is a character of the buffer, and then no value is begun.
CursorKept == /\ cursor \in Nat \ {0}
              /\ \/ cursor <= end
                 \/ /\ cursor = end + 1 /\ end <= Len(buffer)
                    /\ pc \in {"item", "end", "done"}

ReadInv == CallKnown /\ CursorKept

-----------------------------------------------------------------------------
\* The first of some positions is one of them.
LEMMA FirstPosition ==
    ASSUME NEW S \in SUBSET Nat, S # {}
    PROVE  Min(S) \in S
  <1>1. PICK n \in S : \A m \in S : ~ (<<m, n>> \in OpToRel(<, Nat))
    BY NatLessThanWellFounded, WFMin
  <1>2. \A k, m \in Nat : k < m => <<k, m>> \in OpToRel(<, Nat)
    BY Zenon DEF OpToRel
  <1>3. n \in Nat /\ \A m \in S : m \in Nat /\ ~ (m < n)
    BY <1>1, <1>2, Zenon
  <1>4. \A m \in S : n <= m
    BY <1>3
  <1> QED  BY <1>4 DEF Min

\* A range lies in its buffer, and ends where none of the styles' characters is.
LEMMA RangeKnown ==
    ASSUME CallKnown
    PROVE  /\ end \in Nat \ {0} /\ Len(buffer) \in Nat /\ end <= Len(buffer) + 1
           /\ pc # "idle" => At(buffer, end) \in {"/", "?", "&", NUL}
  <1>1. CASE pc = "idle"
    BY <1>1 DEF CallKnown, NoRange, end, buffer
  <1>2. CASE pc # "idle"
    <2>1. param \in Params /\ range \in Ranges[param]
      BY <1>2 DEF CallKnown
    <2>2. /\ range.buffer \in Seq(STRING) /\ range.beg \in Nat \ {0} /\ range.end \in Nat
          /\ range.beg <= range.end /\ range.end <= Len(range.buffer) + 1
          /\ At(range.buffer, range.end) \in Followers(param.in)
      BY <2>1, RangesAssumption
    <2>3. Followers(param.in) \subseteq {"/", "?", "&", NUL}
      BY <2>1, ParamsAssumption DEF Followers
    <2> QED  BY <1>2, <2>2, <2>3 DEF end, buffer
  <1> QED  BY <1>1, <1>2

\* The end of a key, at its terminator or at the end of the range.
LEMMA KeyEnds ==
    ASSUME CallKnown, NEW c \in Nat, c <= end, NEW terminator
    PROVE  KeyEnd(c, terminator) \in c..end
  <1>1. end \in Nat
    BY RangeKnown
  <1> DEFINE S == { k \in c..end : k >= end \/ buffer[k] = terminator }
  <1>2. S \in SUBSET Nat /\ end \in S
    BY <1>1
  <1>3. Min(S) \in S
    BY <1>2, FirstPosition
  <1> QED  BY <1>3 DEF KeyEnd

\* The end of the characters of a number.
LEMMA RunEnds ==
    ASSUME CallKnown, NEW c \in Nat, c <= end, NEW chars
    PROVE  RunEnd(c, chars) \in c..end
  <1>1. end \in Nat
    BY RangeKnown
  <1> DEFINE S == { k \in c..end : k >= end \/ buffer[k] \notin chars }
  <1>2. S \in SUBSET Nat /\ end \in S
    BY <1>1
  <1>3. Min(S) \in S
    BY <1>2, FirstPosition
  <1> QED  BY <1>3 DEF RunEnd

\* Skipping a character does not leave the range.
LEMMA Skips ==
    ASSUME CallKnown, NEW c \in Nat, c <= end
    PROVE  Skipped(c) \in Nat /\ c <= Skipped(c) /\ Skipped(c) <= end
  <1>1. end \in Nat
    BY RangeKnown
  <1> QED  BY <1>1 DEF Skipped, InRange

\* Nor does a name that fits.
LEMMA Names ==
    ASSUME CallKnown, NEW c \in Nat, NameAt(c)
    PROVE  AfterName(c) \in Nat /\ c <= AfterName(c) /\ AfterName(c) <= end
  <1>1. Len(Name) \in Nat
    BY NameAssumption
  <1>2. c + Len(Name) <= end
    BY DEF NameAt
  <1> QED  BY <1>1, <1>2 DEF AfterName

-----------------------------------------------------------------------------
(* The start, the name and the loops over items.                           *)

\* A step to a place in the range keeps the invariant, and so does a throw.
LEMMA StepsInRange ==
    ASSUME ReadInv, pc # "idle", NEW c \in Nat \ {0}, c <= end,
           UNCHANGED <<param, range>>, pc' # "idle", cursor' \in {c, cursor},
           cursor' = c \/ pc' = "done"
    PROVE  ReadInv'
  <1>1. end \in Nat \ {0} /\ Len(buffer) \in Nat
    BY RangeKnown DEF ReadInv
  <1>2. end' = end /\ buffer' = buffer
    BY DEF end, buffer
  <1>3. CallKnown'
    BY DEF ReadInv, CallKnown
  <1>4. CursorKept'
    <2>1. CASE cursor' = c
      BY <2>1, <1>2 DEF CursorKept
    <2>2. CASE cursor' = cursor /\ pc' = "done"
      BY <2>2, <1>1, <1>2 DEF ReadInv, CursorKept
    <2> QED  BY <2>1, <2>2
  <1> QED  BY <1>3, <1>4 DEF ReadInv

\* Where a step begins, outside the loops over items.
LEMMA CursorInRange ==
    ASSUME ReadInv, pc \notin {"item", "end", "done"}
    PROVE  cursor \in Nat \ {0} /\ cursor <= end
  BY DEF ReadInv, CursorKept

\* The call (base_deserializer.hpp:36-49) begins at the range's first character.
LEMMA CallKeeps ==
    ASSUME ReadInv, NEW p \in Params, NEW r \in Ranges[p], Call(p, r)
    PROVE  ReadInv'
  <1>1. r.beg \in Nat \ {0} /\ r.beg <= r.end
    BY RangesAssumption
  <1>2. param' = p /\ range' = r /\ cursor' = r.beg /\ pc' = "start"
    BY DEF Call
  <1> QED  BY <1>1, <1>2 DEF ReadInv, CallKnown, CursorKept, end

\* The start character is none that ends a range.
LEMMA StartKeeps == ASSUME ReadInv, CheckNSkipStart PROVE ReadInv'
  <1>1. pc = "start" /\ cursor \in Nat \ {0} /\ cursor <= end
    BY CursorInRange DEF CheckNSkipStart
  <1>2. /\ end \in Nat \ {0}
        /\ At(buffer, end) \in {"/", "?", "&", NUL}
    BY <1>1, RangeKnown DEF ReadInv
  <1>3. start_ \in {".", ";", NUL}
    BY DEF start_, StartChar
  <1>4. UNCHANGED <<param, range>>
    BY DEF CheckNSkipStart, StepOrThrow
  <1>5. CASE cursor' = cursor /\ pc' \in {"name", "done"}
    BY <1>1, <1>4, <1>5, StepsInRange
  <1>6. CASE start_ # NUL /\ start_ = At(buffer, cursor) /\ cursor' = cursor + 1 /\ pc' = "name"
    <2>1. cursor # end
      BY <1>2, <1>3, <1>6 DEF NUL
    <2>2. cursor + 1 \in Nat \ {0} /\ cursor + 1 <= end
      BY <1>1, <1>2, <2>1
    <2> QED  BY <1>1, <1>4, <1>6, <2>2, StepsInRange
  <1> QED  BY <1>5, <1>6 DEF CheckNSkipStart, StepOrThrow, Goto

\* The name at the start lies in the range.
LEMMA NameKeeps == ASSUME ReadInv, CheckNSkipName PROVE ReadInv'
  <1>1. pc = "name" /\ cursor \in Nat \ {0} /\ cursor <= end
    BY CursorInRange DEF CheckNSkipName
  <1>2. UNCHANGED <<param, range>>
    BY DEF CheckNSkipName, StepOrThrow
  <1>3. CASE cursor' = cursor /\ pc' \in {"data", "done"}
    BY <1>1, <1>2, <1>3, StepsInRange
  <1>4. CASE NameAt(cursor) /\ cursor' = Skipped(AfterName(cursor)) /\ pc' = "data"
    <2>1. AfterName(cursor) \in Nat /\ cursor <= AfterName(cursor) /\ AfterName(cursor) <= end
      BY <1>1, <1>4, Names DEF ReadInv
    <2>2. cursor' \in Nat /\ AfterName(cursor) <= cursor' /\ cursor' <= end
      BY <2>1, <1>4, Skips DEF ReadInv
    <2>3. cursor' \in Nat \ {0}
      BY <1>1, <2>1, <2>2
    <2> QED  BY <1>1, <1>2, <1>4, <2>2, <2>3, StepsInRange
  <1> QED  BY <1>3, <1>4 DEF CheckNSkipName, StepOrThrow, Goto

\* CheckData moves nothing.
LEMMA DataKeeps == ASSUME ReadInv, CheckData PROVE ReadInv'
  <1>1. pc = "data" /\ cursor \in Nat \ {0} /\ cursor <= end
    BY CursorInRange DEF CheckData
  <1>2. cursor' = cursor /\ pc' \in {"string", "value", "item", "done"}
    BY DEF CheckData, StepOrThrow, Goto
  <1>3. UNCHANGED <<param, range>>
    BY DEF CheckData, StepOrThrow
  <1> QED  BY <1>1, <1>2, <1>3, StepsInRange

\* A turn of a loop begins in the range.
LEMMA ItemInRange ==
    ASSUME ReadInv, InRange(cursor)
    PROVE  cursor \in Nat \ {0} /\ cursor <= end
  <1>1. end \in Nat
    BY RangeKnown DEF ReadInv
  <1> QED  BY <1>1 DEF ReadInv, CursorKept, InRange

\* A running name lies in the range (array_deserializer.hpp:51-55).
LEMMA ArrayItemKeeps == ASSUME ReadInv, ArrayItem PROVE ReadInv'
  <1>1. pc = "item" /\ cursor \in Nat \ {0} /\ cursor <= end
    BY ItemInRange DEF ArrayItem
  <1>2. UNCHANGED <<param, range>>
    BY DEF ArrayItem, StepOrThrow
  <1>3. CASE cursor' = cursor /\ pc' \in {"value", "done"}
    BY <1>1, <1>2, <1>3, StepsInRange
  <1>4. CASE NameAt(cursor) /\ cursor' = Skipped(AfterName(cursor)) /\ pc' = "value"
    <2>1. AfterName(cursor) \in Nat /\ cursor <= AfterName(cursor) /\ AfterName(cursor) <= end
      BY <1>1, <1>4, Names DEF ReadInv
    <2>2. cursor' \in Nat /\ AfterName(cursor) <= cursor' /\ cursor' <= end
      BY <2>1, <1>4, Skips DEF ReadInv
    <2>3. cursor' \in Nat \ {0}
      BY <1>1, <2>1, <2>2
    <2> QED  BY <1>1, <1>2, <1>4, <2>2, <2>3, StepsInRange
  <1> QED  BY <1>3, <1>4 DEF ArrayItem, StepOrThrow, Goto

\* A key ends in the range (object_deserializer.cpp:79-81).
LEMMA PlainPropertyKeeps == ASSUME ReadInv, PlainProperty PROVE ReadInv'
  <1>1. pc = "item" /\ cursor \in Nat \ {0} /\ cursor <= end
    BY ItemInRange DEF PlainProperty
  <1>2. UNCHANGED <<param, range>>
    BY DEF PlainProperty, StepOrThrow
  <1>3. PICK kv : \/ cursor' = Skipped(KeyEnd(cursor, kv)) /\ pc' = "value"
                  \/ cursor' = cursor /\ pc' = "done"
    BY DEF PlainProperty, StepOrThrow, Goto
  <1>4. KeyEnd(cursor, kv) \in cursor..end
    BY <1>1, KeyEnds DEF ReadInv
  <1>5. end \in Nat
    BY RangeKnown DEF ReadInv
  <1>6. /\ Skipped(KeyEnd(cursor, kv)) \in Nat /\ KeyEnd(cursor, kv) <= Skipped(KeyEnd(cursor, kv))
        /\ Skipped(KeyEnd(cursor, kv)) <= end
    BY <1>1, <1>4, <1>5, Skips DEF ReadInv
  <1>7. Skipped(KeyEnd(cursor, kv)) \in Nat \ {0}
    BY <1>1, <1>4, <1>5, <1>6
  <1> QED  BY <1>1, <1>2, <1>3, <1>6, <1>7, StepsInRange

\* Name, brackets, key and '=' lie in the range (object_deserializer.cpp:41-46).
LEMMA DeepPropertyKeeps == ASSUME ReadInv, DeepProperty PROVE ReadInv'
  <1> DEFINE c == Skipped(AfterName(cursor))
             d == KeyEnd(c, "]")
             e == Skipped(d)
             f == Skipped(e)
  <1>1. pc = "item" /\ cursor \in Nat \ {0} /\ cursor <= end /\ end \in Nat
    BY ItemInRange, RangeKnown DEF DeepProperty, ReadInv
  <1>2. UNCHANGED <<param, range>>
    BY DEF DeepProperty, StepOrThrow
  <1>3. \/ NameAt(cursor) /\ cursor' = f /\ pc' = "value"
        \/ cursor' = cursor /\ pc' = "done"
    BY DEF DeepProperty, StepOrThrow, Goto
  <1>4. CASE cursor' = cursor /\ pc' = "done"
    BY <1>1, <1>2, <1>4, StepsInRange
  <1>5. CASE NameAt(cursor) /\ cursor' = f /\ pc' = "value"
    <2>1. AfterName(cursor) \in Nat /\ cursor <= AfterName(cursor) /\ AfterName(cursor) <= end
      BY <1>1, <1>5, Names DEF ReadInv
    <2>2. c \in Nat /\ AfterName(cursor) <= c /\ c <= end
      BY <2>1, Skips DEF ReadInv
    <2> HIDE DEF c
    <2>3. d \in c..end
      BY <2>2, KeyEnds DEF ReadInv
    <2> HIDE DEF d
    <2>4. d \in Nat /\ c <= d /\ d <= end
      BY <1>1, <2>2, <2>3
    <2>5. e \in Nat /\ d <= e /\ e <= end
      BY <2>4, Skips DEF ReadInv
    <2> HIDE DEF e
    <2>6. f \in Nat /\ e <= f /\ f <= end
      BY <2>5, Skips DEF ReadInv
    <2> HIDE DEF f
    <2>7. f \in Nat \ {0}
      BY <1>1, <2>1, <2>2, <2>4, <2>5, <2>6
    <2> QED  BY <1>1, <1>2, <1>5, <2>6, <2>7, StepsInRange
  <1> HIDE DEF f
  <1> QED  BY <1>3, <1>4, <1>5

-----------------------------------------------------------------------------
(* Values and what separates them.                                         *)

\* After a value the loops go on.
LEMMA AfterValueKnown == AfterValue \in {"separator", "end"}
  BY DEF AfterValue

\* A boolean is one cell of the range.
LEMMA BooleanKeeps == ASSUME ReadInv, DeserializeBoolean PROVE ReadInv'
  <1>1. pc = "value" /\ cursor \in Nat \ {0} /\ cursor <= end /\ end \in Nat
    BY CursorInRange, RangeKnown DEF DeserializeBoolean, ReadInv
  <1>2. UNCHANGED <<param, range>>
    BY DEF DeserializeBoolean, StepOrThrow
  <1>3. CASE cursor' = cursor /\ pc' = "done"
    BY <1>1, <1>2, <1>3, StepsInRange
  <1>4. CASE InRange(cursor) /\ cursor' = cursor + 1 /\ pc' = AfterValue
    <2>1. cursor + 1 \in Nat \ {0} /\ cursor + 1 <= end
      BY <1>1, <1>4 DEF InRange
    <2> QED  BY <1>1, <1>2, <1>4, <2>1, StepsInRange, AfterValueKnown
  <1> QED  BY <1>3, <1>4 DEF DeserializeBoolean, StepOrThrow, Goto

\* The end of a numeral is in the range.
LEMMA NumeralKeeps ==
    ASSUME ReadInv, pc = "value", NEW chars, UNCHANGED <<param, range>>,
           \/ cursor' = RunEnd(AfterSign, chars) /\ pc' = AfterValue
           \/ cursor' = cursor /\ pc' = "done"
    PROVE  ReadInv'
  <1>1. cursor \in Nat \ {0} /\ cursor <= end /\ end \in Nat
    BY CursorInRange, RangeKnown DEF ReadInv
  <1>2. AfterSign \in Nat \ {0} /\ AfterSign <= end
    BY <1>1 DEF AfterSign, InRange
  <1>3. RunEnd(AfterSign, chars) \in AfterSign..end
    BY <1>2, RunEnds DEF ReadInv
  <1>4. RunEnd(AfterSign, chars) \in Nat \ {0} /\ RunEnd(AfterSign, chars) <= end
    BY <1>1, <1>2, <1>3
  <1> QED  BY <1>1, <1>4, StepsInRange, AfterValueKnown

\* An integer or a number ends in the range (base_deserializer.hpp:106-142).
LEMMA NumbersKeep == ASSUME ReadInv, DeserializeInteger \/ DeserializeNumber PROVE ReadInv'
  <1>1. CASE DeserializeInteger
    <2>1. /\ pc = "value" /\ UNCHANGED <<param, range>>
          /\ \/ cursor' = RunEnd(AfterSign, Digits) /\ pc' = AfterValue
             \/ cursor' = cursor /\ pc' = "done"
      BY <1>1 DEF DeserializeInteger, StepOrThrow, TakeNumeral, Goto
    <2> QED  BY <2>1, NumeralKeeps
  <1>2. CASE DeserializeNumber
    <2>1. /\ pc = "value" /\ UNCHANGED <<param, range>>
          /\ \/ cursor' = RunEnd(AfterSign, Digits \cup {"."}) /\ pc' = AfterValue
             \/ cursor' = cursor /\ pc' = "done"
      BY <1>2 DEF DeserializeNumber, StepOrThrow, TakeNumeral, Goto
    <2> QED  BY <2>1, NumeralKeeps
  <1> QED  BY <1>1, <1>2

\* So does a string, whose escapes are whole (base_deserializer.hpp:144-203).
LEMMA StringKeeps ==
    ASSUME ReadInv, BeginString \/ Plain \/ Escape \/ EndString
    PROVE  ReadInv'
  <1>1. /\ pc \in {"value", "string"} /\ cursor \in Nat \ {0} /\ cursor <= end /\ end \in Nat
        /\ UNCHANGED <<param, range>>
    <2>1. pc \in {"value", "string"} /\ UNCHANGED <<param, range>>
      BY DEF BeginString, Plain, Escape, EndString, StringGoesOn, StepOrThrow
    <2> QED  BY <2>1, CursorInRange, RangeKnown DEF ReadInv
  <1>2. \/ cursor' = cursor /\ pc' \in {"string", "done", AfterValue}
        \/ cursor' = cursor + 1 /\ InRange(cursor) /\ pc' = "string"
        \/ cursor' = cursor + 3 /\ cursor + 2 < end /\ pc' = "string"
    BY DEF BeginString, Plain, Escape, EndString, StringGoesOn, StepOrThrow, Goto
  <1>3. cursor' \in Nat \ {0} /\ cursor' <= end /\ pc' # "idle"
    BY <1>1, <1>2, AfterValueKnown DEF InRange
  <1> QED  BY <1>1, <1>3, StepsInRange

\* An array's separator must be followed by an item (array_deserializer.hpp:34-46).
LEMMA SeparatorKeeps == ASSUME ReadInv, CheckSeparator PROVE ReadInv'
  <1>1. pc = "separator" /\ cursor \in Nat \ {0} /\ cursor <= end /\ end \in Nat
    BY CursorInRange, RangeKnown DEF CheckSeparator, ReadInv
  <1>2. UNCHANGED <<param, range>>
    BY DEF CheckSeparator, StepOrThrow
  <1>3. Len(SeparatorText) \in Nat
    BY DEF SeparatorText
  <1>4. CASE cursor' = cursor /\ pc' \in {"item", "done"}
    BY <1>1, <1>2, <1>4, StepsInRange
  <1>5. CASE /\ cursor + Len(SeparatorText) < end
             /\ cursor' = cursor + Len(SeparatorText) /\ pc' = "item"
    <2>1. cursor' \in Nat \ {0} /\ cursor' <= end
      BY <1>1, <1>3, <1>5
    <2> QED  BY <1>1, <1>2, <1>5, <2>1, StepsInRange
  <1> QED  BY <1>4, <1>5 DEF CheckSeparator, StepOrThrow, Goto

\* An object's separator may end the range, but not the buffer.
LEMMA VKSeparatorKeeps == ASSUME ReadInv, SkipVKSeparator PROVE ReadInv'
  <1>1. pc = "separator" /\ cursor \in Nat \ {0} /\ cursor <= end /\ end \in Nat
    BY CursorInRange, RangeKnown DEF SkipVKSeparator, ReadInv
  <1>2. UNCHANGED <<param, range>>
    BY DEF SkipVKSeparator, StepOrThrow
  <1>3. CASE cursor' = cursor /\ pc' \in {"item", "done"}
    BY <1>1, <1>2, <1>3, StepsInRange
  <1>4. CASE At(buffer, cursor) = vk_separator_ /\ cursor' = cursor + 1 /\ pc' = "item"
    <2>1. vk_separator_ \in {".", ";", "&", ","}
      BY DEF vk_separator_, ObjVKSep
    <2>2. cursor \in 1..Len(buffer)
      BY <1>4, <2>1 DEF At, NUL
    <2>3. CASE cursor = end
      <3>1. CallKnown'
        BY <1>1, <1>2, <1>4 DEF ReadInv, CallKnown
      <3>2. end' = end /\ Len(buffer)' = Len(buffer) /\ Len(buffer) \in Nat
        BY <1>2, RangeKnown DEF end, buffer, ReadInv
      <3>3. CursorKept'
        BY <1>1, <1>4, <2>2, <2>3, <3>2 DEF CursorKept
      <3> QED  BY <3>1, <3>3 DEF ReadInv
    <2>4. CASE cursor # end
      <3>1. cursor + 1 \in Nat \ {0} /\ cursor + 1 <= end
        BY <1>1, <2>4
      <3> QED  BY <1>1, <1>2, <1>4, <3>1, StepsInRange
    <2> QED  BY <2>3, <2>4
  <1> QED  BY <1>3, <1>4 DEF SkipVKSeparator, StepOrThrow, Goto

\* The end of the loops, and of the call.
LEMMA EndsKeep == ASSUME ReadInv, EndItems \/ CheckEnd PROVE ReadInv'
  <1>1. /\ pc \in {"item", "end"} /\ UNCHANGED <<param, range>> /\ cursor' = cursor
        /\ pc' \in {"end", "done"}
    BY DEF EndItems, CheckEnd, StepOrThrow, Goto
  <1>2. end' = end /\ buffer' = buffer
    BY <1>1 DEF end, buffer
  <1>3. CallKnown'
    BY <1>1 DEF ReadInv, CallKnown
  <1>4. CursorKept'
    BY <1>1, <1>2 DEF ReadInv, CursorKept
  <1> QED  BY <1>3, <1>4 DEF ReadInv

\* Between calls there is no range.
LEMMA IdleKept ==
    ASSUME pc = "idle", range = NoRange, cursor = 1
    PROVE  ReadInv
  BY DEF ReadInv, CallKnown, CursorKept, NoRange, end

-----------------------------------------------------------------------------
\* The invariant is inductive.
LEMMA StepKeepsReads == ReadInv /\ [Next]_vars => ReadInv'
  <1> SUFFICES ASSUME ReadInv, [Next]_vars PROVE ReadInv'
    OBVIOUS
  <1>1. CASE CheckNSkipStart \/ CheckNSkipName \/ CheckData
    BY <1>1, StartKeeps, NameKeeps, DataKeeps
  <1>2. CASE ArrayItem \/ PlainProperty \/ DeepProperty
    BY <1>2, ArrayItemKeeps, PlainPropertyKeeps, DeepPropertyKeeps
  <1>3. CASE DeserializeBoolean \/ DeserializeInteger \/ DeserializeNumber
    BY <1>3, BooleanKeeps, NumbersKeep
  <1>4. CASE BeginString \/ Plain \/ Escape \/ EndString
    BY <1>4, StringKeeps
  <1>5. CASE CheckSeparator \/ SkipVKSeparator \/ EndItems \/ CheckEnd
    BY <1>5, SeparatorKeeps, VKSeparatorKeeps, EndsKeep
  <1>6. CASE Return
    <2>1. pc' = "idle" /\ range' = NoRange /\ cursor' = 1
      BY <1>6 DEF Return, NoRange
    <2> QED  BY <2>1 DEF ReadInv, CallKnown, CursorKept, NoRange, end
  <1>7. CASE \E p \in Params : \E r \in Ranges[p] : Call(p, r)
    BY <1>7, CallKeeps
  <1>8. CASE UNCHANGED vars
    <2>1. pc' = pc /\ param' = param /\ range' = range /\ cursor' = cursor
      BY <1>8 DEF vars
    <2> QED  BY <2>1 DEF ReadInv, CallKnown, CursorKept, end, buffer
  <1> QED  BY <1>1, <1>2, <1>3, <1>4, <1>5, <1>6, <1>7, <1>8 DEF Next, Deserialize

\* No read is beyond the NUL that ends the buffer, for any parameters, styles and
\* ranges (base_deserializer.hpp:51-72, 151, object_deserializer.cpp:70, 105).
THEOREM ReadsAreInBuffer == Spec => []ReadsInBuffer
  <1>1. Init => ReadInv
    BY IdleKept DEF Init, NoRange
  <1>2. ReadInv /\ [Next]_vars => ReadInv'
    BY StepKeepsReads
  <1>3. ReadInv => ReadsInBuffer
    <2> SUFFICES ASSUME ReadInv PROVE ReadsInBuffer
      OBVIOUS
    <2>1. end \in Nat /\ Len(buffer) \in Nat /\ end <= Len(buffer) + 1
      BY RangeKnown DEF ReadInv
    <2> QED  BY <2>1 DEF ReadInv, CursorKept, ReadsInBuffer
  <1> QED  BY <1>1, <1>2, <1>3, PTL DEF Spec

\* The characters that the styles know, and all others.
Sym == STRING \cup {".", ";", "=", ",", "&", "|", "%", "2", "0", "[", "]", " "}

\* Where the first entry begins.
First(p, r) == r.beg + Len(Opening(p, Name))

\* The opening and m entries have been read, each with what follows it: at[k] is
\* where entry k began, and entry m + 1 begins at s.
Row(p, r, tokens, m, at, s) ==
    /\ m \in Nat /\ s \in Nat /\ First(p, r) <= s /\ s <= r.end
    /\ SubSeq(r.buffer, r.beg, First(p, r) - 1) = Opening(p, Name)
    /\ at \in [1..(m + 1) -> First(p, r)..s] /\ at[1] = First(p, r) /\ at[m + 1] = s
    /\ \A k \in 1..m :
         LET to == at[k + 1] - Len(Glue(p))
             e == EntryAt(p, tokens, k)
         IN  /\ at[k] <= to
             /\ SubSeq(r.buffer, at[k], to - 1) = Prefix(p, Name, Key(e)) \o Chars(e)
             /\ SubSeq(r.buffer, to, at[k + 1] - 1) = Glue(p)

\* What comes before an entry's characters has been read from s up to v, and may
\* have been cut short by the end of the range.
PrefixRead(p, r, key, s, v) ==
    /\ v \in Nat /\ s <= v /\ v <= r.end
    /\ \/ SubSeq(r.buffer, s, v - 1) = Prefix(p, Name, key)
       \/ v = r.end /\ SubSeq(r.buffer, s, v - 1) \in Cut(p, Name, key)

\* An entry has been read from s up to c.
EntryRead(p, r, e, s, c) ==
    /\ c \in Nat /\ s <= c /\ c <= r.end
    /\ \/ SubSeq(r.buffer, s, c - 1) = Prefix(p, Name, Key(e)) \o Chars(e)
       \/ /\ c = r.end /\ Chars(e) = <<>>
          /\ SubSeq(r.buffer, s, c - 1) \in Cut(p, Name, Key(e))

\* The last of m entries ends at c.
Ended(p, r, tokens, m, c) ==
    /\ m \in Nat \ {0}
    /\ \E at, s : /\ Row(p, r, tokens, m - 1, at, s)
                  /\ EntryRead(p, r, EntryAt(p, tokens, m), s, c)

\* A range that a parameter may be given.
Suits(p, r) == /\ r.buffer \in Seq(STRING) /\ Len(r.buffer) \in Nat
               /\ r.beg \in Nat \ {0} /\ r.end \in Nat /\ r.beg <= r.end
               /\ r.end <= Len(r.buffer) + 1
               /\ Tabled(p)

-----------------------------------------------------------------------------
(* Sequences.                                                              *)

\* A text is a sequence of the symbols.
LEMMA SymSeq == \A s \in Seq(STRING) : s \in Seq(Sym)
  BY SeqMonotonic DEF Sym

\* What has been read up to one place and from there.
LEMMA Join ==
    ASSUME NEW S, NEW b \in Seq(S), NEW i \in Nat \ {0}, NEW j \in Nat, NEW k \in Nat,
           i <= j, j <= k, k <= Len(b) + 1
    PROVE  SubSeq(b, i, j - 1) \o SubSeq(b, j, k - 1) = SubSeq(b, i, k - 1)
  <1>1. /\ i \in 1..(Len(b) + 1) /\ j - 1 \in (i - 1)..Len(b) /\ k - 1 \in (j - 1)..Len(b)
        /\ (j - 1) + 1 = j
    OBVIOUS
  <1>2. SubSeq(b, i, j - 1) \o SubSeq(b, (j - 1) + 1, k - 1) = SubSeq(b, i, k - 1)
    BY <1>1, ConcatAdjacentSubSeq
  <1> QED  BY <1>1, <1>2

\* A part of a sequence is one over the same set.
LEMMA PartIsSeq ==
    ASSUME NEW S, NEW b \in Seq(S), NEW i \in Nat \ {0}, NEW j \in Nat, j <= Len(b) + 1
    PROVE  SubSeq(b, i, j - 1) \in Seq(S)
  <1>1. i \in Int /\ j - 1 \in Int /\ \A k \in i..(j - 1) : b[k] \in S
    OBVIOUS
  <1> QED  BY <1>1, SubSeqProperties

\* A part of one element.
LEMMA Single ==
    ASSUME NEW S, NEW b \in Seq(S), NEW i \in Nat \ {0}, i <= Len(b)
    PROVE  SubSeq(b, i, i) = <<b[i]>>
  <1>1. i \in 1..Len(b) /\ i \in i..Len(b) /\ i - 1 < i /\ i - 1 \in Int /\ i \in Int
    OBVIOUS
  <1>2. SubSeq(b, i, i) = SubSeq(b, i, i - 1) \o <<b[i]>>
    BY <1>1, SubSeqRecursiveSecond
  <1>3. SubSeq(b, i, i - 1) = <<>>
    BY <1>1, SubSeqEmpty
  <1>4. <<b[i]>> \in Seq(S)
    BY <1>1
  <1> QED  BY <1>2, <1>3, <1>4, ConcatEmptySeq

\* A part that ends before it begins.
LEMMA Nothing == ASSUME NEW b, NEW i \in Nat PROVE SubSeq(b, i, i - 1) = <<>>
  <1>1. i \in Int /\ i - 1 \in Int /\ i - 1 < i
    OBVIOUS
  <1> QED  BY <1>1, SubSeqEmpty

\* Sequences of up to three elements.
LEMMA ShortSeqs ==
    ASSUME NEW S, NEW x \in S, NEW y \in S, NEW z \in S
    PROVE  <<x>> \in Seq(S) /\ <<x, y>> \in Seq(S) /\ <<x, y, z>> \in Seq(S)
  <1>1. <<x>> \in Seq(S)
    OBVIOUS
  <1>2. <<x, y>> \in Seq(S)
    OBVIOUS
  <1>3. <<x, y, z>> \in Seq(S)
    OBVIOUS
  <1> QED  BY <1>1, <1>2, <1>3

\* What the styles write around the characters of an entry.
LEMMA StyleSeqs ==
    ASSUME NEW p, NEW key \in Seq(Sym)
    PROVE  /\ Leading(p.style) \in Seq(Sym) /\ Opening(p, Name) \in Seq(Sym)
           /\ Prefix(p, Name, key) \in Seq(Sym) /\ Glue(p) \in Seq(Sym)
           /\ Len(Opening(p, Name)) \in Nat /\ Len(Glue(p)) \in Nat
  <1>1. Name \in Seq(Sym)
    BY NameAssumption, SymSeq
  <1>2. /\ <<>> \in Seq(Sym) /\ <<".">> \in Seq(Sym) /\ <<";">> \in Seq(Sym) /\ <<"=">> \in Seq(Sym)
        /\ <<",">> \in Seq(Sym) /\ <<"&">> \in Seq(Sym) /\ <<"|">> \in Seq(Sym)
        /\ <<"%", "2", "0">> \in Seq(Sym) /\ <<"[">> \in Seq(Sym) /\ <<"]", "=">> \in Seq(Sym)
    <2>1. /\ "." \in Sym /\ ";" \in Sym /\ "=" \in Sym /\ "," \in Sym /\ "&" \in Sym /\ "|" \in Sym
          /\ "%" \in Sym /\ "2" \in Sym /\ "0" \in Sym /\ "[" \in Sym /\ "]" \in Sym
      BY DEF Sym
    <2>2. <<>> \in Seq(Sym)
      OBVIOUS
    <2> QED  BY <2>1, <2>2, ShortSeqs
  <1>3. Leading(p.style) \in Seq(Sym)
    BY <1>2 DEF Leading
  <1>4. Opening(p, Name) \in Seq(Sym)
    <2> DEFINE o == IF Named(p.style) /\ ~Repeated(p) THEN Name \o <<"=">> ELSE <<>>
    <2>1. Name \o <<"=">> \in Seq(Sym)
      BY <1>1, <1>2, ConcatProperties
    <2>2. o \in Seq(Sym)
      BY <1>2, <2>1
    <2> HIDE DEF o
    <2>3. Leading(p.style) \o o \in Seq(Sym)
      BY <1>3, <2>2, ConcatProperties
    <2> QED  BY <2>3 DEF Opening, o
  <1>5. Prefix(p, Name, key) \in Seq(Sym)
    <2>1. Name \o <<"[">> \in Seq(Sym) /\ Name \o <<"=">> \in Seq(Sym)
      BY <1>1, <1>2, ConcatProperties
    <2>2. Name \o <<"[">> \o key \in Seq(Sym)
      BY <2>1, ConcatProperties
    <2>3. Name \o <<"[">> \o key \o <<"]", "=">> \in Seq(Sym)
      BY <1>2, <2>2, ConcatProperties
    <2>4. key \o <<"=">> \in Seq(Sym) /\ key \o <<",">> \in Seq(Sym)
      BY <1>2, ConcatProperties
    <2>5. key \o <<IF p.explode THEN "=" ELSE ",">> \in Seq(Sym)
      BY <2>4
    <2> QED  BY <1>2, <2>1, <2>3, <2>5, Zenon DEF Prefix
  <1>6. Glue(p) \in Seq(Sym)
    BY <1>2 DEF Glue, Between, Delimiter
  <1> QED  BY <1>3, <1>4, <1>5, <1>6

-----------------------------------------------------------------------------
(* Rows of entries.                                                        *)

\* A row speaks of whole entries only, which later tokens do not change.
LEMMA RowStays ==
    ASSUME NEW p, NEW r, NEW old, NEW new, NEW m, NEW at, NEW s, Row(p, r, old, m, at, s),
           \A i \in 1..(Tokens(p) * m - 1) : new[i] = old[i]
    PROVE  Row(p, r, new, m, at, s)
  <1>1. m \in Nat
    BY DEF Row
  <1>2. ASSUME NEW k \in 1..m
        PROVE  EntryAt(p, new, k) = EntryAt(p, old, k)
    <2>1. CASE p.type = "object"
      <3>1. 3 * k - 2 \in 1..(3 * m - 1) /\ 3 * k - 1 \in 1..(3 * m - 1)
        BY <1>1
      <3> QED  BY <2>1, <3>1 DEF EntryAt, Tokens
    <2>2. CASE p.type # "object"
      <3>1. 2 * k - 1 \in 1..(2 * m - 1)
        BY <1>1
      <3> QED  BY <2>2, <3>1 DEF EntryAt, Tokens
    <2> QED  BY <2>1, <2>2
  <1> QED  BY <1>2 DEF Row

\* Nor do they change a last entry that has ended.
LEMMA EndedStays ==
    ASSUME NEW p, NEW r, NEW old, NEW new, NEW m, NEW c, Ended(p, r, old, m, c),
           \A i \in 1..(Tokens(p) * m - 1) : new[i] = old[i]
    PROVE  Ended(p, r, new, m, c)
  <1>1. m \in Nat \ {0}
    BY DEF Ended
  <1>2. PICK at, s : /\ Row(p, r, old, m - 1, at, s)
                     /\ EntryRead(p, r, EntryAt(p, old, m), s, c)
    BY DEF Ended
  <1>3. Tokens(p) \in {2, 3}
    BY DEF Tokens
  <1>4. \A i \in 1..(Tokens(p) * (m - 1) - 1) : new[i] = old[i]
    <2>1. \A i \in 1..(Tokens(p) * (m - 1) - 1) : i \in 1..(Tokens(p) * m - 1)
      BY <1>1, <1>3
    <2> QED  BY <2>1
  <1>5. Row(p, r, new, m - 1, at, s)
    BY <1>2, <1>4, RowStays
  <1>6. EntryAt(p, new, m) = EntryAt(p, old, m)
    <2>1. CASE p.type = "object"
      <3>1. 3 * m - 2 \in 1..(3 * m - 1) /\ 3 * m - 1 \in 1..(3 * m - 1)
        BY <1>1
      <3> QED  BY <2>1, <3>1 DEF EntryAt, Tokens
    <2>2. CASE p.type # "object"
      <3>1. 2 * m - 1 \in 1..(2 * m - 1)
        BY <1>1
      <3> QED  BY <2>2, <3>1 DEF EntryAt, Tokens
    <2> QED  BY <2>1, <2>2
  <1> QED  BY <1>1, <1>2, <1>5, <1>6 DEF Ended

\* After the opening there is a row of no entries.
LEMMA RowStarts ==
    ASSUME NEW p, NEW r, Suits(p, r), NEW tokens, First(p, r) <= r.end,
           SubSeq(r.buffer, r.beg, First(p, r) - 1) = Opening(p, Name)
    PROVE  \E at : Row(p, r, tokens, 0, at, First(p, r))
  <1>1. First(p, r) \in Nat
    <2>1. <<>> \in Seq(Sym)
      OBVIOUS
    <2>2. Len(Opening(p, Name)) \in Nat
      BY <2>1, StyleSeqs
    <2> QED  BY <2>2 DEF First, Suits
  <1> DEFINE at == [k \in 1..1 |-> First(p, r)]
  <1>2. /\ at \in [1..(0 + 1) -> First(p, r)..First(p, r)]
        /\ at[1] = First(p, r) /\ at[0 + 1] = First(p, r)
    BY <1>1
  <1>3. Row(p, r, tokens, 0, at, First(p, r))
    BY <1>1, <1>2 DEF Row, Suits
  <1> QED  BY <1>3

\* An entry that has ended and is followed by what stands between two entries joins
\* the row.
LEMMA RowAdds ==
    ASSUME NEW p, NEW r, Suits(p, r), NEW tokens, NEW m, NEW c \in Nat,
           Ended(p, r, tokens, m, c), NEW d \in Nat, d = c + Len(Glue(p)), c < r.end, d <= r.end,
           SubSeq(r.buffer, c, d - 1) = Glue(p)
    PROVE  \E at : Row(p, r, tokens, m, at, d)
  <1>1. m \in Nat \ {0}
    BY DEF Ended
  <1>2. PICK old, s : /\ Row(p, r, tokens, m - 1, old, s)
                      /\ EntryRead(p, r, EntryAt(p, tokens, m), s, c)
    BY DEF Ended
  <1> DEFINE e(k) == EntryAt(p, tokens, k)
             piece(k) == Prefix(p, Name, Key(e(k))) \o Chars(e(k))
             g == Len(Glue(p))
             f == First(p, r)
             at == [k \in 1..(m + 1) |-> IF k = m + 1 THEN d ELSE old[k]]
  <1>3. g \in Nat /\ f \in Nat
    <2>1. <<>> \in Seq(Sym)
      OBVIOUS
    <2> QED  BY <2>1, StyleSeqs DEF Suits, First
  <1>4. /\ s \in Nat /\ f <= s /\ s <= c /\ m - 1 \in Nat /\ (m - 1) + 1 = m
        /\ SubSeq(r.buffer, r.beg, f - 1) = Opening(p, Name)
        /\ old \in [1..m -> f..s] /\ old[1] = f /\ old[m] = s
        /\ SubSeq(r.buffer, s, c - 1) = piece(m)
    <2>1. /\ s \in Nat /\ f <= s /\ SubSeq(r.buffer, r.beg, f - 1) = Opening(p, Name)
          /\ old \in [1..((m - 1) + 1) -> f..s] /\ old[1] = f /\ old[(m - 1) + 1] = s
      BY <1>2 DEF Row
    <2>2. s <= c /\ SubSeq(r.buffer, s, c - 1) = piece(m)
      <3>1. c # r.end
        BY DEF Suits
      <3> QED  BY <1>2, <3>1 DEF EntryRead
    <2>3. m - 1 \in Nat /\ (m - 1) + 1 = m
      BY <1>1
    <2> QED  BY <2>1, <2>2, <2>3
  <1>5. \A k \in 1..(m - 1) :
          /\ old[k] <= old[k + 1] - g
          /\ SubSeq(r.buffer, old[k], (old[k + 1] - g) - 1) = piece(k)
          /\ SubSeq(r.buffer, old[k + 1] - g, old[k + 1] - 1) = Glue(p)
    BY <1>2 DEF Row
  <1> HIDE DEF g, f, e
  <1>6. d - g = c
    BY <1>3 DEF g
  <1>7. at \in [1..(m + 1) -> f..d] /\ at[1] = f /\ at[m + 1] = d /\ f <= d
    <2>1. s <= d
      BY <1>3, <1>4 DEF g
    <2>2. \A k \in 1..(m + 1) : k # m + 1 => k \in 1..m
      BY <1>1
    <2>3. \A k \in 1..m : old[k] \in f..d
      <3>1. f..s \subseteq f..d
        BY <1>3, <1>4, <2>1
      <3>2. \A k \in 1..m : old[k] \in f..s
        BY <1>4
      <3> QED  BY <3>1, <3>2
    <2>4. d \in f..d
      BY <1>3, <1>4, <2>1
    <2> QED  BY <1>1, <1>4, <2>2, <2>3, <2>4
  <1>8. \A k \in 1..m : /\ at[k] = old[k] /\ (k # m => at[k + 1] = old[k + 1])
                        /\ k = m => at[k + 1] = d
    BY <1>1
  <1>9. ASSUME NEW k \in 1..m
        PROVE  /\ at[k] <= at[k + 1] - g
               /\ SubSeq(r.buffer, at[k], (at[k + 1] - g) - 1) = piece(k)
               /\ SubSeq(r.buffer, at[k + 1] - g, at[k + 1] - 1) = Glue(p)
    <2> HIDE DEF at, piece
    <2>1. CASE k = m
      <3>1. at[k] = s /\ at[k + 1] = d
        BY <1>4, <1>8, <2>1
      <3> QED  BY <1>4, <1>6, <2>1, <3>1
    <2>2. CASE k # m
      <3>1. k \in 1..(m - 1) /\ at[k] = old[k] /\ at[k + 1] = old[k + 1]
        BY <1>1, <1>8, <2>2
      <3> QED  BY <1>5, <3>1
    <2> QED  BY <2>1, <2>2
  <1> HIDE DEF at
  <1>10. Row(p, r, tokens, m, at, d)
    BY <1>1, <1>4, <1>7, <1>9 DEF Row, g, f, e
  <1> QED  BY <1>10

\* A value is read from where its prefix ends.
LEMMA ValueEnds ==
    ASSUME NEW p, NEW r, Suits(p, r), NEW key \in Seq(Sym), NEW s \in Nat \ {0}, NEW v,
           PrefixRead(p, r, key, s, v), NEW c \in Nat, v <= c, c <= r.end
    PROVE  EntryRead(p, r, <<key, SubSeq(r.buffer, v, c - 1)>>, s, c)
  <1> DEFINE chars == SubSeq(r.buffer, v, c - 1)
             e == <<key, chars>>
  <1>1. Key(e) = key /\ Chars(e) = chars
    BY DEF Key, Chars
  <1>2. v \in Nat \ {0} /\ s <= v /\ s <= c
    BY DEF PrefixRead
  <1>3. SubSeq(r.buffer, s, v - 1) \o chars = SubSeq(r.buffer, s, c - 1)
    <2>1. r.buffer \in Seq(STRING) /\ v \in Nat /\ c <= Len(r.buffer) + 1
      BY <1>2 DEF Suits
    <2> QED  BY <1>2, <2>1, Join
  <1>4. CASE SubSeq(r.buffer, s, v - 1) = Prefix(p, Name, key)
    BY <1>1, <1>2, <1>3, <1>4 DEF EntryRead
  <1>5. CASE v = r.end /\ SubSeq(r.buffer, s, v - 1) \in Cut(p, Name, key)
    <2>1. c = v
      BY <1>2, <1>5 DEF Suits
    <2>2. chars = <<>>
      BY <1>2, <2>1, Nothing
    <2> QED  BY <1>1, <1>2, <1>5, <2>1, <2>2 DEF EntryRead
  <1> QED  BY <1>4, <1>5 DEF PrefixRead

\* What was read to the end is spelt.
LEMMA EndSpells ==
    ASSUME NEW p, NEW r, Suits(p, r), NEW tokens, NEW m, Ended(p, r, tokens, m, r.end),
           Len(tokens) = Tokens(p) * m - 1
    PROVE  Spells(r.buffer, r.beg, r.end, p, Name, Entries(p, tokens))
  <1>1. m \in Nat \ {0}
    BY DEF Ended
  <1>2. PICK at, s : /\ Row(p, r, tokens, m - 1, at, s)
                     /\ EntryRead(p, r, EntryAt(p, tokens, m), s, r.end)
    BY DEF Ended
  <1> DEFINE value == Entries(p, tokens)
             e(k) == EntryAt(p, tokens, k)
             f == First(p, r)
             g == Len(Glue(p))
             to(k) == IF k = m THEN r.end ELSE at[k + 1] - g
             piece(k) == Prefix(p, Name, Key(e(k))) \o Chars(e(k))
  <1>3. (Len(tokens) + 1) \div Tokens(p) = m
    <2>1. Tokens(p) \in {2, 3}
      BY DEF Tokens
    <2>2. Len(tokens) + 1 = Tokens(p) * m
      BY <1>1, <2>1
    <2> QED  BY <1>1, <2>1, <2>2
  <1>4. Len(value) = m /\ \A k \in 1..m : value[k] = e(k)
    BY <1>1, <1>3 DEF Entries
  <1>5. f \in Nat /\ g \in Nat
    <2>1. <<>> \in Seq(Sym)
      OBVIOUS
    <2> QED  BY <2>1, StyleSeqs DEF Suits, First
  <1>6. /\ s \in Nat /\ f <= s /\ s <= r.end /\ (m - 1) + 1 = m
        /\ SubSeq(r.buffer, r.beg, f - 1) = Opening(p, Name)
        /\ at \in [1..m -> f..s] /\ at[1] = f /\ at[m] = s
    BY <1>1, <1>2 DEF Row, EntryRead
  <1>7. /\ f <= r.end /\ r.end \in Nat
        /\ at \in [1..m -> f..r.end]
    BY <1>5, <1>6 DEF Suits
  <1> HIDE DEF f, g, e, value
  <1>8. ASSUME NEW k \in 1..m
        PROVE  /\ at[k] <= to(k)
               /\ \/ SubSeq(r.buffer, at[k], to(k) - 1) = piece(k)
                  \/ /\ k = m /\ Chars(e(k)) = <<>>
                     /\ SubSeq(r.buffer, at[k], r.end - 1) \in Cut(p, Name, Key(e(k)))
               /\ k < m => SubSeq(r.buffer, to(k), at[k + 1] - 1) = Glue(p)
    <2>1. CASE k = m
      <3>1. to(k) = r.end /\ at[k] = s /\ ~(k < m)
        BY <1>1, <1>6, <2>1
      <3>2. /\ s <= r.end
            /\ \/ SubSeq(r.buffer, s, r.end - 1) = Prefix(p, Name, Key(e(m))) \o Chars(e(m))
               \/ /\ Chars(e(m)) = <<>>
                  /\ SubSeq(r.buffer, s, r.end - 1) \in Cut(p, Name, Key(e(m)))
        BY <1>2, <1>6 DEF EntryRead, e
      <3> QED  BY <2>1, <3>1, <3>2
    <2>2. CASE k # m
      <3>1. k \in 1..(m - 1)
        BY <1>1, <2>2
      <3> QED  BY <1>2, <2>2, <3>1 DEF Row, g, e
    <2> QED  BY <2>1, <2>2
  <1> HIDE DEF to, piece
  <1>9. \A k \in 1..Len(value) :
          /\ at[k] <= to(k)
          /\ \/ SubSeq(r.buffer, at[k], to(k) - 1) = piece(k)
             \/ /\ k = Len(value) /\ Chars(value[k]) = <<>>
                /\ SubSeq(r.buffer, at[k], r.end - 1) \in Cut(p, Name, Key(value[k]))
          /\ k < Len(value) => SubSeq(r.buffer, to(k), at[k + 1] - 1) = Glue(p)
    BY <1>4, <1>8
  <1>10. /\ f <= r.end /\ at \in [1..Len(value) -> f..r.end] /\ at[1] = f
         /\ SubSeq(r.buffer, r.beg, f - 1) = Opening(p, Name)
    BY <1>4, <1>6, <1>7
  <1>11. \A k \in 1..Len(value) :
           /\ to(k) = IF k = Len(value) THEN r.end ELSE at[k + 1] - Len(Glue(p))
           /\ piece(k) = Prefix(p, Name, Key(value[k])) \o Chars(value[k])
    BY <1>4 DEF to, piece, g, e
  <1> HIDE DEF to, piece
  <1> QED  BY <1>9, <1>10, <1>11 DEF Spells, f, First, value

-----------------------------------------------------------------------------
(* Calls end.                                                              *)

\* How far a call is from its end while its cursor does not move.
Rank == CASE pc = "start" -> 9
          [] pc = "name" -> 8
          [] pc = "data" -> 7
          [] pc = "item" -> IF kind = "array" /\ InRange(cursor) THEN 6 ELSE 2
          [] pc = "value" -> 5
          [] pc = "string" -> 4
          [] pc = "separator" -> 3
          [] pc = "end" -> 1
          [] OTHER -> 0

\* The steps that a call may still take are no more than this.
StepsLeft == 10 * (end + 1 - cursor) + Rank

Forward == /\ cursor' \in Nat /\ cursor' >= cursor
           /\ cursor' = cursor => Rank' < Rank

(* Every step of a call brings it nearer to its end: each turn of a loop   *)
(* moves the cursor or throws (array_deserializer.hpp:48-102,              *)
(* object_deserializer.cpp:40-113).                                        *)
StepsRunOut == [][Deserialize => StepsLeft' \in Nat /\ StepsLeft' < StepsLeft]_vars

\* The rank is less than the weight of a position.
LEMMA RankKnown == Rank \in 0..9
  BY DEF Rank

\* Where a step begins.
LEMMA Place ==
    ASSUME ReadInv
    PROVE  cursor \in Nat \ {0} /\ end \in Nat /\ cursor <= end + 1
  <1>1. end \in Nat
    BY RangeKnown DEF ReadInv
  <1> QED  BY <1>1 DEF ReadInv, CursorKept

\* What is made of the parameter stays for the call.
LEMMA KindStays == ASSUME UNCHANGED <<param, range>> PROVE kind' = kind /\ end' = end
  BY DEF kind, end

\* The start, the name and the data are passed once (base_deserializer.hpp:51-88).
LEMMA BeginForward ==
    ASSUME ReadInv, CheckNSkipStart \/ CheckNSkipName \/ CheckData
    PROVE  Forward
  <1>1. /\ UNCHANGED <<param, range>> /\ cursor \in Nat \ {0} /\ end \in Nat
        /\ pc \in {"start", "name", "data"}
    BY Place DEF CheckNSkipStart, CheckNSkipName, CheckData, StepOrThrow
  <1>2. kind' = kind /\ end' = end /\ cursor <= end
    BY <1>1, KindStays, CursorInRange
  <1>3. CASE CheckNSkipStart
    <2>1. cursor' \in {cursor, cursor + 1} /\ pc = "start" /\ pc' \in {"name", "done"}
      BY <1>3 DEF CheckNSkipStart, StepOrThrow, Goto
    <2> QED  BY <1>1, <2>1 DEF Forward, Rank
  <1>4. CASE CheckNSkipName
    <2>1. /\ pc = "name" /\ pc' \in {"data", "done"}
          /\ \/ cursor' = cursor
             \/ NameAt(cursor) /\ cursor' = Skipped(AfterName(cursor))
      BY <1>4 DEF CheckNSkipName, StepOrThrow, Goto
    <2>2. Rank' < Rank
      BY <2>1 DEF Rank
    <2>3. ASSUME NameAt(cursor)
          PROVE  Skipped(AfterName(cursor)) \in Nat /\ cursor <= Skipped(AfterName(cursor))
      <3>1. AfterName(cursor) \in Nat /\ cursor <= AfterName(cursor) /\ AfterName(cursor) <= end
        BY <1>1, <2>3, Names DEF ReadInv
      <3>2. Skipped(AfterName(cursor)) \in Nat /\ AfterName(cursor) <= Skipped(AfterName(cursor))
        BY <3>1, Skips DEF ReadInv
      <3> QED  BY <1>1, <3>1, <3>2
    <2> QED  BY <1>1, <2>1, <2>2, <2>3 DEF Forward
  <1>5. CASE CheckData
    <2>1. cursor' = cursor /\ pc = "data" /\ pc' \in {"string", "value", "item", "done"}
      BY <1>5 DEF CheckData, StepOrThrow, Goto
    <2> QED  BY <1>1, <2>1 DEF Forward, Rank
  <1> QED  BY <1>3, <1>4, <1>5

\* A turn of a loop goes on to a value or throws (array_deserializer.hpp:50-56,
\* object_deserializer.cpp:41-50, 79-85).
LEMMA ItemForward ==
    ASSUME ReadInv, ArrayItem \/ PlainProperty \/ DeepProperty
    PROVE  Forward
  <1>1. /\ UNCHANGED <<param, range>> /\ cursor \in Nat \ {0} /\ end \in Nat
        /\ pc = "item" /\ InRange(cursor) /\ cursor < end /\ cursor <= end
    BY Place DEF ArrayItem, PlainProperty, DeepProperty, StepOrThrow, InRange
  <1>2. CASE cursor' = cursor /\ pc' = "done"
    <2>1. Rank' = 0 /\ Rank \in {2, 6}
      BY <1>1, <1>2 DEF Rank
    <2> QED  BY <1>1, <1>2, <2>1 DEF Forward
  <1>3. CASE ArrayItem /\ pc' # "done"
    <2>1. /\ kind = "array" /\ pc' = "value"
          /\ \/ cursor' = cursor
             \/ NameAt(cursor) /\ cursor' = Skipped(AfterName(cursor))
      BY <1>3 DEF ArrayItem, StepOrThrow, Goto
    <2>2. Rank' < Rank
      BY <1>1, <2>1 DEF Rank
    <2>3. ASSUME NameAt(cursor)
          PROVE  Skipped(AfterName(cursor)) \in Nat /\ cursor <= Skipped(AfterName(cursor))
      <3>1. AfterName(cursor) \in Nat /\ cursor <= AfterName(cursor) /\ AfterName(cursor) <= end
        BY <1>1, <2>3, Names DEF ReadInv
      <3>2. Skipped(AfterName(cursor)) \in Nat /\ AfterName(cursor) <= Skipped(AfterName(cursor))
        BY <3>1, Skips DEF ReadInv
      <3> QED  BY <1>1, <3>1, <3>2
    <2> QED  BY <1>1, <2>1, <2>2, <2>3 DEF Forward
  <1>4. CASE PlainProperty /\ pc' # "done"
    <2>1. PICK kv : cursor' = Skipped(KeyEnd(cursor, kv))
      BY <1>4 DEF PlainProperty, StepOrThrow, Goto
    <2> DEFINE d == KeyEnd(cursor, kv)
    <2>2. d \in cursor..end
      BY <1>1, KeyEnds DEF ReadInv
    <2> HIDE DEF d
    <2>3. d \in Nat /\ cursor <= d /\ d <= end
      BY <1>1, <2>2
    <2>4. Skipped(d) \in Nat /\ Skipped(d) > cursor
      BY <1>1, <2>3 DEF Skipped, InRange
    <2> QED  BY <1>1, <2>1, <2>4 DEF Forward, d
  <1>5. CASE DeepProperty /\ pc' # "done"
    <2> DEFINE c == Skipped(AfterName(cursor))
               d == KeyEnd(c, "]")
               e == Skipped(d)
               f == Skipped(e)
    <2>1. NameAt(cursor) /\ cursor' = f
      BY <1>5 DEF DeepProperty, StepOrThrow, Goto
    <2>2. AfterName(cursor) \in Nat /\ cursor <= AfterName(cursor) /\ AfterName(cursor) <= end
      BY <1>1, <2>1, Names DEF ReadInv
    <2>3. c \in Nat /\ cursor < c /\ c <= end
      BY <1>1, <2>2 DEF Skipped, InRange
    <2> HIDE DEF c
    <2>4. d \in c..end
      BY <2>3, KeyEnds DEF ReadInv
    <2> HIDE DEF d
    <2>5. d \in Nat /\ c <= d /\ d <= end
      BY <1>1, <2>3, <2>4
    <2>6. e \in Nat /\ d <= e /\ e <= end
      BY <2>5, Skips DEF ReadInv
    <2> HIDE DEF e
    <2>7. f \in Nat /\ e <= f
      BY <2>6, Skips DEF ReadInv
    <2> HIDE DEF f
    <2>8. cursor' \in Nat /\ cursor' > cursor
      BY <1>1, <2>1, <2>3, <2>5, <2>6, <2>7
    <2> QED  BY <1>1, <2>8 DEF Forward
  <1>6. pc' = "done" => cursor' = cursor
    BY DEF ArrayItem, PlainProperty, DeepProperty, StepOrThrow, Goto
  <1> QED  BY <1>2, <1>3, <1>4, <1>5, <1>6

\* A value, and a character of a string, move the cursor or end (base_deserializer.hpp:90-203).
LEMMA ValueForward ==
    ASSUME ReadInv, \/ DeserializeBoolean \/ DeserializeInteger \/ DeserializeNumber
                    \/ BeginString \/ Plain \/ Escape \/ EndString
    PROVE  Forward
  <1>1. cursor \in Nat \ {0} /\ end \in Nat /\ AfterValue \in {"separator", "end"}
    BY Place, AfterValueKnown
  <1>2. CASE cursor' = cursor /\ pc \in {"value", "string"} /\ pc' = "done"
    <2>1. Rank' = 0 /\ Rank \in {4, 5}
      BY <1>2 DEF Rank
    <2> QED  BY <1>1, <1>2, <2>1 DEF Forward
  <1>3. CASE DeserializeBoolean
    <2>1. /\ pc = "value"
          /\ \/ cursor' = cursor + 1
             \/ cursor' = cursor /\ pc' = "done"
      BY <1>3 DEF DeserializeBoolean, StepOrThrow, Goto
    <2> QED  BY <1>1, <1>2, <2>1 DEF Forward
  <1>4. ASSUME NEW to \in Nat, Numeral(to), cursor' = to
        PROVE  Forward
    BY <1>1, <1>4 DEF Numeral, Forward
  <1>5. ASSUME NEW chars, pc = "value"
        PROVE  RunEnd(AfterSign, chars) \in Nat
    <2>1. cursor <= end
      BY <1>5, CursorInRange
    <2>2. AfterSign \in Nat /\ AfterSign <= end
      BY <1>1, <2>1 DEF AfterSign, InRange
    <2>3. RunEnd(AfterSign, chars) \in AfterSign..end
      BY <2>2, RunEnds DEF ReadInv
    <2> QED  BY <1>1, <2>2, <2>3
  <1>6. CASE DeserializeInteger
    <2>1. /\ pc = "value"
          /\ \/ Numeral(RunEnd(AfterSign, Digits)) /\ cursor' = RunEnd(AfterSign, Digits)
             \/ cursor' = cursor /\ pc' = "done"
      BY <1>6 DEF DeserializeInteger, StepOrThrow, TakeNumeral, Goto
    <2> QED  BY <1>2, <1>4, <1>5, <2>1
  <1>7. CASE DeserializeNumber
    <2> DEFINE to == RunEnd(AfterSign, Digits \cup {"."})
    <2>1. /\ pc = "value"
          /\ \/ Numeral(to) /\ cursor' = to
             \/ cursor' = cursor /\ pc' = "done"
      BY <1>7 DEF DeserializeNumber, StepOrThrow, TakeNumeral, Goto
    <2> QED  BY <1>2, <1>4, <1>5, <2>1
  <1>8. CASE BeginString \/ EndString
    <2>1. /\ cursor' = cursor
          /\ \/ pc = "value" /\ pc' = "string"
             \/ pc = "string" /\ pc' = AfterValue
      BY <1>8 DEF BeginString, EndString, StepOrThrow, Goto
    <2> QED  BY <1>1, <2>1 DEF Forward, Rank
  <1>9. CASE Plain \/ Escape
    <2>1. /\ pc = "string"
          /\ \/ cursor' = cursor + 1 \/ cursor' = cursor + 3
             \/ cursor' = cursor /\ pc' = "done"
      BY <1>9 DEF Plain, Escape, StringGoesOn, StepOrThrow, Goto
    <2> QED  BY <1>1, <1>2, <2>1 DEF Forward
  <1> QED  BY <1>3, <1>6, <1>7, <1>8, <1>9

\* A separator is skipped, or the range has ended (array_deserializer.hpp:34-46,
\* object_deserializer.cpp:70-73, 105-108).
LEMMA EndForward ==
    ASSUME ReadInv, CheckSeparator \/ SkipVKSeparator \/ EndItems \/ CheckEnd
    PROVE  Forward
  <1>1. /\ UNCHANGED <<param, range>> /\ cursor \in Nat \ {0} /\ end \in Nat
        /\ kind' = kind /\ end' = end
    <2>1. UNCHANGED <<param, range>>
      BY DEF CheckSeparator, SkipVKSeparator, EndItems, CheckEnd, StepOrThrow
    <2> QED  BY <2>1, Place, KindStays
  <1>2. CASE CheckSeparator
    <2> DEFINE c == cursor + Len(SeparatorText)
    <2>1. Len(SeparatorText) \in {1, 3}
      BY DEF SeparatorText
    <2>2. /\ pc = "separator"
          /\ \/ cursor' = c /\ pc' = "item"
             \/ ~InRange(cursor) /\ cursor' = cursor /\ pc' = "item"
             \/ cursor' = cursor /\ pc' = "done"
      BY <1>2 DEF CheckSeparator, StepOrThrow, Goto
    <2>3. CASE ~InRange(cursor) /\ cursor' = cursor /\ pc' = "item"
      <3>1. ~InRange(cursor)' /\ Rank' = 2 /\ Rank = 3
        BY <1>1, <2>2, <2>3 DEF InRange, Rank
      <3> QED  BY <1>1, <2>3, <3>1 DEF Forward
    <2>4. CASE cursor' = cursor /\ pc' = "done"
      <3>1. Rank' = 0 /\ Rank = 3
        BY <2>2, <2>4 DEF Rank
      <3> QED  BY <1>1, <2>4, <3>1 DEF Forward
    <2> QED  BY <1>1, <2>1, <2>2, <2>3, <2>4 DEF Forward
  <1>3. CASE SkipVKSeparator
    <2>1. /\ pc = "separator" /\ kind = "object" /\ pc' = "item"
          /\ cursor' = cursor + 1 \/ cursor' = cursor
      BY <1>3 DEF SkipVKSeparator, StepOrThrow, Goto
    <2>2. Rank' = 2 /\ Rank = 3
      BY <1>1, <2>1 DEF Rank
    <2> QED  BY <1>1, <2>1, <2>2 DEF Forward
  <1>4. CASE EndItems
    <2>1. pc = "item" /\ ~InRange(cursor) /\ pc' = "end" /\ cursor' = cursor
      BY <1>4 DEF EndItems, StepOrThrow, Goto
    <2> QED  BY <1>1, <2>1 DEF Forward, Rank
  <1>5. CASE CheckEnd
    <2>1. pc = "end" /\ pc' = "done" /\ cursor' = cursor
      BY <1>5 DEF CheckEnd, StepOrThrow, Goto
    <2> QED  BY <1>1, <2>1 DEF Forward, Rank
  <1> QED  BY <1>2, <1>3, <1>4, <1>5

\* A smaller rank, or any rank behind a cursor that has moved.
LEMMA Fewer ==
    ASSUME NEW e \in Nat, NEW c \in Nat, NEW d \in Nat, NEW a \in 0..9, NEW b \in 0..9,
           c <= e + 1, d <= e + 1, d > c \/ (d = c /\ b < a)
    PROVE  /\ 10 * (e + 1 - d) + b \in Nat
           /\ 10 * (e + 1 - d) + b < 10 * (e + 1 - c) + a
  OBVIOUS

\* Every step of a call goes forward.
LEMMA StepForward == ReadInv /\ Deserialize => Forward /\ UNCHANGED <<param, range>> /\ pc # "idle"
  <1> SUFFICES ASSUME ReadInv, Deserialize
               PROVE  Forward /\ UNCHANGED <<param, range>> /\ pc # "idle"
    OBVIOUS
  <1>1. Forward
    BY BeginForward, ItemForward, ValueForward, EndForward DEF Deserialize
  <1>2. UNCHANGED <<param, range>> /\ pc # "idle"
    BY DEF Deserialize, CheckNSkipStart, CheckNSkipName, CheckData, ArrayItem, PlainProperty,
           DeepProperty, DeserializeBoolean, DeserializeInteger, DeserializeNumber, BeginString,
           Plain, Escape, StringGoesOn, EndString, CheckSeparator, SkipVKSeparator, EndItems,
           CheckEnd, StepOrThrow
  <1> QED  BY <1>1, <1>2

(* A call cannot go on for ever, whatever its parameter and its range:     *)
(* the steps it has left are a natural number that every step lowers       *)
(* (array_deserializer.hpp:48-102, object_deserializer.cpp:40-113).        *)
THEOREM CallsEnd == Spec => StepsRunOut
  <1>1. Init => ReadInv
    BY IdleKept DEF Init, NoRange
  <1>2. ReadInv /\ [Next]_vars => ReadInv'
    BY StepKeepsReads
  <1>3. ReadInv /\ ReadInv' /\ [Next]_vars =>
            [Deserialize => StepsLeft' \in Nat /\ StepsLeft' < StepsLeft]_vars
    <2> SUFFICES ASSUME ReadInv, ReadInv', Deserialize
                 PROVE  StepsLeft' \in Nat /\ StepsLeft' < StepsLeft
      OBVIOUS
    <2>1. cursor \in Nat /\ end \in Nat /\ cursor <= end + 1
      BY Place
    <2>2. Forward /\ end' = end
      BY StepForward, KindStays
    <2>3. cursor' \in Nat /\ cursor' >= cursor /\ cursor' <= end + 1
      BY <2>1, <2>2 DEF Forward, ReadInv, CursorKept
    <2>4. Rank \in 0..9 /\ Rank' \in 0..9
      BY DEF Rank
    <2>5. cursor' > cursor \/ (cursor' = cursor /\ Rank' < Rank)
      BY <2>1, <2>2, <2>3 DEF Forward
    <2>6. /\ StepsLeft = 10 * (end + 1 - cursor) + Rank
          /\ StepsLeft' = 10 * (end + 1 - cursor') + Rank'
      BY <2>2 DEF StepsLeft
    <2> QED  BY <2>1, <2>3, <2>4, <2>5, <2>6, Fewer
  <1> QED  BY <1>1, <1>2, <1>3, PTL DEF Spec, StepsRunOut

Tok == {"key", "literal", "string", "raw", ","} \X Seq(Sym)

\* Two properties have no comma between them, which no JSON parser takes.
Broken(p, tokens) ==
    /\ p.type = "object"
    /\ \E i \in 2..Len(tokens) : tokens[i][1] = "key" /\ tokens[i - 1] # Comma

\* Whole entries have been read, the last with what follows it or without.
Followed(p, r, tokens, c) ==
    \E m, at : Len(tokens) = Tokens(p) * m /\ Row(p, r, tokens, m, at, c)
Bare(p, r, tokens, c) ==
    \E m : /\ Len(tokens) = Tokens(p) * m - 1 /\ Ended(p, r, tokens, m, c)
           /\ tokens[Len(tokens)] # Comma

\* The comma of an array's last item stays until the end.
ItemsRead(p, r, tokens, c) ==
    CASE p.type = "array" ->
           \/ Followed(p, r, tokens, c) /\ c < r.end
           \/ /\ c = r.end
              /\ \E m : /\ Len(tokens) = 2 * m /\ Ended(p, r, tokens, m, c)
                        /\ tokens[2 * m] = Comma /\ tokens[2 * m - 1] # Comma
      [] p.type = "object" -> Followed(p, r, tokens, c) \/ Bare(p, r, tokens, c)
      [] OTHER -> FALSE

KeyRead(p, tokens) == IF p.type = "object" THEN tokens[Len(tokens)][2] ELSE <<>>

\* A value begins at v.
ValueBegun(p, r, tokens, v) ==
    \E m, at, s :
        /\ Len(tokens) = Tokens(p) * m + (IF p.type = "object" THEN 1 ELSE 0)
        /\ Row(p, r, tokens, m, at, s)
        /\ PrefixRead(p, r, KeyRead(p, tokens), s, v)

OpeningRead(p, r, c) == c = First(p, r) /\ SubSeq(r.buffer, r.beg, c - 1) = Opening(p, Name)

\* What has been read so far, at each place.
ReadSoFar ==
    /\ pc = "start" => ret = <<>> /\ cursor = range.beg
    /\ pc = "name" => /\ ret = <<>> /\ cursor = range.beg + Len(Leading(param.style))
                      /\ SubSeq(buffer, range.beg, cursor - 1) = Leading(param.style)
    /\ pc = "data" => ret = <<>> /\ (InRange(cursor) => OpeningRead(param, range, cursor))
    /\ pc = "item" /\ cursor <= end => ItemsRead(param, range, ret, cursor)
    /\ pc = "value" => ValueBegun(param, range, ret, cursor)
    /\ pc = "string" => \E v : /\ ValueBegun(param, range, ret, v) /\ v <= cursor
                               /\ text = SubSeq(buffer, v, cursor - 1)
    /\ pc = "separator" => Bare(param, range, ret, cursor)
    /\ pc = "end" /\ cursor = end =>
                     IF kind = "primitive" THEN Bare(param, range, ret, cursor)
                                           ELSE ItemsRead(param, range, ret, cursor)
    /\ pc = "done" /\ outcome = "OK" =>
          \/ Bare(param, range, ret, end)
          \/ kind = "object" /\ Followed(param, range, ret, end)

AcceptInv ==
    /\ pc = "idle" => ret = <<>> /\ text = <<>>
    /\ pc # "idle" /\ Tabled(param) /\ Unescaped(taken) =>
          /\ cursor >= range.beg
          /\ ret \in Seq(Tok) /\ text \in Seq(Sym)
          /\ Broken(param, ret) \/ ReadSoFar

-----------------------------------------------------------------------------
(* The tables of GetDeserializer and the styles.                           *)

\* The kinds of the tables' parameters.
LEMMA KindKnown ==
    ASSUME Tabled(param)
    PROVE  /\ kind \in {"primitive", "array", "object"}
           /\ kind = "array" <=> param.type = "array"
           /\ kind = "object" <=> param.type = "object"
           /\ kind = "primitive" <=> param.type \in Primitives
  BY DEF Tabled, kind, Primitives

\* The start character is what leads a value of the style (param_validators.cpp:14-24).
LEMMA StartTable ==
    /\ start_ = NUL => Leading(param.style) = <<>>
    /\ start_ # NUL => Leading(param.style) = <<start_>>
  BY DEF start_, StartChar, NUL, Leading

\* The name is skipped where the style writes it before the first entry
\* (param_validators.cpp:26-43).
LEMMA NameTable ==
    ASSUME Tabled(param)
    PROVE  skip_name_ /\ ~has_running_name_ /\ ~is_deep_obj_ <=>
             Named(param.style) /\ ~Repeated(param)
  BY KindKnown DEF Tabled, Primitives, skip_name_, HasNameAtStart, has_running_name_,
     HasArrayRunningName, is_deep_obj_, Named, Repeated

\* The separator and the running name are those of an array's style
\* (param_validators.cpp:45-83, 175-184).
LEMMA ArrayTable ==
    ASSUME Tabled(param), kind = "array", NEW key
    PROVE  /\ SeparatorText = Glue(param)
           /\ Prefix(param, Name, key) = IF has_running_name_ THEN Name \o <<"=">> ELSE <<>>
           /\ Tokens(param) = 2
  <1>1. param.type = "array" /\ param.explode \in BOOLEAN
    BY KindKnown DEF Tabled
  <1>2. param.style \in {"simple", "label", "matrix", "form", "spaceDelimited", "pipeDelimited"}
    BY <1>1 DEF Tabled, Primitives
  <1>3. SeparatorText = Glue(param)
    <2>1. CASE param.explode
      BY <1>1, <1>2, <2>1 DEF SeparatorText, has_20_separator_, separator_, ArrayItemsSeparator,
         Glue, Repeated, Between
    <2>2. CASE ~param.explode
      BY <1>1, <1>2, <2>2 DEF SeparatorText, has_20_separator_, separator_, ArrayItemsSeparator,
         Glue, Repeated, Delimiter
    <2> QED  BY <1>1, <2>1, <2>2
  <1>4. has_running_name_ <=> param.explode /\ Named(param.style)
    BY <1>1, <1>2 DEF has_running_name_, HasArrayRunningName, Named
  <1> QED  BY <1>1, <1>3, <1>4 DEF Prefix, Tokens

\* The separators and the brackets are those of an object's style
\* (param_validators.cpp:85-109, 193-199).
LEMMA ObjectTable ==
    ASSUME Tabled(param), kind = "object", NEW key
    PROVE  /\ <<vk_separator_>> = Glue(param)
           /\ Tokens(param) = 3
           /\ is_deep_obj_ <=> param.style = "deepObject"
           /\ ~is_deep_obj_ => /\ Prefix(param, Name, key) = key \o <<ObjKVSep(param.explode)>>
                               /\ Cut(param, Name, key) = {key}
           /\ is_deep_obj_ =>
                /\ Prefix(param, Name, key) = Name \o <<"[">> \o key \o <<"]", "=">>
                /\ Cut(param, Name, key) =
                     { Name \o <<"[">> \o key, Name \o <<"[">> \o key \o <<"]">> }
                     \cup (IF key = <<>> THEN {Name} ELSE {})
  <1>1. param.type = "object" /\ param.explode \in BOOLEAN
    BY KindKnown DEF Tabled
  <1>2. \/ param.style \in {"simple", "label", "matrix", "form"}
        \/ param.style = "deepObject" /\ param.explode
    BY <1>1 DEF Tabled, Primitives
  <1>3. <<vk_separator_>> = Glue(param)
    BY <1>1, <1>2 DEF vk_separator_, ObjVKSep, Glue, Repeated, Between
  <1>4. is_deep_obj_ <=> param.style = "deepObject"
    BY DEF is_deep_obj_
  <1>5. ~is_deep_obj_ => Prefix(param, Name, key) = key \o <<ObjKVSep(param.explode)>>
    BY <1>1, <1>4 DEF Prefix, ObjKVSep
  <1>6. is_deep_obj_ => Prefix(param, Name, key) = Name \o <<"[">> \o key \o <<"]", "=">>
    BY <1>1, <1>4 DEF Prefix
  <1>7. ~is_deep_obj_ => Cut(param, Name, key) = {key}
    BY <1>1, <1>4 DEF Cut
  <1>8. is_deep_obj_ => Cut(param, Name, key) =
                     { Name \o <<"[">> \o key, Name \o <<"[">> \o key \o <<"]">> }
                     \cup (IF key = <<>> THEN {Name} ELSE {})
    BY <1>1, <1>4 DEF Cut
  <1> QED  BY <1>1, <1>3, <1>4, <1>5, <1>6, <1>7, <1>8 DEF Tokens

-----------------------------------------------------------------------------
(* The call.                                                               *)

\* A call is under way whose range a style of the tables is read from.
Reading == ReadInv /\ AcceptInv /\ pc # "idle" /\ Tabled(param) /\ Unescaped(taken)

\* What is known at every step of such a call.
LEMMA ReadingKnown ==
    ASSUME Reading
    PROVE  /\ Suits(param, range) /\ end = range.end /\ buffer = range.buffer
           /\ buffer \in Seq(Sym) /\ range.beg \in Nat \ {0} /\ end \in Nat
           /\ Len(buffer) \in Nat /\ end <= Len(buffer) + 1
           /\ cursor \in Nat \ {0} /\ range.beg <= cursor
           /\ ret \in Seq(Tok) /\ text \in Seq(Sym) /\ Len(ret) \in Nat
           /\ kind \in {"primitive", "array", "object"}
  <1>1. param \in Params /\ range \in Ranges[param]
    BY DEF Reading, ReadInv, CallKnown
  <1>2. /\ range.buffer \in Seq(STRING) /\ range.beg \in Nat \ {0} /\ range.end \in Nat
        /\ range.beg <= range.end /\ range.end <= Len(range.buffer) + 1
    BY <1>1, RangesAssumption
  <1>3. Len(range.buffer) \in Nat
    BY <1>2
  <1>4. ret \in Seq(Tok) /\ text \in Seq(Sym) /\ range.beg <= cursor
    BY DEF Reading, AcceptInv
  <1>5. cursor \in Nat \ {0}
    BY Place DEF Reading
  <1>6. Len(ret) \in Nat
    BY <1>4
  <1>7. buffer \in Seq(Sym)
    BY <1>2, SymSeq DEF buffer
  <1> QED  BY <1>2, <1>3, <1>4, <1>5, <1>6, <1>7, KindKnown DEF Reading, Suits, end, buffer

\* No character of the range is one of an escape.
LEMMA NoEscape ==
    ASSUME Reading, InRange(cursor)
    PROVE  buffer[cursor] \notin {"%", "+"} /\ At(buffer, cursor) = buffer[cursor]
  <1>1. /\ cursor < end /\ range.beg <= cursor /\ cursor \in Nat \ {0} /\ range.beg \in Nat \ {0}
        /\ end \in Nat /\ buffer \in Seq(Sym) /\ end <= Len(buffer) + 1 /\ Len(buffer) \in Nat
    BY ReadingKnown DEF InRange
  <1>2. /\ \A i \in range.beg..(end - 1) : buffer[i] \in Sym
        /\ range.beg \in Int /\ end - 1 \in Int
    BY <1>1
  <1>3. /\ Len(taken) = (end - 1) - range.beg + 1
        /\ \A i \in 1..((end - 1) - range.beg + 1) : taken[i] = buffer[range.beg + i - 1]
    BY <1>1, <1>2, SubSeqProperties DEF taken
  <1>4. /\ cursor - range.beg + 1 \in 1..Len(taken)
        /\ range.beg + (cursor - range.beg + 1) - 1 = cursor
    BY <1>1, <1>3
  <1>5. taken[cursor - range.beg + 1] = buffer[cursor]
    BY <1>3, <1>4
  <1>6. buffer[cursor] \notin {"%", "+"}
    BY <1>4, <1>5 DEF Reading, Unescaped
  <1> QED  BY <1>1, <1>6 DEF At

\* A token is added at the end, and what was broken stays broken.
LEMMA Appended ==
    ASSUME NEW tokens \in Seq(Tok), NEW x \in Tok
    PROVE  /\ Append(tokens, x) \in Seq(Tok) /\ Len(Append(tokens, x)) = Len(tokens) + 1
           /\ \A i \in 1..Len(tokens) : Append(tokens, x)[i] = tokens[i]
           /\ Append(tokens, x)[Len(tokens) + 1] = x
           /\ \A p : Broken(p, tokens) => Broken(p, Append(tokens, x))
  <1> DEFINE new == Append(tokens, x)
  <1>1. /\ new \in Seq(Tok) /\ Len(new) = Len(tokens) + 1 /\ Len(tokens) \in Nat
        /\ \A i \in 1..Len(tokens) : new[i] = tokens[i]
        /\ new[Len(tokens) + 1] = x
    BY AppendProperties
  <1> HIDE DEF new
  <1>2. ASSUME NEW p, Broken(p, tokens)
        PROVE  Broken(p, new)
    <2>1. PICK i \in 2..Len(tokens) : tokens[i][1] = "key" /\ tokens[i - 1] # Comma
      BY <1>2 DEF Broken
    <2>2. i \in 1..Len(tokens) /\ i - 1 \in 1..Len(tokens) /\ i \in 2..Len(new)
      BY <1>1
    <2>3. new[i] = tokens[i] /\ new[i - 1] = tokens[i - 1]
      BY <1>1, <2>2
    <2> QED  BY <1>2, <2>1, <2>2, <2>3 DEF Broken
  <1> QED  BY <1>1, <1>2 DEF new

\* A token is made of characters of the buffer.
LEMMA TokenMade ==
    ASSUME Reading, NEW t \in {"key", "literal", "string"}, NEW c \in Nat \ {0}, NEW d \in Nat,
           d <= end
    PROVE  <<t, SubSeq(buffer, c, d - 1)>> \in Tok
  <1>1. buffer \in Seq(Sym) /\ d <= Len(buffer) + 1
    BY ReadingKnown
  <1>2. SubSeq(buffer, c, d - 1) \in Seq(Sym)
    BY <1>1, PartIsSeq
  <1> QED  BY <1>2 DEF Tok

\* The comma is a token.
LEMMA CommaToken == Comma \in Tok
  <1>1. <<>> \in Seq(Sym)
    OBVIOUS
  <1> QED  BY <1>1 DEF Comma, Tok

\* A step that keeps what was read of a call keeps the invariant.
LEMMA KeepsRead ==
    ASSUME Reading, Deserialize, pc' # "idle", ret' \in Seq(Tok), text' \in Seq(Sym),
           Broken(param, ret) => Broken(param, ret'),
           ReadSoFar => Broken(param, ret') \/ ReadSoFar'
    PROVE  AcceptInv'
  <1>1. Forward /\ UNCHANGED <<param, range>>
    BY StepForward DEF Reading
  <1>2. cursor \in Nat \ {0} /\ range.beg \in Nat \ {0} /\ range.beg <= cursor
    BY ReadingKnown
  <1>3. cursor' >= range.beg /\ range'.beg = range.beg
    BY <1>1, <1>2 DEF Forward
  <1>4. Broken(param, ret) \/ ReadSoFar
    BY DEF Reading, AcceptInv
  <1>5. Broken(param, ret') \/ ReadSoFar'
    BY <1>4
  <1> QED  BY <1>1, <1>3, <1>5 DEF AcceptInv

\* A throw accepts nothing.
LEMMA Thrown ==
    ASSUME Reading, Deserialize, pc' = "done", outcome' = "EXCEPTION", UNCHANGED <<ret, text>>
    PROVE  AcceptInv'
  <1>1. ReadSoFar'
    BY DEF ReadSoFar
  <1>2. ret \in Seq(Tok) /\ text \in Seq(Sym)
    BY ReadingKnown
  <1> QED  BY <1>1, <1>2, KeepsRead

\* A step that adds no token.
LEMMA SameJson ==
    ASSUME Reading, Deserialize, pc' # "idle", UNCHANGED ret, text' \in Seq(Sym),
           ReadSoFar => ReadSoFar'
    PROVE  AcceptInv'
  <1>1. ret \in Seq(Tok)
    BY ReadingKnown
  <1> QED  BY <1>1, KeepsRead

\* A step that adds one.
LEMMA OneToken ==
    ASSUME Reading, Deserialize, pc' # "idle", NEW x \in Tok, ret' = Append(ret, x),
           text' \in Seq(Sym), ReadSoFar => Broken(param, ret') \/ ReadSoFar'
    PROVE  AcceptInv'
  <1>1. ret \in Seq(Tok)
    BY ReadingKnown
  <1>2. ret' \in Seq(Tok) /\ (Broken(param, ret) => Broken(param, ret'))
    BY <1>1, Appended
  <1> QED  BY <1>2, KeepsRead

\* A name and the character behind it.
LEMMA NameRead ==
    ASSUME Reading, NEW c \in Nat \ {0}, c <= end, NameAt(c), InRange(AfterName(c)), NEW ch,
           CanSkip(AfterName(c), ch)
    PROVE  /\ AfterName(c) \in Nat \ {0} /\ c <= AfterName(c)
           /\ Skipped(AfterName(c)) = AfterName(c) + 1 /\ AfterName(c) + 1 <= end
           /\ SubSeq(buffer, c, (AfterName(c) + 1) - 1) = Name \o <<ch>>
  <1> DEFINE n == AfterName(c)
  <1>1. n \in Nat /\ c <= n /\ n < end
    BY Names DEF Reading, ReadInv, InRange
  <1>2. buffer \in Seq(Sym) /\ end \in Nat /\ end <= Len(buffer) + 1 /\ Len(buffer) \in Nat
    BY ReadingKnown
  <1>3. At(buffer, n) = ch
    BY DEF CanSkip
  <1>4. n \in 1..Len(buffer) /\ n + 1 <= end /\ (n + 1) - 1 = n
    BY <1>1, <1>2
  <1>5. SubSeq(buffer, n, (n + 1) - 1) = <<ch>>
    BY <1>1, <1>2, <1>3, <1>4, Single DEF At
  <1>6. SubSeq(buffer, c, n - 1) = Name
    BY DEF NameAt, AfterName
  <1>7. SubSeq(buffer, c, n - 1) \o SubSeq(buffer, n, (n + 1) - 1) = SubSeq(buffer, c, (n + 1) - 1)
    <2> HIDE DEF n
    <2>1. n + 1 \in Nat /\ n <= n + 1 /\ n + 1 <= Len(buffer) + 1
      BY <1>1, <1>2
    <2> QED  BY <1>1, <1>2, <2>1, Join
  <1>8. Skipped(n) = n + 1
    BY DEF Skipped
  <1>9. n \in Nat \ {0}
    BY <1>1
  <1>10. SubSeq(buffer, c, (n + 1) - 1) = Name \o <<ch>>
    BY <1>5, <1>6, <1>7
  <1> QED  BY <1>1, <1>4, <1>8, <1>9, <1>10

\* The start character leads the value (base_deserializer.hpp:51-61).
LEMMA StartReads == ASSUME Reading, CheckNSkipStart PROVE AcceptInv'
  <1>1. /\ Deserialize /\ pc = "start" /\ UNCHANGED <<param, range>>
        /\ text \in Seq(Sym) /\ buffer \in Seq(Sym) /\ cursor \in Nat \ {0} /\ Len(buffer) \in Nat
    BY ReadingKnown DEF Deserialize, CheckNSkipStart, StepOrThrow
  <1>2. CASE ~ (start_ \in {NUL, At(buffer, cursor)})
    <2>1. pc' = "done" /\ outcome' = "EXCEPTION" /\ UNCHANGED <<ret, text>>
      BY <1>2 DEF CheckNSkipStart, StepOrThrow, Goto
    <2> QED  BY <1>1, <2>1, Thrown
  <1>3. CASE start_ \in {NUL, At(buffer, cursor)}
    <2>1. /\ pc' = "name" /\ UNCHANGED <<ret, text>>
          /\ cursor' = IF start_ = NUL THEN cursor ELSE cursor + 1
      BY <1>3 DEF CheckNSkipStart, StepOrThrow, Goto
    <2>2. ASSUME ReadSoFar
          PROVE  ReadSoFar'
      <3>1. ret = <<>> /\ cursor = range.beg
        BY <1>1, <2>2 DEF ReadSoFar
      <3>2. /\ cursor' = range.beg + Len(Leading(param.style))
            /\ SubSeq(buffer, range.beg, cursor' - 1) = Leading(param.style)
        <4>1. CASE start_ = NUL
          <5>1. cursor' = cursor /\ Leading(param.style) = <<>> /\ Len(<<>>) = 0
            BY <2>1, <4>1, StartTable
          <5>2. SubSeq(buffer, cursor, cursor - 1) = <<>>
            BY <1>1, Nothing
          <5>3. cursor' = range.beg + Len(Leading(param.style))
            BY <1>1, <3>1, <5>1
          <5> QED  BY <3>1, <5>1, <5>2, <5>3
        <4>2. CASE start_ # NUL
          <5>1. cursor' = cursor + 1 /\ Leading(param.style) = <<start_>>
            BY <2>1, <4>2, StartTable
          <5>2. cursor \in 1..Len(buffer) /\ start_ = buffer[cursor]
            BY <1>3, <4>2 DEF At
          <5>3. SubSeq(buffer, cursor, cursor) = <<start_>>
            BY <1>1, <5>2, Single
          <5>4. cursor' - 1 = cursor /\ Len(<<start_>>) = 1
            BY <1>1, <5>1
          <5>5. cursor' = range.beg + Len(Leading(param.style))
            BY <3>1, <5>1, <5>4
          <5> QED  BY <3>1, <5>1, <5>3, <5>4, <5>5
        <4> QED  BY <4>1, <4>2
      <3> QED  BY <1>1, <2>1, <3>1, <3>2 DEF ReadSoFar, buffer
    <2> QED  BY <1>1, <2>1, <2>2, SameJson
  <1> QED  BY <1>2, <1>3

\* The start, the name and its "=" are the opening (base_deserializer.hpp:63-81).
LEMMA NameReads == ASSUME Reading, CheckNSkipName PROVE AcceptInv'
  <1>1. /\ Deserialize /\ pc = "name" /\ UNCHANGED <<param, range>> /\ Tabled(param)
        /\ text \in Seq(Sym) /\ buffer \in Seq(Sym) /\ cursor \in Nat \ {0} /\ Len(buffer) \in Nat
        /\ range.beg \in Nat \ {0} /\ range.beg <= cursor /\ end \in Nat /\ end <= Len(buffer) + 1
    BY ReadingKnown DEF Deserialize, CheckNSkipName, StepOrThrow, Reading
  <1>2. cursor <= end
    BY <1>1, CursorInRange DEF Reading
  <1>3. Leading(param.style) \in Seq(Sym) /\ Name \in Seq(Sym)
    <2>1. <<>> \in Seq(Sym)
      OBVIOUS
    <2> QED  BY <2>1, StyleSeqs, NameAssumption, SymSeq
  <1>4. ASSUME pc' = "done", outcome' = "EXCEPTION", UNCHANGED <<ret, text>>
        PROVE  AcceptInv'
    BY <1>1, <1>4, Thrown
  <1>5. CASE Named(param.style) /\ ~Repeated(param)
    <2>1. \/ /\ NameAt(cursor) /\ CanSkip(AfterName(cursor), "=") /\ pc' = "data"
             /\ cursor' = Skipped(AfterName(cursor)) /\ UNCHANGED <<ret, text>>
          \/ pc' = "done" /\ outcome' = "EXCEPTION" /\ UNCHANGED <<ret, text>>
      BY <1>1, <1>5, NameTable DEF CheckNSkipName, StepOrThrow, Goto
    <2>2. CASE /\ NameAt(cursor) /\ CanSkip(AfterName(cursor), "=") /\ pc' = "data"
               /\ cursor' = Skipped(AfterName(cursor)) /\ UNCHANGED <<ret, text>>
      <3>1. ASSUME ReadSoFar, InRange(cursor')
            PROVE  OpeningRead(param, range, cursor')
        <4> DEFINE n == AfterName(cursor)
                   l == Leading(param.style)
        <4>1. /\ cursor = range.beg + Len(l)
              /\ SubSeq(buffer, range.beg, cursor - 1) = l
          BY <1>1, <3>1 DEF ReadSoFar
        <4>2. InRange(n)
          BY <2>2, <3>1 DEF Skipped, InRange
        <4>3. /\ n \in Nat \ {0} /\ cursor <= n /\ Skipped(n) = n + 1 /\ n + 1 <= end
              /\ SubSeq(buffer, cursor, (n + 1) - 1) = Name \o <<"=">>
          BY <1>1, <1>2, <2>2, <4>2, NameRead
        <4>4. cursor' = n + 1 /\ n = cursor + Len(Name)
          BY <2>2, <4>3 DEF AfterName
        <4>5. Opening(param, Name) = l \o (Name \o <<"=">>)
          BY <1>5 DEF Opening
        <4> HIDE DEF n, l
        <4>6. /\ n + 1 \in Nat /\ cursor <= n + 1 /\ n + 1 <= Len(buffer) + 1
              /\ cursor \in Nat
          BY <1>1, <4>3
        <4>7. SubSeq(buffer, range.beg, cursor - 1) \o SubSeq(buffer, cursor, (n + 1) - 1)
              = SubSeq(buffer, range.beg, (n + 1) - 1)
          BY <1>1, <4>6, Join
        <4>8. SubSeq(buffer, range.beg, cursor' - 1) = Opening(param, Name)
          BY <4>1, <4>3, <4>4, <4>5, <4>7
        <4>9. Len(Opening(param, Name)) = Len(l) + Len(Name) + 1
          <5>1. "=" \in Sym
            BY DEF Sym
          <5>2. <<"=">> \in Seq(Sym) /\ Len(<<"=">>) = 1
            BY <5>1
          <5>3. Name \o <<"=">> \in Seq(Sym) /\ Len(Name \o <<"=">>) = Len(Name) + 1
            BY <1>3, <5>2, ConcatProperties
          <5>4. Len(l \o (Name \o <<"=">>)) = Len(l) + Len(Name \o <<"=">>)
            BY <1>3, <5>3, ConcatProperties DEF l
          <5>5. Len(l) \in Nat /\ Len(Name) \in Nat
            BY <1>3 DEF l
          <5> QED  BY <4>5, <5>3, <5>4, <5>5
        <4>10. Len(l) \in Nat /\ Len(Name) \in Nat
          BY <1>3 DEF l
        <4>11. cursor' = range.beg + Len(Opening(param, Name))
          <5>1. range.beg \in Nat
            BY <1>1
          <5>2. \A a, b, c \in Nat : ((a + b) + c) + 1 = a + (b + c + 1)
            OBVIOUS
          <5>3. cursor' = ((range.beg + Len(l)) + Len(Name)) + 1
            BY <4>1, <4>4
          <5> QED  BY <4>9, <4>10, <5>1, <5>2, <5>3
        <4> QED  BY <4>8, <4>11 DEF OpeningRead, First, buffer
      <3>2. ReadSoFar => ReadSoFar'
        BY <1>1, <2>2, <3>1 DEF ReadSoFar, InRange, end
      <3> QED  BY <1>1, <2>2, <3>2, SameJson
    <2> QED  BY <1>4, <2>1, <2>2
  <1>6. CASE ~(Named(param.style) /\ ~Repeated(param))
    <2>1. pc' = "data" /\ cursor' = cursor /\ UNCHANGED <<ret, text>>
      BY <1>1, <1>6, NameTable DEF CheckNSkipName, StepOrThrow, Goto
    <2>2. Opening(param, Name) = Leading(param.style)
      BY <1>3, <1>6, ConcatEmptySeq DEF Opening
    <2>3. ReadSoFar => ReadSoFar'
      BY <1>1, <2>1, <2>2 DEF ReadSoFar, OpeningRead, First, buffer
    <2> QED  BY <1>1, <2>1, <2>3, SameJson
  <1> QED  BY <1>5, <1>6

\* After the opening the first entry begins (base_deserializer.hpp:83-88).
LEMMA DataReads == ASSUME Reading, CheckData PROVE AcceptInv'
  <1>1. /\ Deserialize /\ pc = "data" /\ UNCHANGED <<param, range>> /\ Tabled(param)
        /\ text \in Seq(Sym) /\ cursor \in Nat \ {0} /\ end \in Nat /\ end = range.end
        /\ kind \in {"primitive", "array", "object"} /\ Suits(param, range)
    BY ReadingKnown DEF Deserialize, CheckData, StepOrThrow, Reading
  <1>2. CASE ~InRange(cursor)
    <2>1. pc' = "done" /\ outcome' = "EXCEPTION" /\ UNCHANGED <<ret, text>>
      BY <1>1, <1>2 DEF CheckData, StepOrThrow, Goto
    <2> QED  BY <1>1, <2>1, Thrown
  <1>3. CASE InRange(cursor)
    <2>1. /\ pc' = IF kind = "primitive" THEN "value" ELSE "item"
          /\ cursor' = cursor /\ UNCHANGED <<ret, text>>
      BY <1>1, <1>3 DEF CheckData, StepOrThrow, Goto
    <2>2. ASSUME ReadSoFar
          PROVE  ReadSoFar'
      <3>1. /\ ret = <<>> /\ cursor = First(param, range) /\ First(param, range) <= range.end
            /\ SubSeq(range.buffer, range.beg, First(param, range) - 1) = Opening(param, Name)
        <4>1. ret = <<>> /\ OpeningRead(param, range, cursor)
          BY <1>1, <1>3, <2>2 DEF ReadSoFar
        <4>2. cursor < range.end
          BY <1>1, <1>3 DEF InRange
        <4> QED  BY <1>1, <4>1, <4>2 DEF OpeningRead
      <3>2. PICK at : Row(param, range, <<>>, 0, at, cursor)
        BY <1>1, <3>1, RowStarts
      <3>3. Len(<<>>) = 0 /\ Tokens(param) \in {2, 3} /\ Tokens(param) * 0 = 0
        BY DEF Tokens
      <3>4. CASE kind = "primitive"
        <4>1. param.type \notin {"array", "object"}
          BY <1>1, <3>4, KindKnown DEF Primitives
        <4>2. Prefix(param, Name, <<>>) = <<>>
          BY <4>1 DEF Prefix
        <4>3. SubSeq(range.buffer, cursor, cursor - 1) = <<>>
          BY <1>1, Nothing
        <4>4. KeyRead(param, <<>>) = <<>>
          BY <4>1 DEF KeyRead
        <4>5. PrefixRead(param, range, KeyRead(param, <<>>), cursor, cursor)
          <5>1. cursor \in Nat /\ cursor <= cursor /\ cursor <= range.end
            BY <1>1, <1>3 DEF InRange
          <5> QED  BY <4>2, <4>3, <4>4, <5>1, Zenon DEF PrefixRead
        <4>6. ValueBegun(param, range, <<>>, cursor)
          BY <3>2, <3>3, <4>1, <4>5 DEF ValueBegun
        <4> QED  BY <1>1, <2>1, <3>1, <3>4, <4>6 DEF ReadSoFar
      <3>5. CASE kind # "primitive"
        <4>1. param.type \in {"array", "object"}
          BY <1>1, <3>5, KindKnown
        <4>2. Followed(param, range, <<>>, cursor)
          BY <3>2, <3>3 DEF Followed
        <4>3. ItemsRead(param, range, <<>>, cursor)
          BY <1>1, <1>3, <4>1, <4>2 DEF ItemsRead, InRange
        <4> QED  BY <1>1, <2>1, <3>1, <3>5, <4>3 DEF ReadSoFar
      <3> QED  BY <3>4, <3>5
    <2>3. pc' # "idle"
      BY <2>1
    <2> QED  BY <1>1, <2>1, <2>2, <2>3, SameJson
  <1> QED  BY <1>2, <1>3

\* Where the name is found it is in the buffer.
LEMMA NameIs ==
    ASSUME NEW c \in Nat, NameAt(c) PROVE SubSeq(buffer, c, AfterName(c) - 1) = Name
  <1>1. Len(Name) \in Nat
    BY NameAssumption
  <1>2. c + Len(Name) - 1 = (c + Len(Name)) - 1
    BY <1>1
  <1> QED  BY <1>2 DEF NameAt, AfterName

\* Two characters, one after the other.
LEMMA TwoChars == ASSUME NEW S, NEW x \in S, NEW y \in S PROVE <<x>> \o <<y>> = <<x, y>>
  <1>1. <<x>> \in Seq(S) /\ <<y>> \in Seq(S) /\ <<x, y>> \in Seq(S)
    BY ShortSeqs
  <1>2. /\ <<x>> \o <<y>> \in Seq(S) /\ Len(<<x>> \o <<y>>) = 2
        /\ (<<x>> \o <<y>>)[1] = x /\ (<<x>> \o <<y>>)[2] = y
    BY <1>1, ConcatProperties
  <1>3. Len(<<x, y>>) = 2 /\ <<x, y>>[1] = x /\ <<x, y>>[2] = y
    OBVIOUS
  <1>4. \A i \in 1..Len(<<x>> \o <<y>>) : (<<x>> \o <<y>>)[i] = <<x, y>>[i]
    BY <1>2, <1>3
  <1> QED  BY <1>1, <1>2, <1>3, <1>4, SeqEqual

\* One more character is read.
LEMMA CharRead ==
    ASSUME Reading, NEW c \in Nat \ {0}, NEW d \in Nat, c <= d, d < end
    PROVE  SubSeq(buffer, c, (d + 1) - 1) = SubSeq(buffer, c, d - 1) \o <<buffer[d]>>
  <1>1. buffer \in Seq(Sym) /\ end \in Nat /\ end <= Len(buffer) + 1 /\ Len(buffer) \in Nat
    BY ReadingKnown
  <1>2. d \in 1..Len(buffer) /\ d + 1 \in Nat /\ d <= d + 1 /\ d + 1 <= Len(buffer) + 1
        /\ (d + 1) - 1 = d
    BY <1>1
  <1>3. SubSeq(buffer, d, (d + 1) - 1) = <<buffer[d]>>
    BY <1>1, <1>2, Single
  <1>4. SubSeq(buffer, c, d - 1) \o SubSeq(buffer, d, (d + 1) - 1) = SubSeq(buffer, c, (d + 1) - 1)
    BY <1>1, <1>2, Join
  <1> QED  BY <1>3, <1>4

\* A key ends at its terminator, which is skipped, or with the range.
LEMMA KeyFound ==
    ASSUME Reading, NEW c \in Nat \ {0}, c <= end, NEW terminator
    PROVE  /\ KeyEnd(c, terminator) \in Nat \ {0}
           /\ c <= KeyEnd(c, terminator) /\ KeyEnd(c, terminator) <= end
           /\ KeyAt(c, terminator) \in Seq(Sym)
           /\ \/ KeyEnd(c, terminator) = end
              \/ /\ KeyEnd(c, terminator) < end
                 /\ buffer[KeyEnd(c, terminator)] = terminator
  <1> DEFINE S == { k \in c..end : k >= end \/ buffer[k] = terminator }
             d == KeyEnd(c, terminator)
  <1>1. buffer \in Seq(Sym) /\ end \in Nat /\ end <= Len(buffer) + 1 /\ Len(buffer) \in Nat
    BY ReadingKnown
  <1>2. S \in SUBSET Nat /\ end \in S
    BY <1>1
  <1>3. d \in S
    BY <1>2, FirstPosition DEF KeyEnd
  <1>4. d \in c..end /\ (d >= end \/ buffer[d] = terminator)
    BY <1>3
  <1>5. d \in Nat \ {0} /\ c <= d /\ d <= end /\ (d = end \/ (d < end /\ buffer[d] = terminator))
    <2> HIDE DEF d
    <2> QED  BY <1>1, <1>4
  <1>6. SubSeq(buffer, c, d - 1) \in Seq(Sym)
    <2> HIDE DEF d
    <2>1. d <= Len(buffer) + 1
      BY <1>1, <1>5
    <2> QED  BY <1>1, <1>5, <2>1, PartIsSeq
  <1> QED  BY <1>5, <1>6 DEF KeyAt

\* A character in the range is skipped, and nothing at its end.
LEMMA SkipOver ==
    ASSUME Reading, NEW d \in Nat \ {0}, d <= end
    PROVE  /\ d = end => Skipped(d) = end
           /\ d < end => Skipped(d) = d + 1 /\ d + 1 <= end /\ At(buffer, d) = buffer[d]
  <1>1. end \in Nat /\ Len(buffer) \in Nat /\ end <= Len(buffer) + 1
    BY ReadingKnown
  <1>2. d = end => Skipped(d) = end
    BY <1>1 DEF Skipped, InRange
  <1>3. d < end => Skipped(d) = d + 1 /\ d + 1 <= end
    BY <1>1 DEF Skipped, InRange
  <1>4. d < end => d \in 1..Len(buffer)
    BY <1>1
  <1> QED  BY <1>2, <1>3, <1>4 DEF At

\* A running name and its "=" are the prefix of an item (array_deserializer.hpp:51-55).
LEMMA ArrayItemReads == ASSUME Reading, ArrayItem PROVE AcceptInv'
  <1>1. /\ Deserialize /\ pc = "item" /\ UNCHANGED <<param, range>> /\ Tabled(param)
        /\ text \in Seq(Sym) /\ cursor \in Nat \ {0} /\ end \in Nat /\ end = range.end
        /\ buffer = range.buffer
        /\ cursor < end /\ kind = "array"
    BY ReadingKnown DEF Deserialize, ArrayItem, StepOrThrow, Reading, InRange
  <1> DEFINE c == Skipped(AfterName(cursor))
             pre == IF has_running_name_ THEN Name \o <<"=">> ELSE <<>>
  <1>2. param.type = "array" /\ Tokens(param) = 2 /\ Prefix(param, Name, <<>>) = pre
    BY <1>1, KindKnown, ArrayTable
  <1>3. ASSUME NEW v, PrefixRead(param, range, <<>>, cursor, v), pc' = "value", cursor' = v,
               UNCHANGED <<ret, text>>
        PROVE  AcceptInv'
    <2>1. ASSUME ReadSoFar
          PROVE  ReadSoFar'
      <3>1. Followed(param, range, ret, cursor)
        <4>1. ItemsRead(param, range, ret, cursor)
          BY <1>1, <2>1 DEF ReadSoFar
        <4>2. cursor # range.end
          BY <1>1
        <4> QED  BY <1>2, <4>1, <4>2 DEF ItemsRead
      <3>2. PICK m, at : Len(ret) = Tokens(param) * m /\ Row(param, range, ret, m, at, cursor)
        BY <3>1 DEF Followed
      <3>3. Len(ret) = Tokens(param) * m + 0
        <4>1. m \in Nat
          BY <3>2 DEF Row
        <4> QED  BY <1>2, <3>2, <4>1
      <3>4. ValueBegun(param, range, ret, v)
        BY <1>2, <1>3, <3>2, <3>3 DEF ValueBegun, KeyRead
      <3> QED  BY <1>1, <1>3, <3>4 DEF ReadSoFar
    <2> QED  BY <1>1, <1>3, <2>1, SameJson
  <1>4. CASE has_running_name_
    <2>1. \/ /\ NameAt(cursor) /\ CanSkip(AfterName(cursor), "=") /\ InRange(c)
             /\ pc' = "value" /\ cursor' = c /\ UNCHANGED <<ret, text>>
          \/ pc' = "done" /\ outcome' = "EXCEPTION" /\ UNCHANGED <<ret, text>>
      BY <1>1, <1>4 DEF ArrayItem, StepOrThrow, Goto
    <2>2. CASE /\ NameAt(cursor) /\ CanSkip(AfterName(cursor), "=") /\ InRange(c)
               /\ pc' = "value" /\ cursor' = c /\ UNCHANGED <<ret, text>>
      <3> DEFINE n == AfterName(cursor)
      <3>1. InRange(n)
        BY <2>2 DEF Skipped
      <3>2. /\ n \in Nat \ {0} /\ cursor <= n /\ Skipped(n) = n + 1 /\ n + 1 <= end
            /\ SubSeq(buffer, cursor, (n + 1) - 1) = Name \o <<"=">>
        <4>1. cursor <= end
          BY <1>1
        <4> QED  BY <1>1, <2>2, <3>1, <4>1, NameRead
      <3> HIDE DEF n
      <3>3. n + 1 \in Nat /\ cursor <= n + 1 /\ n + 1 <= range.end
        BY <1>1, <3>2
      <3>4. SubSeq(range.buffer, cursor, (n + 1) - 1) = Prefix(param, Name, <<>>)
        BY <1>1, <1>2, <1>4, <3>2
      <3>5. PrefixRead(param, range, <<>>, cursor, n + 1)
        BY <3>3, <3>4, Zenon DEF PrefixRead
      <3>6. cursor' = n + 1
        BY <2>2, <3>2 DEF n
      <3> QED  BY <1>3, <2>2, <3>5, <3>6
    <2> QED  BY <1>1, <2>1, <2>2, Thrown
  <1>5. CASE ~has_running_name_
    <2>1. pc' = "value" /\ cursor' = cursor /\ UNCHANGED <<ret, text>>
      BY <1>1, <1>5 DEF ArrayItem, StepOrThrow, Goto
    <2>2. SubSeq(range.buffer, cursor, cursor - 1) = Prefix(param, Name, <<>>)
      BY <1>1, <1>2, <1>5, Nothing
    <2>3. cursor \in Nat /\ cursor <= cursor /\ cursor <= range.end
      BY <1>1
    <2>4. PrefixRead(param, range, <<>>, cursor, cursor)
      BY <2>2, <2>3, Zenon DEF PrefixRead
    <2> QED  BY <1>3, <2>1, <2>4
  <1> QED  BY <1>4, <1>5

\* A property begins: its key follows whole entries, or a property without a comma.
LEMMA KeyAdded ==
    ASSUME Reading, Deserialize, UNCHANGED <<param, range>>, kind = "object", pc = "item",
           InRange(cursor), NEW key \in Seq(Sym), NEW v, PrefixRead(param, range, key, cursor, v),
           pc' = "value", cursor' = v, text' = <<>>, ret' = Append(ret, <<"key", key>>)
    PROVE  AcceptInv'
  <1> DEFINE x == <<"key", key>>
  <1>1. /\ x \in Tok /\ ret \in Seq(Tok) /\ Len(ret) \in Nat /\ x[1] = "key" /\ x[2] = key
        /\ cursor < end
    BY ReadingKnown DEF Tok, InRange
  <1>2. /\ Len(ret') = Len(ret) + 1 /\ \A i \in 1..Len(ret) : ret'[i] = ret[i]
        /\ ret'[Len(ret) + 1] = x
    <2> HIDE DEF x
    <2> QED  BY <1>1, Appended DEF x
  <1>3. param.type = "object" /\ Tokens(param) = 3
    BY KindKnown, ObjectTable DEF Reading
  <1> HIDE DEF x
  <1>4. ASSUME ReadSoFar
        PROVE  Broken(param, ret') \/ ReadSoFar'
    <2>1. Followed(param, range, ret, cursor) \/ Bare(param, range, ret, cursor)
      <3>1. cursor \in Nat /\ end \in Nat
        BY ReadingKnown
      <3>2. cursor <= end
        BY <1>1, <3>1
      <3> QED  BY <1>3, <1>4, <3>2 DEF ReadSoFar, ItemsRead
    <2>2. CASE Followed(param, range, ret, cursor)
      <3>1. PICK m, at : Len(ret) = Tokens(param) * m /\ Row(param, range, ret, m, at, cursor)
        BY <2>2 DEF Followed
      <3>2. m \in Nat
        BY <3>1 DEF Row
      <3>3. \A i \in 1..(Tokens(param) * m - 1) : ret'[i] = ret[i]
        BY <1>2, <1>3, <3>1, <3>2
      <3>4. Row(param, range, ret', m, at, cursor)
        BY <3>1, <3>3, RowStays
      <3>5. KeyRead(param, ret') = key
        BY <1>1, <1>2, <1>3 DEF KeyRead
      <3>6. Len(ret') = Tokens(param) * m + 1
        BY <1>2, <1>3, <3>1, <3>2
      <3>7. ValueBegun(param, range, ret', v)
        BY <1>3, <3>4, <3>5, <3>6 DEF ValueBegun
      <3> QED  BY <3>7 DEF ReadSoFar
    <2>3. CASE Bare(param, range, ret, cursor)
      <3>1. PICK m : /\ Len(ret) = Tokens(param) * m - 1 /\ m \in Nat \ {0}
                     /\ ret[Len(ret)] # Comma
        BY <2>3 DEF Bare, Ended
      <3>2. /\ Len(ret) + 1 \in 2..Len(ret') /\ Len(ret) \in 1..Len(ret)
            /\ (Len(ret) + 1) - 1 = Len(ret)
        BY <1>1, <1>2, <1>3, <3>1
      <3>3. ret'[Len(ret) + 1][1] = "key" /\ ret'[(Len(ret) + 1) - 1] # Comma
        BY <1>1, <1>2, <3>1, <3>2
      <3> QED  BY <1>3, <3>2, <3>3 DEF Broken
    <2> QED  BY <2>1, <2>2, <2>3
  <1>5. text' \in Seq(Sym) /\ pc' # "idle"
    OBVIOUS
  <1> QED  BY <1>1, <1>4, <1>5, OneToken DEF x

\* A key and what ends it are the prefix of a property, or it is cut short
\* (object_deserializer.cpp:79-85).
LEMMA PlainPropertyReads == ASSUME Reading, PlainProperty PROVE AcceptInv'
  <1> DEFINE kv == ObjKVSep(param.explode)
             to == KeyEnd(cursor, kv)
             key == KeyAt(cursor, kv)
             v == Skipped(to)
  <1>1. /\ Deserialize /\ pc = "item" /\ UNCHANGED <<param, range>> /\ Tabled(param)
        /\ cursor \in Nat \ {0} /\ end \in Nat /\ end = range.end /\ buffer = range.buffer
        /\ kind = "object" /\ ~is_deep_obj_ /\ InRange(cursor) /\ cursor <= end
    BY ReadingKnown DEF Deserialize, PlainProperty, StepOrThrow, Reading, InRange
  <1>2. \/ /\ pc' = "value" /\ cursor' = v /\ text' = <<>> /\ ret' = Append(ret, <<"key", key>>)
        \/ pc' = "done" /\ outcome' = "EXCEPTION" /\ UNCHANGED <<ret, text>>
    BY DEF PlainProperty, StepOrThrow, Goto, Property
  <1>3. CASE pc' = "done" /\ outcome' = "EXCEPTION" /\ UNCHANGED <<ret, text>>
    BY <1>1, <1>3, Thrown
  <1>4. CASE pc' = "value" /\ cursor' = v /\ text' = <<>> /\ ret' = Append(ret, <<"key", key>>)
    <2>1. /\ to \in Nat \ {0} /\ cursor <= to /\ to <= end /\ key \in Seq(Sym)
          /\ to = end \/ (to < end /\ buffer[to] = kv)
      BY <1>1, KeyFound
    <2>2. SubSeq(buffer, cursor, to - 1) = key
      BY DEF KeyAt
    <2> HIDE DEF to, kv, key
    <2>3. /\ to = end => v = end
          /\ to < end => v = to + 1 /\ to + 1 <= end
      BY <2>1, SkipOver
    <2>4. Prefix(param, Name, key) = key \o <<kv>> /\ Cut(param, Name, key) = {key}
      BY <1>1, ObjectTable DEF kv
    <2>5. PrefixRead(param, range, key, cursor, v)
      <3>1. CASE to = end
        <4>1. v \in Nat /\ cursor <= v /\ v <= range.end /\ v = range.end
          BY <1>1, <2>3, <3>1
        <4>2. SubSeq(range.buffer, cursor, v - 1) \in Cut(param, Name, key)
          BY <1>1, <2>2, <2>3, <2>4, <3>1
        <4> QED  BY <4>1, <4>2, Zenon DEF PrefixRead
      <3>2. CASE to < end /\ buffer[to] = kv
        <4>1. SubSeq(buffer, cursor, (to + 1) - 1) = key \o <<kv>>
          BY <1>1, <2>1, <2>2, <3>2, CharRead
        <4>2. v \in Nat /\ cursor <= v /\ v <= range.end
          BY <1>1, <2>1, <2>3, <3>2
        <4>3. SubSeq(range.buffer, cursor, v - 1) = Prefix(param, Name, key)
          BY <1>1, <2>3, <2>4, <3>2, <4>1
        <4> QED  BY <4>2, <4>3, Zenon DEF PrefixRead
      <3> QED  BY <2>1, <3>1, <3>2
    <2> QED  BY <1>1, <1>4, <2>1, <2>5, KeyAdded
  <1> QED  BY <1>2, <1>3, <1>4

\* So are the name, the brackets, the key and "=" (object_deserializer.cpp:41-50).
LEMMA DeepPropertyReads == ASSUME Reading, DeepProperty PROVE AcceptInv'
  <1> DEFINE n == AfterName(cursor)
             c == Skipped(n)
             to == KeyEnd(c, "]")
             key == KeyAt(c, "]")
             e == Skipped(to)
             v == Skipped(e)
  <1>1. /\ Deserialize /\ pc = "item" /\ UNCHANGED <<param, range>> /\ Tabled(param)
        /\ cursor \in Nat \ {0} /\ end \in Nat /\ end = range.end /\ buffer = range.buffer
        /\ InRange(cursor) /\ cursor <= end /\ is_deep_obj_ /\ kind = "object"
        /\ buffer \in Seq(Sym) /\ Len(buffer) \in Nat /\ end <= Len(buffer) + 1
    BY ReadingKnown DEF Deserialize, DeepProperty, StepOrThrow, Reading, InRange, is_deep_obj_
  <1>2. \/ /\ NameAt(cursor) /\ CanSkip(n, "[") /\ CanSkip(e, "=")
           /\ pc' = "value" /\ cursor' = v /\ text' = <<>> /\ ret' = Append(ret, <<"key", key>>)
        \/ pc' = "done" /\ outcome' = "EXCEPTION" /\ UNCHANGED <<ret, text>>
    BY DEF DeepProperty, StepOrThrow, Goto, Property
  <1>3. CASE pc' = "done" /\ outcome' = "EXCEPTION" /\ UNCHANGED <<ret, text>>
    BY <1>1, <1>3, Thrown
  <1>4. CASE /\ NameAt(cursor) /\ CanSkip(n, "[") /\ CanSkip(e, "=")
             /\ pc' = "value" /\ cursor' = v /\ text' = <<>> /\ ret' = Append(ret, <<"key", key>>)
    <2>1. n \in Nat \ {0} /\ cursor <= n /\ n <= end /\ SubSeq(buffer, cursor, n - 1) = Name
      <3>1. n \in Nat /\ cursor <= n /\ n <= end
        BY <1>1, <1>4, Names DEF Reading, ReadInv
      <3>2. n \in Nat \ {0}
        BY <1>1, <3>1
      <3>3. SubSeq(buffer, cursor, n - 1) = Name
        <4>1. cursor \in Nat
          BY <1>1
        <4> QED  BY <1>4, <4>1, NameIs
      <3> HIDE DEF n
      <3> QED  BY <3>1, <3>2, <3>3
    <2> DEFINE cut == { Name \o <<"[">> \o key, Name \o <<"[">> \o key \o <<"]">> }
                      \cup (IF key = <<>> THEN {Name} ELSE {})
    <2>2. /\ Prefix(param, Name, key) = Name \o <<"[">> \o key \o <<"]", "=">>
          /\ Cut(param, Name, key) = cut
      BY <1>1, ObjectTable
    <2>3. CASE n = end
      <3>1. c = end
        BY <2>1, <2>3, SkipOver
      <3>2. to = end /\ key = <<>>
        <4>1. to \in Nat \ {0} /\ c <= to /\ to <= end
          BY <1>1, <2>1, <2>3, <3>1, KeyFound
        <4>2. to = end
          BY <1>1, <3>1, <4>1
        <4>3. SubSeq(buffer, end, end - 1) = <<>>
          BY <1>1, Nothing
        <4> QED  BY <3>1, <4>2, <4>3 DEF KeyAt
      <3>3. v = end /\ key \in Seq(Sym)
        <4>1. end \in Nat \ {0} /\ end <= end
          BY <1>1, <2>1, <2>3
        <4>2. e = end
          BY <3>2, <4>1, SkipOver
        <4>3. v = end
          BY <4>1, <4>2, SkipOver
        <4>4. <<>> \in Seq(Sym)
          OBVIOUS
        <4> QED  BY <3>2, <4>3, <4>4
      <3> HIDE DEF n, c, to, key, e, v
      <3>4. SubSeq(range.buffer, cursor, v - 1) \in Cut(param, Name, key)
        BY <1>1, <2>1, <2>2, <2>3, <3>2, <3>3
      <3>5. v \in Nat /\ cursor <= v /\ v <= range.end /\ v = range.end
        BY <1>1, <3>3
      <3>6. PrefixRead(param, range, key, cursor, v)
        BY <3>4, <3>5, Zenon DEF PrefixRead
      <3> QED  BY <1>1, <1>4, <3>3, <3>6, KeyAdded
    <2>4. CASE n < end
      <3>1. /\ c = n + 1 /\ n + 1 <= end
            /\ SubSeq(buffer, cursor, c - 1) = Name \o <<"[">>
        <4>1. InRange(n)
          BY <2>4 DEF InRange
        <4> QED  BY <1>1, <1>4, <4>1, NameRead
      <3>2. c \in Nat \ {0} /\ c <= end /\ cursor <= c
        BY <1>1, <2>1, <3>1
      <3>3. /\ to \in Nat \ {0} /\ c <= to /\ to <= end /\ key \in Seq(Sym)
            /\ to = end \/ (to < end /\ buffer[to] = "]")
        BY <3>2, KeyFound
      <3>4. SubSeq(buffer, c, to - 1) = key
        BY DEF KeyAt
      <3> HIDE DEF n, c, to, key
      <3>5. SubSeq(buffer, cursor, to - 1) = Name \o <<"[">> \o key
        <4>1. to <= Len(buffer) + 1
          BY <1>1, <3>3
        <4>2. SubSeq(buffer, cursor, c - 1) \o SubSeq(buffer, c, to - 1)
              = SubSeq(buffer, cursor, to - 1)
          BY <1>1, <3>2, <3>3, <4>1, Join
        <4> QED  BY <3>1, <3>4, <4>2
      <3>6. cursor <= to
        BY <1>1, <3>2, <3>3
      <3>7. CASE to = end
        <4>1. end \in Nat \ {0} /\ end <= end
          BY <1>1, <3>3, <3>7
        <4>2. e = end
          BY <3>7, <4>1, SkipOver
        <4>3. v = end
          BY <4>1, <4>2, SkipOver
        <4> HIDE DEF e, v
        <4>4. SubSeq(range.buffer, cursor, v - 1) \in Cut(param, Name, key)
          BY <1>1, <2>2, <3>5, <3>7, <4>3
        <4>5. v \in Nat /\ cursor <= v /\ v <= range.end /\ v = range.end
          BY <1>1, <4>3
        <4>6. PrefixRead(param, range, key, cursor, v)
          BY <4>4, <4>5, Zenon DEF PrefixRead
        <4> QED  BY <1>1, <1>4, <3>3, <4>6, KeyAdded
      <3>8. CASE to < end /\ buffer[to] = "]"
        <4>1. e = to + 1 /\ to + 1 <= end
          BY <3>3, <3>8, SkipOver
        <4>2. SubSeq(buffer, cursor, e - 1) = Name \o <<"[">> \o key \o <<"]">>
          BY <1>1, <3>3, <3>5, <3>6, <3>8, <4>1, CharRead
        <4>3. e \in Nat \ {0} /\ cursor <= e /\ e <= end
          BY <1>1, <3>3, <3>6, <4>1
        <4>4. e = end => v = end
          BY <4>3, SkipOver
        <4>5. e < end => v = e + 1 /\ e + 1 <= end /\ buffer[e] = "="
          <5>1. e < end => v = e + 1 /\ e + 1 <= end /\ At(buffer, e) = buffer[e]
            BY <4>3, SkipOver
          <5>2. e < end => At(buffer, e) = "="
            BY <1>4 DEF CanSkip, InRange
          <5> QED  BY <5>1, <5>2
        <4> HIDE DEF e, v
        <4>6. CASE e = end
          <5>1. SubSeq(range.buffer, cursor, v - 1) \in Cut(param, Name, key)
            BY <1>1, <2>2, <4>2, <4>4, <4>6
          <5>2. v \in Nat /\ cursor <= v /\ v <= range.end /\ v = range.end
            BY <1>1, <4>4, <4>6
          <5>3. PrefixRead(param, range, key, cursor, v)
            BY <5>1, <5>2, Zenon DEF PrefixRead
          <5> QED  BY <1>1, <1>4, <3>3, <5>3, KeyAdded
        <4>7. CASE e < end
          <5>1. SubSeq(buffer, to, to - 1) = <<>> /\ to <= e
            BY <3>3, <4>1, Nothing
          <5>2. SubSeq(buffer, to, v - 1) = <<"]", "=">>
            <6>1. SubSeq(buffer, to, (e + 1) - 1) = SubSeq(buffer, to, e - 1) \o <<"=">>
              BY <3>3, <4>3, <4>5, <4>7, <5>1, CharRead
            <6>2. SubSeq(buffer, to, (to + 1) - 1) = SubSeq(buffer, to, to - 1) \o <<"]">>
              <7>1. to <= to
                BY <3>3
              <7> QED  BY <3>3, <3>8, <7>1, CharRead
            <6>3. <<"]">> \o <<"=">> = <<"]", "=">> /\ <<>> \o <<"]">> = <<"]">>
              <7>1. "]" \in Sym /\ "=" \in Sym
                BY DEF Sym
              <7>2. <<"]">> \in Seq(Sym)
                BY <7>1
              <7> QED  BY <7>1, <7>2, TwoChars, ConcatEmptySeq
            <6> QED  BY <4>1, <4>5, <4>7, <5>1, <6>1, <6>2, <6>3
          <5>3. SubSeq(buffer, cursor, to - 1) \o SubSeq(buffer, to, v - 1)
                = SubSeq(buffer, cursor, v - 1)
            <6>1. v \in Nat /\ to <= v /\ v <= Len(buffer) + 1
              BY <1>1, <3>3, <4>1, <4>3, <4>5, <4>7
            <6> QED  BY <1>1, <3>3, <3>6, <6>1, Join
          <5>4. SubSeq(range.buffer, cursor, v - 1) = Prefix(param, Name, key)
            BY <1>1, <2>2, <3>5, <5>2, <5>3
          <5>5. v \in Nat /\ cursor <= v /\ v <= range.end
            BY <1>1, <4>3, <4>5, <4>7
          <5>6. PrefixRead(param, range, key, cursor, v)
            BY <5>4, <5>5, Zenon DEF PrefixRead
          <5> QED  BY <1>1, <1>4, <3>3, <5>6, KeyAdded
        <4>8. e = end \/ e < end
          BY <1>1, <4>3
        <4> QED  BY <4>6, <4>7, <4>8
      <3> QED  BY <3>3, <3>7, <3>8
    <2> QED
      <3>1. n = end \/ n < end
        BY <1>1, <2>1
      <3> QED  BY <2>3, <2>4, <3>1
  <1> QED  BY <1>2, <1>3, <1>4

\* A value begins at a position of the buffer.
LEMMA ValuePlace ==
    ASSUME Reading, NEW v, ValueBegun(param, range, ret, v)
    PROVE  v \in Nat \ {0}
  <1>1. PICK m, at, s : /\ Row(param, range, ret, m, at, s)
                        /\ PrefixRead(param, range, KeyRead(param, ret), s, v)
    BY DEF ValueBegun
  <1>2. s \in Nat /\ First(param, range) <= s /\ v \in Nat /\ s <= v
    BY <1>1 DEF Row, PrefixRead
  <1>3. range.beg \in Nat \ {0}
    BY ReadingKnown
  <1>4. <<>> \in Seq(Sym)
    OBVIOUS
  <1>5. Len(Opening(param, Name)) \in Nat
    BY <1>4, StyleSeqs
  <1> QED  BY <1>2, <1>3, <1>5 DEF First

\* A value ends an entry.
LEMMA ValueRead ==
    ASSUME Reading, NEW v, ValueBegun(param, range, ret, v), NEW c \in Nat, v <= c, c <= end,
           NEW t \in {"literal", "string"},
           NEW x, x = <<t, SubSeq(buffer, v, c - 1)>>
    PROVE  Bare(param, range, Append(ret, x), c)
  <1>1. /\ Suits(param, range) /\ end = range.end /\ buffer = range.buffer
        /\ buffer \in Seq(Sym) /\ range.beg \in Nat \ {0} /\ end \in Nat /\ Len(buffer) \in Nat
        /\ end <= Len(buffer) + 1 /\ ret \in Seq(Tok) /\ Len(ret) \in Nat
    BY ReadingKnown
  <1>2. PICK m, at, s :
          /\ Len(ret) = Tokens(param) * m + (IF param.type = "object" THEN 1 ELSE 0)
          /\ Row(param, range, ret, m, at, s)
          /\ PrefixRead(param, range, KeyRead(param, ret), s, v)
    BY DEF ValueBegun
  <1>3. /\ m \in Nat /\ s \in Nat /\ First(param, range) <= s
        /\ v \in Nat /\ s <= v
    BY <1>2 DEF Row, PrefixRead
  <1>4. s \in Nat \ {0} /\ v \in Nat \ {0}
    <2>1. <<>> \in Seq(Sym)
      OBVIOUS
    <2>2. Len(Opening(param, Name)) \in Nat
      BY <2>1, StyleSeqs
    <2> QED  BY <1>1, <1>3, <2>2 DEF First
  <1>5. x \in Tok /\ x[1] # "," /\ x[2] = SubSeq(buffer, v, c - 1)
    <2>1. c <= Len(buffer) + 1
      BY <1>1
    <2>2. SubSeq(buffer, v, c - 1) \in Seq(Sym)
      BY <1>1, <1>4, <2>1, PartIsSeq
    <2> QED  BY <2>2 DEF Tok
  <1> DEFINE new == Append(ret, x)
  <1>6. /\ Len(new) = Len(ret) + 1 /\ \A i \in 1..Len(ret) : new[i] = ret[i]
        /\ new[Len(ret) + 1] = x
    BY <1>1, <1>5, Appended
  <1> HIDE DEF new
  <1>7. Tokens(param) \in {2, 3} /\ Tokens(param) = IF param.type = "object" THEN 3 ELSE 2
    BY DEF Tokens
  <1>8. Row(param, range, new, m, at, s)
    <2>1. \A i \in 1..(Tokens(param) * m - 1) : i \in 1..Len(ret)
      BY <1>1, <1>2, <1>3, <1>7
    <2>2. \A i \in 1..(Tokens(param) * m - 1) : new[i] = ret[i]
      BY <1>6, <2>1
    <2> QED  BY <1>2, <2>2, RowStays
  <1>9. Len(new) = Tokens(param) * (m + 1) - 1
    BY <1>1, <1>2, <1>3, <1>6, <1>7
  <1>10. EntryAt(param, new, m + 1) = <<KeyRead(param, ret), SubSeq(buffer, v, c - 1)>>
    <2>1. CASE param.type = "object"
      <3>1. 3 * (m + 1) - 2 = Len(ret) /\ 3 * (m + 1) - 1 = Len(ret) + 1 /\ Len(ret) \in 1..Len(ret)
        BY <1>1, <1>2, <1>3, <1>7, <2>1
      <3>2. new[3 * (m + 1) - 2] = ret[Len(ret)] /\ new[3 * (m + 1) - 1] = x
        BY <1>6, <3>1
      <3>3. EntryAt(param, new, m + 1) = <<new[3 * (m + 1) - 2][2], new[3 * (m + 1) - 1][2]>>
        BY <1>7, <2>1 DEF EntryAt
      <3>4. KeyRead(param, ret) = ret[Len(ret)][2]
        BY <2>1 DEF KeyRead
      <3> QED  BY <1>5, <3>2, <3>3, <3>4
    <2>2. CASE param.type # "object"
      <3>1. 2 * (m + 1) - 1 = Len(ret) + 1
        BY <1>1, <1>2, <1>3, <1>7, <2>2
      <3>2. EntryAt(param, new, m + 1) = <<<<>>, new[2 * (m + 1) - 1][2]>>
        BY <1>7, <2>2 DEF EntryAt
      <3>3. KeyRead(param, ret) = <<>>
        BY <2>2 DEF KeyRead
      <3> QED  BY <1>5, <1>6, <3>1, <3>2, <3>3
    <2> QED  BY <2>1, <2>2
  <1>11. KeyRead(param, ret) \in Seq(Sym)
    <2>1. CASE param.type = "object"
      <3>1. Len(ret) \in 1..Len(ret)
        BY <1>1, <1>2, <1>3, <1>7, <2>1
      <3>2. ret[Len(ret)] \in Tok
        BY <1>1, <3>1
      <3> QED  BY <2>1, <3>2 DEF KeyRead, Tok
    <2>2. CASE param.type # "object"
      BY <2>2 DEF KeyRead
    <2> QED  BY <2>1, <2>2
  <1>12. EntryRead(param, range, EntryAt(param, new, m + 1), s, c)
    <2>1. EntryRead(param, range, <<KeyRead(param, ret), SubSeq(range.buffer, v, c - 1)>>, s, c)
      BY <1>1, <1>2, <1>4, <1>11, ValueEnds
    <2> QED  BY <1>1, <1>10, <2>1
  <1>13. Ended(param, range, new, m + 1, c)
    <2>1. m + 1 \in Nat \ {0} /\ (m + 1) - 1 = m
      BY <1>3
    <2> QED  BY <1>8, <1>12, <2>1 DEF Ended
  <1>14. new[Len(new)] # Comma
    <2>1. x # Comma
      BY <1>5 DEF Comma
    <2>2. new[Len(new)] = x
      BY <1>6
    <2> QED  BY <2>1, <2>2
  <1> QED  BY <1>9, <1>13, <1>14 DEF Bare, new

\* The token of a value ends its entry, whatever its type.
LEMMA ValueTaken ==
    ASSUME Reading, Deserialize, UNCHANGED <<param, range>>, NEW x \in Tok,
           ret' = Append(ret, x), pc' = AfterValue, text' \in Seq(Sym),
           cursor' \in Nat, cursor' <= end,
           ReadSoFar => \E v, t : /\ ValueBegun(param, range, ret, v) /\ v <= cursor'
                                  /\ t \in {"literal", "string"}
                                  /\ x = <<t, SubSeq(buffer, v, cursor' - 1)>>
    PROVE  AcceptInv'
  <1>1. /\ kind \in {"primitive", "array", "object"} /\ kind' = kind /\ end = range.end
    BY ReadingKnown, KindStays
  <1>2. ASSUME ReadSoFar PROVE ReadSoFar'
    <2>1. PICK v, t : /\ ValueBegun(param, range, ret, v) /\ v <= cursor'
                      /\ t \in {"literal", "string"}
                      /\ x = <<t, SubSeq(buffer, v, cursor' - 1)>>
      BY <1>2
    <2>2. Bare(param, range, ret', cursor')
      <3>1. \A c \in Nat : v <= c /\ c <= end /\ x = <<t, SubSeq(buffer, v, c - 1)>> =>
               Bare(param, range, Append(ret, x), c)
        BY <2>1, ValueRead
      <3> QED  BY <2>1, <3>1
    <2>3. \/ pc' = "separator"
          \/ pc' = "end" /\ kind' = "primitive"
      BY <1>1 DEF AfterValue
    <2> QED  BY <1>1, <2>2, <2>3 DEF ReadSoFar
  <1>3. pc' # "idle"
    BY AfterValueKnown
  <1> QED  BY <1>2, <1>3, OneToken

\* A boolean is one cell (base_deserializer.hpp:90-104).
LEMMA BooleanReads == ASSUME Reading, DeserializeBoolean PROVE AcceptInv'
  <1>1. /\ Deserialize /\ pc = "value" /\ UNCHANGED <<param, range>> /\ text \in Seq(Sym)
        /\ cursor \in Nat \ {0} /\ end \in Nat /\ buffer \in Seq(Sym) /\ Len(buffer) \in Nat
        /\ end <= Len(buffer) + 1
    BY ReadingKnown DEF Deserialize, DeserializeBoolean, StepOrThrow
  <1> DEFINE x == <<"literal", <<buffer[cursor]>>>>
  <1>2. \/ /\ InRange(cursor) /\ pc' = AfterValue /\ cursor' = cursor + 1
           /\ ret' = Append(ret, x) /\ UNCHANGED text
        \/ pc' = "done" /\ outcome' = "EXCEPTION" /\ UNCHANGED <<ret, text>>
    BY DEF DeserializeBoolean, StepOrThrow, Goto
  <1>3. CASE pc' = "done" /\ outcome' = "EXCEPTION" /\ UNCHANGED <<ret, text>>
    BY <1>1, <1>3, Thrown
  <1>4. CASE /\ InRange(cursor) /\ pc' = AfterValue /\ cursor' = cursor + 1
             /\ ret' = Append(ret, x) /\ UNCHANGED text
    <2>1. cursor < end
      BY <1>4 DEF InRange
    <2>2. cursor <= Len(buffer) /\ (cursor + 1) - 1 = cursor /\ cursor + 1 <= end
          /\ cursor + 1 \in Nat /\ cursor <= cursor + 1
      BY <1>1, <2>1
    <2>3. SubSeq(buffer, cursor, (cursor + 1) - 1) = <<buffer[cursor]>>
      BY <1>1, <2>2, Single
    <2>4. x = <<"literal", SubSeq(buffer, cursor, (cursor + 1) - 1)>>
      BY <2>3
    <2>5. x \in Tok
      BY <1>1, <2>2, <2>4, TokenMade
    <2> HIDE DEF x
    <2>6. ReadSoFar => ValueBegun(param, range, ret, cursor)
      BY <1>1 DEF ReadSoFar
    <2> QED  BY <1>1, <1>4, <2>2, <2>4, <2>5, <2>6, ValueTaken
  <1> QED  BY <1>2, <1>3, <1>4

\* The characters of a number are those from the cursor to the end of the run.
LEMMA NumeralReads ==
    ASSUME Reading, Deserialize, pc = "value", UNCHANGED <<param, range>>, NEW chars,
           TakeNumeral(RunEnd(AfterSign, chars))
    PROVE  AcceptInv'
  <1> DEFINE to == RunEnd(AfterSign, chars)
             x == <<"literal", SubSeq(buffer, cursor, to - 1)>>
  <1>1. text \in Seq(Sym) /\ cursor \in Nat \ {0} /\ end \in Nat /\ cursor <= end
    BY ReadingKnown, CursorInRange DEF Reading
  <1>2. AfterSign \in Nat \ {0} /\ AfterSign <= end /\ cursor <= AfterSign
    BY <1>1 DEF AfterSign, InRange
  <1>3. to \in AfterSign..end
    BY <1>2, RunEnds DEF Reading, ReadInv
  <1>4. to \in Nat /\ cursor <= to /\ to <= end
    <2> HIDE DEF to
    <2> QED  BY <1>1, <1>2, <1>3
  <1>5. pc' = AfterValue /\ cursor' = to /\ ret' = Append(ret, x) /\ UNCHANGED text
    BY DEF TakeNumeral, Goto
  <1> HIDE DEF to
  <1>6. x \in Tok
    BY <1>1, <1>4, TokenMade
  <1>7. ReadSoFar => ValueBegun(param, range, ret, cursor)
    BY DEF ReadSoFar
  <1>8. x = <<"literal", SubSeq(buffer, cursor, cursor' - 1)>>
    BY <1>5
  <1> HIDE DEF x
  <1> QED  BY <1>1, <1>4, <1>5, <1>6, <1>7, <1>8, ValueTaken

\* Integers and numbers (base_deserializer.hpp:106-142).
LEMMA NumbersRead == ASSUME Reading, DeserializeInteger \/ DeserializeNumber PROVE AcceptInv'
  <1>1. /\ Deserialize /\ pc = "value" /\ UNCHANGED <<param, range>>
    BY DEF Deserialize, DeserializeInteger, DeserializeNumber, StepOrThrow
  <1>2. \/ \E chars : TakeNumeral(RunEnd(AfterSign, chars))
        \/ pc' = "done" /\ outcome' = "EXCEPTION" /\ UNCHANGED <<ret, text>>
    BY DEF DeserializeInteger, DeserializeNumber, StepOrThrow, Goto
  <1> QED  BY <1>1, <1>2, NumeralReads, Thrown

\* The text read so far is what is in the buffer, as nothing is escaped
\* (base_deserializer.hpp:144-203).
LEMMA StringReads ==
    ASSUME Reading, BeginString \/ Plain \/ Escape \/ EndString
    PROVE  AcceptInv'
  <1>1. /\ Deserialize /\ UNCHANGED <<param, range>> /\ Tabled(param)
        /\ text \in Seq(Sym) /\ cursor \in Nat \ {0} /\ end \in Nat
        /\ buffer \in Seq(Sym) /\ Len(buffer) \in Nat /\ end <= Len(buffer) + 1
        /\ kind \in {"primitive", "array", "object"} /\ pc \in {"value", "string"}
    <2>1. /\ Deserialize /\ UNCHANGED <<param, range>> /\ pc \in {"value", "string"}
      BY DEF Deserialize, BeginString, Plain, Escape, StringGoesOn, EndString, StepOrThrow
    <2> QED  BY <2>1, ReadingKnown DEF Reading
  <1>2. cursor <= end
    BY <1>1, CursorInRange DEF Reading
  <1>3. CASE BeginString
    <2>1. pc = "value" /\ pc' = "string" /\ cursor' = cursor /\ text' = <<>> /\ UNCHANGED ret
      BY <1>3 DEF BeginString, StepOrThrow, Goto
    <2>2. SubSeq(buffer, cursor, cursor - 1) = <<>> /\ cursor <= cursor
      BY <1>1, Nothing
    <2>3. ReadSoFar => ReadSoFar'
      <3>1. ASSUME ReadSoFar PROVE ReadSoFar'
        <4>1. ValueBegun(param, range, ret, cursor)
          BY <2>1, <3>1 DEF ReadSoFar
        <4> QED  BY <1>1, <2>1, <2>2, <4>1 DEF ReadSoFar, buffer
      <3> QED  BY <3>1
    <2>4. text' \in Seq(Sym) /\ pc' # "idle"
      BY <2>1
    <2> QED  BY <1>1, <2>1, <2>3, <2>4, SameJson
  <1>4. CASE Plain
    <2>1. pc = "string" /\ InRange(cursor) /\ At(buffer, cursor) # "%"
      BY <1>4 DEF Plain, StringGoesOn
    <2>2. buffer[cursor] # "+" /\ cursor < end
      BY <2>1, NoEscape DEF InRange
    <2>3. /\ pc' = "string" /\ cursor' = cursor + 1 /\ UNCHANGED ret
          /\ text' = Append(text, buffer[cursor])
      BY <1>4, <2>2 DEF Plain, StepOrThrow, Goto
    <2>4. buffer[cursor] \in Sym
      BY <1>1, <2>2
    <2>5. text' \in Seq(Sym)
      BY <1>1, <2>3, <2>4
    <2>6. ReadSoFar => ReadSoFar'
      <3>1. ASSUME ReadSoFar PROVE ReadSoFar'
        <4>1. PICK v : /\ ValueBegun(param, range, ret, v) /\ v <= cursor
                       /\ text = SubSeq(buffer, v, cursor - 1)
          BY <2>1, <3>1 DEF ReadSoFar
        <4>2. v \in Nat \ {0}
          BY <4>1, ValuePlace
        <4>3. SubSeq(buffer, v, (cursor + 1) - 1) = text \o <<buffer[cursor]>>
          BY <1>1, <2>2, <4>1, <4>2, CharRead
        <4>4. text' = text \o <<buffer[cursor]>>
          BY <1>1, <2>3, <2>4, AppendIsConcat
        <4>5. v <= cursor + 1
          BY <1>1, <4>1, <4>2
        <4> QED  BY <1>1, <2>3, <4>1, <4>3, <4>4, <4>5 DEF ReadSoFar, buffer
      <3> QED  BY <3>1
    <2> QED  BY <1>1, <2>3, <2>5, <2>6, SameJson
  <1>5. CASE Escape
    <2>1. InRange(cursor) /\ At(buffer, cursor) = "%"
      BY <1>5 DEF Escape, StringGoesOn
    <2> QED  BY <2>1, NoEscape
  <1>6. CASE EndString
    <2> DEFINE x == <<"string", text>>
    <2>1. /\ pc = "string" /\ pc' = AfterValue /\ cursor' = cursor /\ text' = <<>>
          /\ ret' = Append(ret, x)
      BY <1>1, <1>6 DEF EndString, StepOrThrow, Goto
    <2>2. x \in Tok
      BY <1>1 DEF Tok
    <2>3. ReadSoFar => \E v, t : /\ ValueBegun(param, range, ret, v) /\ v <= cursor'
                                 /\ t \in {"literal", "string"}
                                 /\ x = <<t, SubSeq(buffer, v, cursor' - 1)>>
      BY <2>1 DEF ReadSoFar
    <2>4. text' \in Seq(Sym) /\ cursor' \in Nat /\ cursor' <= end
      BY <1>1, <1>2, <2>1
    <2> HIDE DEF x
    <2> QED  BY <1>1, <2>1, <2>2, <2>3, <2>4, ValueTaken
  <1> QED  BY <1>3, <1>4, <1>5, <1>6

\* An array's separator stands between two items, or the range has ended and the
\* comma waits for the closing bracket (array_deserializer.hpp:34-46).
LEMMA SeparatorReads == ASSUME Reading, CheckSeparator PROVE AcceptInv'
  <1> DEFINE c == cursor + Len(SeparatorText)
  <1>1. /\ Deserialize /\ pc = "separator" /\ UNCHANGED <<param, range>> /\ Tabled(param)
        /\ text \in Seq(Sym) /\ cursor \in Nat \ {0} /\ end \in Nat /\ end = range.end
        /\ buffer = range.buffer /\ kind = "array" /\ Suits(param, range)
        /\ ret \in Seq(Tok) /\ Len(ret) \in Nat
    BY ReadingKnown DEF Deserialize, CheckSeparator, StepOrThrow, Reading
  <1>2. param.type = "array" /\ Tokens(param) = 2 /\ SeparatorText = Glue(param)
    BY <1>1, KindKnown, ArrayTable
  <1>3. cursor <= end
    BY <1>1, CursorInRange DEF Reading
  <1>4. CASE pc' = "done" /\ outcome' = "EXCEPTION" /\ UNCHANGED <<ret, text>>
    BY <1>1, <1>4, Thrown
  <1>5. CASE /\ pc' = "item" /\ UNCHANGED text /\ ret' = Append(ret, Comma)
             /\ \/ /\ InRange(cursor) /\ cursor' = c /\ c < end
                   /\ SubSeq(buffer, cursor, c - 1) = SeparatorText
                \/ ~InRange(cursor) /\ cursor' = cursor
    <2>1. /\ Len(ret') = Len(ret) + 1 /\ \A i \in 1..Len(ret) : ret'[i] = ret[i]
          /\ ret'[Len(ret) + 1] = Comma
      BY <1>1, <1>5, CommaToken, Appended
    <2>2. ASSUME ReadSoFar PROVE ReadSoFar'
      <3>1. PICK m : /\ Len(ret) = Tokens(param) * m - 1 /\ Ended(param, range, ret, m, cursor)
                     /\ ret[Len(ret)] # Comma
        BY <1>1, <2>2 DEF ReadSoFar, Bare
      <3>2. m \in Nat \ {0}
        BY <3>1 DEF Ended
      <3>3. /\ Len(ret') = 2 * m /\ \A i \in 1..(2 * m - 1) : ret'[i] = ret[i]
            /\ ret'[2 * m] = Comma /\ ret'[2 * m - 1] # Comma
        <4>1. Len(ret) = 2 * m - 1 /\ Len(ret) + 1 = 2 * m /\ Len(ret) \in 1..Len(ret)
          BY <1>2, <3>1, <3>2
        <4>2. ret'[Len(ret)] = ret[Len(ret)]
          BY <2>1, <4>1
        <4> QED  BY <2>1, <3>1, <4>1, <4>2
      <3>4. CASE InRange(cursor) /\ cursor' = c /\ c < end
                 /\ SubSeq(buffer, cursor, c - 1) = SeparatorText
        <4>1. Len(Glue(param)) \in Nat
          <5>1. <<>> \in Seq(Sym)
            OBVIOUS
          <5> QED  BY <5>1, StyleSeqs
        <4>2. /\ c = cursor + Len(Glue(param)) /\ cursor < range.end /\ c <= range.end
              /\ SubSeq(range.buffer, cursor, c - 1) = Glue(param)
              /\ cursor \in Nat /\ c \in Nat
          BY <1>1, <1>2, <3>4, <4>1 DEF InRange
        <4> HIDE DEF c
        <4>3. PICK at : Row(param, range, ret, m, at, c)
          BY <1>1, <3>1, <4>2, RowAdds
        <4>4. Row(param, range, ret', m, at, c)
          BY <1>2, <3>3, <4>3, RowStays
        <4>5. Followed(param, range, ret', cursor') /\ cursor' < range.end
          BY <1>1, <1>2, <3>3, <3>4, <4>4 DEF Followed
        <4>6. ItemsRead(param, range, ret', cursor')
          BY <1>2, <4>5 DEF ItemsRead
        <4> QED  BY <1>1, <1>5, <4>6 DEF ReadSoFar
      <3>5. CASE ~InRange(cursor) /\ cursor' = cursor
        <4>1. cursor = range.end
          BY <1>1, <1>3, <3>5 DEF InRange
        <4>2. Ended(param, range, ret', m, cursor)
          BY <1>2, <3>1, <3>3, EndedStays
        <4>3. ItemsRead(param, range, ret', cursor')
          BY <1>2, <3>3, <3>5, <4>1, <4>2 DEF ItemsRead
        <4> QED  BY <1>1, <1>5, <4>3 DEF ReadSoFar
      <3> QED  BY <1>5, <3>4, <3>5
    <2>3. pc' # "idle" /\ text' \in Seq(Sym)
      BY <1>1, <1>5
    <2> QED  BY <1>1, <1>5, <2>2, <2>3, CommaToken, OneToken
  <1> QED  BY <1>4, <1>5 DEF CheckSeparator, StepOrThrow, Goto

\* An object's separator is looked for and may be missing (object_deserializer.cpp:70-73,
\* 105-108).
LEMMA VKSeparatorReads == ASSUME Reading, SkipVKSeparator PROVE AcceptInv'
  <1>1. /\ Deserialize /\ pc = "separator" /\ UNCHANGED <<param, range>> /\ Tabled(param)
        /\ text \in Seq(Sym) /\ cursor \in Nat \ {0} /\ end \in Nat /\ end = range.end
        /\ buffer = range.buffer /\ kind = "object" /\ Suits(param, range)
        /\ ret \in Seq(Tok) /\ Len(ret) \in Nat /\ pc' = "item" /\ UNCHANGED text
    BY ReadingKnown DEF Deserialize, SkipVKSeparator, StepOrThrow, Reading, Goto
  <1>2. param.type = "object" /\ Tokens(param) = 3 /\ <<vk_separator_>> = Glue(param)
    BY <1>1, KindKnown, ObjectTable
  <1>3. pc' # "idle" /\ text' \in Seq(Sym)
    BY <1>1
  <1>4. CASE At(buffer, cursor) = vk_separator_
    <2>1. cursor' = cursor + 1 /\ ret' = Append(ret, Comma)
      BY <1>1, <1>4 DEF SkipVKSeparator, StepOrThrow, Goto
    <2>2. /\ Len(ret') = Len(ret) + 1 /\ \A i \in 1..Len(ret) : ret'[i] = ret[i]
      BY <1>1, <2>1, CommaToken, Appended
    <2>3. ASSUME ReadSoFar PROVE ReadSoFar'
      <3>1. PICK m : Len(ret) = Tokens(param) * m - 1 /\ Ended(param, range, ret, m, cursor)
        BY <1>1, <2>3 DEF ReadSoFar, Bare
      <3>2. m \in Nat \ {0}
        BY <3>1 DEF Ended
      <3>3. Len(ret') = 3 * m /\ \A i \in 1..(3 * m - 1) : ret'[i] = ret[i]
        BY <1>2, <2>2, <3>1, <3>2
      <3>4. ASSUME cursor + 1 <= end PROVE ItemsRead(param, range, ret', cursor')
        <4> DEFINE d == cursor + 1
        <4>1. cursor \in Nat /\ d \in Nat /\ cursor < range.end /\ d <= range.end /\ cursor < end
          BY <1>1, <3>4
        <4>2. d = cursor + Len(Glue(param))
          <5>1. Len(<<vk_separator_>>) = 1
            OBVIOUS
          <5> QED  BY <1>2, <5>1
        <4>3. SubSeq(range.buffer, cursor, d - 1) = Glue(param)
          <5>1. /\ cursor <= Len(buffer) /\ buffer \in Seq(Sym) /\ d - 1 = cursor
                /\ cursor \in 1..Len(buffer)
            <6>1. buffer \in Seq(Sym) /\ Len(buffer) \in Nat /\ end <= Len(buffer) + 1
              BY ReadingKnown
            <6> QED  BY <1>1, <4>1, <6>1
          <5>2. SubSeq(buffer, cursor, cursor) = <<buffer[cursor]>>
            BY <1>1, <5>1, Single
          <5>3. buffer[cursor] = vk_separator_
            BY <1>4, <5>1 DEF At
          <5> QED  BY <1>1, <1>2, <5>1, <5>2, <5>3
        <4> HIDE DEF d
        <4>4. PICK at : Row(param, range, ret, m, at, d)
          BY <1>1, <3>1, <4>1, <4>2, <4>3, RowAdds
        <4>5. Row(param, range, ret', m, at, d)
          BY <1>2, <3>3, <4>4, RowStays
        <4>6. Followed(param, range, ret', cursor')
          BY <1>2, <2>1, <3>3, <4>5 DEF Followed, d
        <4> QED  BY <1>2, <4>6 DEF ItemsRead
      <3> QED  BY <1>1, <2>1, <3>4 DEF ReadSoFar, end
    <2> QED  BY <1>1, <1>3, <2>1, <2>3, CommaToken, OneToken
  <1>5. CASE At(buffer, cursor) # vk_separator_
    <2>1. cursor' = cursor /\ UNCHANGED ret
      BY <1>1, <1>5 DEF SkipVKSeparator, StepOrThrow, Goto
    <2>2. ReadSoFar => ReadSoFar'
      BY <1>1, <1>2, <2>1 DEF ReadSoFar, ItemsRead
    <2> QED  BY <1>1, <1>3, <2>1, <2>2, SameJson
  <1> QED  BY <1>4, <1>5

\* The loops end with the range.
LEMMA EndItemsReads == ASSUME Reading, EndItems PROVE AcceptInv'
  <1>1. /\ Deserialize /\ pc = "item" /\ UNCHANGED <<param, range>> /\ Tabled(param)
        /\ text \in Seq(Sym) /\ cursor \in Nat \ {0} /\ end \in Nat
        /\ pc' = "end" /\ cursor' = cursor /\ UNCHANGED <<text, ret>>
    BY ReadingKnown DEF Deserialize, EndItems, StepOrThrow, Reading, Goto
  <1>2. kind' = kind /\ end' = end
    BY <1>1, KindStays
  <1>3. ASSUME ReadSoFar PROVE ReadSoFar'
    <2>1. cursor = end => ItemsRead(param, range, ret, cursor)
      BY <1>1, <1>3 DEF ReadSoFar
    <2>2. ItemsRead(param, range, ret, cursor) => param.type \in {"array", "object"}
      BY DEF ItemsRead
    <2>3. param.type \in {"array", "object"} => kind # "primitive"
      BY <1>1, KindKnown
    <2> QED  BY <1>1, <1>2, <2>1, <2>2, <2>3 DEF ReadSoFar
  <1>4. pc' # "idle" /\ text' \in Seq(Sym)
    BY <1>1
  <1> QED  BY <1>1, <1>3, <1>4, SameJson

\* The comma of an array's last item is dropped (base_deserializer.hpp:205-210,
\* array_deserializer.cpp:58-64).
LEMMA CheckEndReads == ASSUME Reading, CheckEnd PROVE AcceptInv'
  <1>1. /\ Deserialize /\ pc = "end" /\ UNCHANGED <<param, range>> /\ Tabled(param)
        /\ text \in Seq(Sym) /\ cursor \in Nat \ {0} /\ end \in Nat /\ end = range.end
        /\ ret \in Seq(Tok) /\ Len(ret) \in Nat /\ kind \in {"primitive", "array", "object"}
    BY ReadingKnown DEF Deserialize, CheckEnd, StepOrThrow, Reading
  <1>2. CASE cursor # end
    <2>1. pc' = "done" /\ outcome' = "EXCEPTION" /\ UNCHANGED <<ret, text>>
      BY <1>2 DEF CheckEnd, StepOrThrow, Goto
    <2> QED  BY <1>1, <2>1, Thrown
  <1>3. CASE cursor = end
    <2> DEFINE strip == kind = "array" /\ ret # <<>> /\ ret[Len(ret)] = Comma
    <2>1. /\ pc' = "done" /\ outcome' = "OK" /\ UNCHANGED text
          /\ strip => ret' = SubSeq(ret, 1, Len(ret) - 1)
          /\ ~strip => ret' = ret
      BY <1>3 DEF CheckEnd, Goto
    <2>2. ret' \in Seq(Tok)
      <3>1. strip => SubSeq(ret, 1, Len(ret) - 1) \in Seq(Tok)
        BY <1>1, PartIsSeq
      <3> QED  BY <1>1, <2>1, <3>1
    <2>3. Broken(param, ret) => Broken(param, ret')
      <3>1. Broken(param, ret) => kind # "array"
        BY <1>1, KindKnown DEF Broken
      <3> QED  BY <2>1, <3>1
    <2>4. ASSUME ReadSoFar PROVE ReadSoFar'
      <3>1. end' = end /\ kind' = kind
        BY <1>1, KindStays
      <3>2. CASE kind = "primitive"
        <4>1. Bare(param, range, ret, end)
          BY <1>1, <1>3, <2>4, <3>2 DEF ReadSoFar
        <4> QED  BY <1>1, <2>1, <3>1, <3>2, <4>1 DEF ReadSoFar
      <3>3. CASE kind = "object"
        <4>1. ItemsRead(param, range, ret, end) /\ param.type = "object"
          BY <1>1, <1>3, <2>4, <3>3, KindKnown DEF ReadSoFar
        <4>2. Followed(param, range, ret, end) \/ Bare(param, range, ret, end)
          BY <4>1 DEF ItemsRead
        <4> QED  BY <1>1, <2>1, <3>1, <3>3, <4>2 DEF ReadSoFar
      <3>4. CASE kind = "array"
        <4>1. ItemsRead(param, range, ret, end) /\ param.type = "array" /\ Tokens(param) = 2
          BY <1>1, <1>3, <2>4, <3>4, KindKnown, ArrayTable DEF ReadSoFar
        <4>2. PICK m : /\ Len(ret) = 2 * m /\ Ended(param, range, ret, m, end)
                       /\ ret[2 * m] = Comma /\ ret[2 * m - 1] # Comma
          <5>1. ~(end < range.end)
            BY <1>1
          <5> QED  BY <4>1, <5>1 DEF ItemsRead
        <4>3. m \in Nat \ {0}
          BY <4>2 DEF Ended
        <4>4. strip
          <5>1. Len(ret) # 0
            BY <4>2, <4>3
          <5>2. ret # <<>>
            BY <5>1
          <5> QED  BY <3>4, <4>2, <5>2
        <4>5. Len(ret') = 2 * m - 1 /\ \A i \in 1..(2 * m - 1) : ret'[i] = ret[i]
          <5>1. ret' = SubSeq(ret, 1, 2 * m - 1)
            BY <2>1, <4>2, <4>4
          <5>2. /\ 1 \in Int /\ 2 * m - 1 \in Int /\ \A i \in 1..(2 * m - 1) : ret[i] \in Tok
                /\ (2 * m - 1) - 1 + 1 = 2 * m - 1 /\ 1 <= 2 * m - 1
            BY <1>1, <4>2, <4>3
          <5>3. /\ Len(SubSeq(ret, 1, 2 * m - 1)) = 2 * m - 1
                /\ \A i \in 1..(2 * m - 1) : SubSeq(ret, 1, 2 * m - 1)[i] = ret[i]
            <6>1. /\ Len(SubSeq(ret, 1, 2 * m - 1)) =
                       IF 1 <= 2 * m - 1 THEN (2 * m - 1) - 1 + 1 ELSE 0
                  /\ \A i \in 1..((2 * m - 1) - 1 + 1) :
                       SubSeq(ret, 1, 2 * m - 1)[i] = ret[1 + i - 1]
              BY <5>2, SubSeqProperties
            <6>2. \A i \in 1..(2 * m - 1) : 1 + i - 1 = i
              BY <4>3
            <6> QED  BY <5>2, <6>1, <6>2
          <5> QED  BY <5>1, <5>3
        <4>6. Ended(param, range, ret', m, end)
          BY <4>1, <4>2, <4>5, EndedStays
        <4>7. Bare(param, range, ret', end)
          <5>1. 2 * m - 1 \in 1..(2 * m - 1)
            BY <4>3
          <5>2. ret'[Len(ret')] # Comma
            BY <4>2, <4>5, <5>1
          <5> QED  BY <4>1, <4>5, <4>6, <5>2 DEF Bare
        <4> QED  BY <1>1, <2>1, <3>1, <4>7 DEF ReadSoFar
      <3> QED  BY <1>1, <3>2, <3>3, <3>4
    <2>5. pc' # "idle" /\ text' \in Seq(Sym)
      <3>1. text \in Seq(Sym)
        BY ReadingKnown
      <3> QED  BY <2>1, <3>1
    <2> QED  BY <1>1, <2>2, <2>3, <2>4, <2>5, KeepsRead
  <1> QED  BY <1>2, <1>3

\* A step of a call stays in it and with its parameter.
LEMMA StaysInCall == Deserialize => pc' # "idle" /\ UNCHANGED <<param, range>>
  <1> SUFFICES ASSUME Deserialize PROVE pc' # "idle" /\ UNCHANGED <<param, range>>
    OBVIOUS
  <1>1. UNCHANGED <<param, range>>
    BY DEF Deserialize, CheckNSkipStart, CheckNSkipName, CheckData, ArrayItem, PlainProperty,
           DeepProperty, DeserializeBoolean, DeserializeInteger, DeserializeNumber, BeginString,
           Plain, Escape, StringGoesOn, EndString, CheckSeparator, SkipVKSeparator, EndItems,
           CheckEnd, StepOrThrow
  <1>2. CASE CheckNSkipStart \/ CheckNSkipName \/ CheckData
             \/ ArrayItem \/ PlainProperty \/ DeepProperty
    BY <1>2 DEF CheckNSkipStart, CheckNSkipName, CheckData, ArrayItem, PlainProperty,
           DeepProperty, StepOrThrow, Goto
  <1>3. CASE DeserializeBoolean \/ DeserializeInteger \/ DeserializeNumber \/ BeginString
             \/ Plain \/ Escape \/ EndString
    BY <1>3, AfterValueKnown
       DEF DeserializeBoolean, DeserializeInteger, DeserializeNumber, BeginString,
           Plain, Escape, EndString, StepOrThrow, TakeNumeral, Goto
  <1>4. CASE CheckSeparator \/ SkipVKSeparator \/ EndItems \/ CheckEnd
    BY <1>4 DEF CheckSeparator, SkipVKSeparator, EndItems, CheckEnd, StepOrThrow, Goto
  <1> QED  BY <1>1, <1>2, <1>3, <1>4 DEF Deserialize

\* With ReadInv the invariant is inductive.
LEMMA StepKeepsAccept == ReadInv /\ AcceptInv /\ [Next]_vars => AcceptInv'
  <1> SUFFICES ASSUME ReadInv, AcceptInv, [Next]_vars PROVE AcceptInv'
    OBVIOUS
  <1>1. CASE Deserialize
    <2>1. CASE Reading
      <3>1. CASE CheckNSkipStart \/ CheckNSkipName \/ CheckData
        BY <2>1, <3>1, StartReads, NameReads, DataReads
      <3>2. CASE ArrayItem \/ PlainProperty \/ DeepProperty
        BY <2>1, <3>2, ArrayItemReads, PlainPropertyReads, DeepPropertyReads
      <3>3. CASE DeserializeBoolean \/ DeserializeInteger \/ DeserializeNumber
        BY <2>1, <3>3, BooleanReads, NumbersRead
      <3>4. CASE BeginString \/ Plain \/ Escape \/ EndString
        BY <2>1, <3>4, StringReads
      <3>5. CASE CheckSeparator \/ SkipVKSeparator \/ EndItems \/ CheckEnd
        BY <2>1, <3>5, SeparatorReads, VKSeparatorReads, EndItemsReads, CheckEndReads
      <3> QED  BY <1>1, <3>1, <3>2, <3>3, <3>4, <3>5 DEF Deserialize
    <2>2. CASE ~Reading
      <3>1. pc # "idle" /\ pc' # "idle" /\ UNCHANGED <<param, range>>
        BY <1>1, StepForward, StaysInCall
      <3>2. ~(Tabled(param) /\ Unescaped(taken))
        BY <2>2, <3>1 DEF Reading
      <3>3. ~(Tabled(param) /\ Unescaped(taken))'
        BY <3>1, <3>2 DEF taken, buffer, end
      <3> QED  BY <3>1, <3>3 DEF AcceptInv
    <2> QED  BY <2>1, <2>2
  <1>2. CASE Return
    BY <1>2 DEF Return, AcceptInv
  <1>3. CASE pc = "idle" /\ \E p \in Params : \E r \in Ranges[p] : Call(p, r)
    <2>1. PICK p \in Params : \E r \in Ranges[p] : Call(p, r)
      BY <1>3
    <2>2. PICK r \in Ranges[p] : Call(p, r)
      BY <2>1
    <2>3. /\ pc' = "start" /\ range' = r /\ cursor' = r.beg /\ ret' = <<>> /\ text' = <<>>
      BY <1>3, <2>2 DEF Call, AcceptInv
    <2>4. r.beg \in Nat
      BY RangesAssumption
    <2>5. ReadSoFar'
      BY <2>3 DEF ReadSoFar
    <2>6. ret' \in Seq(Tok) /\ text' \in Seq(Sym) /\ cursor' >= range'.beg
      BY <2>3, <2>4
    <2> QED  BY <2>3, <2>5, <2>6 DEF AcceptInv
  <1>4. CASE UNCHANGED vars
    <2>1. UNCHANGED <<pc, param, range, cursor, text, ret, outcome>>
      BY <1>4 DEF vars
    <2>2. ReadSoFar' <=> ReadSoFar
      BY <2>1 DEF ReadSoFar, end, buffer, kind, InRange
    <2> QED  BY <2>1, <2>2 DEF AcceptInv, taken, buffer, end
  <1> QED  BY <1>1, <1>2, <1>3, <1>4 DEF Next

\* What parses is not broken and ends with a value, so that the row is all of it.
LEMMA AcceptedSpell == ReadInv /\ AcceptInv => AcceptedIsSerialised
  <1> SUFFICES ASSUME ReadInv, AcceptInv, pc = "done", outcome = "OK", Tabled(param),
                      Unescaped(taken), Parses
               PROVE  Spells(buffer, range.beg, end, param, Name, Entries(param, ret))
    BY DEF AcceptedIsSerialised
  <1>1. Reading
    BY DEF Reading
  <1>2. /\ Suits(param, range) /\ end = range.end /\ buffer = range.buffer /\ Len(ret) \in Nat
    BY <1>1, ReadingKnown
  <1>3. kind = "object" <=> param.type = "object"
    BY KindKnown
  <1>4. ~Broken(param, ret)
    <2> SUFFICES ASSUME Broken(param, ret) PROVE FALSE
      OBVIOUS
    <2>1. PICK i \in 2..Len(ret) : ret[i][1] = "key" /\ ret[i - 1] # Comma
      BY DEF Broken
    <2>2. i \in 1..Len(ret) /\ i - 1 \in 1..Len(ret) /\ i \in Nat
      BY <1>2
    <2>3. Tokens(param) = 3
      BY DEF Broken, Tokens
    <2>4. i % 3 = 1
      BY <2>1, <2>2 DEF Parses
    <2>5. (i - 1) % 3 = 0
      BY <2>2, <2>4
    <2> QED  BY <2>1, <2>2, <2>3, <2>5 DEF Parses
  <1>5. Bare(param, range, ret, end) \/ (kind = "object" /\ Followed(param, range, ret, end))
    BY <1>4, Zenon DEF AcceptInv, ReadSoFar
  <1>6. ~(kind = "object" /\ Followed(param, range, ret, end))
    <2> SUFFICES ASSUME kind = "object", Followed(param, range, ret, end) PROVE FALSE
      OBVIOUS
    <2>1. Tokens(param) = 3
      BY <1>3 DEF Tokens
    <2>2. PICK m : Len(ret) = 3 * m /\ m \in Nat
      BY <2>1 DEF Followed, Row
    <2>3. (3 * m + 1) % 3 = 1
      BY <2>2
    <2> QED  BY <2>1, <2>2, <2>3 DEF Parses
  <1>7. PICK m : Len(ret) = Tokens(param) * m - 1 /\ Ended(param, range, ret, m, end)
    BY <1>5, <1>6 DEF Bare
  <1> QED  BY <1>2, <1>7, EndSpells

(* For every parameter of the tables and every range without escapes: if   *)
(* it is accepted and its JSON parses, it is what the parameter's style    *)
(* makes of that JSON (param_validators.cpp:13-109, 164-208;               *)
(* base_deserializer.hpp:51-142, array_deserializer.hpp:27-102,            *)
(* object_deserializer.cpp:40-113).                                        *)
THEOREM AcceptedAreSerialised == Spec => []AcceptedIsSerialised
  <1>1. Init => ReadInv /\ AcceptInv
    BY IdleKept DEF Init, NoRange, AcceptInv
  <1>2. ReadInv /\ AcceptInv /\ [Next]_vars => ReadInv' /\ AcceptInv'
    BY StepKeepsReads, StepKeepsAccept
  <1> QED  BY <1>1, <1>2, AcceptedSpell, PTL DEF Spec
==============================================================================
