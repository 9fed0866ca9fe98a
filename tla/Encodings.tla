----------------------------- MODULE Encodings ------------------------------
(***************************************************************************)
(* The encodings in which rapidjson reads and writes characters, and the   *)
(* byte streams that carry them. A text is a sequence of code points, a    *)
(* string a sequence of code units, and what follows a string reads as 0.  *)
(***************************************************************************)
EXTENDS Integers, SequencesExt

Unit(s, i) == IF i \in DOMAIN s THEN s[i] ELSE 0
Low(c, bits) == c % 2^bits
High(c, bits) == c \div 2^bits
IsScalar(cp) == cp \in 0..1114111 /\ cp \notin 55296..57343

-----------------------------------------------------------------------------
(* UTF-8                                                                   *)

EncodeUTF8(cp) ==
    LET Rest(shift) == 128 + Low(High(cp, shift), 6)
    IN  CASE cp <= 127 -> <<cp>>
          [] cp \in 128..2047 -> <<192 + High(cp, 6), Rest(0)>>
          [] cp \in 2048..65535 -> <<224 + High(cp, 12), Rest(6), Rest(0)>>
          [] OTHER -> <<240 + High(cp, 18), Rest(12), Rest(6), Rest(0)>>

\* The classes of a trailing byte are 16, 64 and 32, so that a mask tests several.
GetRange(c) ==
    CASE c < 128 -> 0
      [] c \in 128..143 -> 16
      [] c \in 144..159 -> 64
      [] c \in 160..191 -> 32
      [] c \in {192, 193} \cup 245..255 -> 8
      [] c \in 194..223 -> 2
      [] c = 224 -> 10
      [] c = 237 -> 4
      [] c \in 225..239 \ {237} -> 3
      [] c = 240 -> 11
      [] c \in 241..243 -> 6
      [] c = 244 -> 5

\* Mutant: a surrogate encoded in three bytes passes.
TrailsSurrogates(type) ==
    LET tail == {16, 64, 32}
    IN  CASE type = 2 -> <<tail>>
          [] type \in {3, 4} -> <<tail, tail>>
          [] type = 10 -> <<{32}, tail>>
          [] type = 6 -> <<tail, tail, tail>>
          [] type = 5 -> <<{16}, tail, tail>>
          [] type = 11 -> <<{64, 32}, tail, tail>>
          [] OTHER -> <<>>

\* The classes allowed in each byte after a first byte of the type.
Trails(type) ==
    LET tail == {16, 64, 32}
    IN  CASE type = 2 -> <<tail>>
          [] type = 3 -> <<tail, tail>>
          [] type = 4 -> <<{16, 64}, tail>>
          [] type = 10 -> <<{32}, tail>>
          [] type = 6 -> <<tail, tail, tail>>
          [] type = 5 -> <<{16}, tail, tail>>
          [] type = 11 -> <<{64, 32}, tail, tail>>
          [] OTHER -> <<>>

Decoded(ok, cp, used) == [ok |-> ok, cp |-> cp, used |-> used]

\* The trailing bytes are taken whether or not they belong to the character.
DecodeUTF8(s) ==
    LET type == GetRange(Unit(s, 1))
        trails == Trails(type)
        lead == IF type >= 32 THEN 0 ELSE IF type >= 8 THEN 0 ELSE Low(Unit(s, 1), 8 - type)
    IN  IF Unit(s, 1) < 128 THEN Decoded(TRUE, Unit(s, 1), 1)
        ELSE Decoded(trails # <<>>
                       /\ \A i \in DOMAIN trails : GetRange(Unit(s, i + 1)) \in trails[i],
                     FoldLeftDomain(LAMBDA cp, i : cp * 64 + Low(Unit(s, i + 1), 6), lead, trails),
                     1 + Len(trails))

-----------------------------------------------------------------------------
(* UTF-16, UTF-32 and ASCII. A lone surrogate is a code point of UTF-32.   *)

EncodeUTF16(cp) ==
    IF cp <= 65535 THEN <<cp>>
    ELSE <<High(cp - 65536, 10) + 55296, Low(cp - 65536, 10) + 56320>>

DecodeUTF16(s) ==
    LET c == Unit(s, 1)
        d == Unit(s, 2)
    IN  CASE c \notin 55296..57343 -> Decoded(TRUE, c, 1)
          [] c \in 55296..56319 ->
               Decoded(d \in 56320..57343, Low(c, 10) * 1024 + Low(d, 10) + 65536, 2)
          [] OTHER -> Decoded(FALSE, 0, 1)

DecodeUTF32(s) == Decoded(Unit(s, 1) <= 1114111, Unit(s, 1), 1)
DecodeASCII(s) == Decoded(Unit(s, 1) <= 127, Unit(s, 1), 1)

Encode(enc, cp) ==
    CASE enc = "UTF8" -> EncodeUTF8(cp) [] enc = "UTF16" -> EncodeUTF16(cp) [] OTHER -> <<cp>>
Decode(enc, s) ==
    CASE enc = "UTF8" -> DecodeUTF8(s)
      [] enc = "UTF16" -> DecodeUTF16(s)
      [] enc = "UTF32" -> DecodeUTF32(s)
      [] enc = "ASCII" -> DecodeASCII(s)

\* Validate copies the units that Decode takes.
Validate(enc, s) == [ok |-> Decode(enc, s).ok,
                     out |-> [i \in 1..Decode(enc, s).used |-> Unit(s, i)]]

\* Transcode and, between two encodings, Validate.
Transcode(from, to, s) ==
    LET d == Decode(from, s)
    IN  IF from = to THEN [ok |-> TRUE, out |-> <<Unit(s, 1)>>]
        ELSE [ok |-> d.ok, out |-> IF d.ok THEN Encode(to, d.cp) ELSE <<>>]

-----------------------------------------------------------------------------
(* Byte streams: Put, PutBOM and Take of the five types, and the detection *)
(* of the type by AutoUTFInputStream.                                      *)

Types == {"UTF8", "UTF16LE", "UTF16BE", "UTF32LE", "UTF32BE"}
EncodingOf == [t \in Types |-> CASE t = "UTF8" -> "UTF8"
                                 [] t \in {"UTF16LE", "UTF16BE"} -> "UTF16"
                                 [] OTHER -> "UTF32"]
Width == [t \in Types |-> CASE EncodingOf[t] = "UTF8" -> 1
                            [] EncodingOf[t] = "UTF16" -> 2
                            [] OTHER -> 4]
BigEndian == {"UTF16BE", "UTF32BE"}

Put(type, c) ==
    LET little == [i \in 1..Width[type] |-> Low(High(c, 8 * (i - 1)), 8)]
    IN  IF type \in BigEndian THEN Reverse(little) ELSE little

TakeUnit(type, bytes) ==
    LET units == [i \in 1..Width[type] |-> Unit(bytes, i)]
        big == IF type \in BigEndian THEN units ELSE Reverse(units)
    IN  FoldLeft(LAMBDA c, b : c * 256 + b, 0, big)

PutBOM(type) == IF type = "UTF8" THEN <<239, 187, 191>> ELSE Put(type, 65279)

\* The type of a stream of bytes, default when there are less than four or they
\* tell nothing, and how many bytes its mark takes.
DetectType(bytes, default) ==
    LET Marked(t) == SubSeq(bytes, 1, Len(PutBOM(t))) = PutBOM(t)
        order == <<"UTF32BE", "UTF32LE", "UTF16BE", "UTF16LE", "UTF8">>
        marked == SelectSeq(order, Marked)
        set == { i \in 1..4 : bytes[i] # 0 }
    IN  IF Len(bytes) < 4 THEN [type |-> default, skip |-> 0]
        ELSE IF marked # <<>> THEN [type |-> marked[1], skip |-> Len(PutBOM(marked[1]))]
        ELSE [type |-> CASE set = {4} -> "UTF32BE"
                         [] set = {2, 4} -> "UTF16BE"
                         [] set = {1} -> "UTF32LE"
                         [] set = {1, 3} -> "UTF16LE"
                         [] set = 1..4 -> "UTF8"
                         [] OTHER -> default,
              skip |-> 0]

\* What a writer puts into a stream of the type.
Bytes(type, mark, text) ==
    (IF mark THEN PutBOM(type) ELSE <<>>)
      \o FlattenSeq([i \in DOMAIN text |->
           LET units == Encode(EncodingOf[type], text[i])
           IN  FlattenSeq([j \in DOMAIN units |-> Put(type, units[j])])])

\* The code points a reader takes from the stream until one is 0.
RECURSIVE TextOf(_, _)
TextOf(type, bytes) ==
    LET units == [i \in 1..4 |->
                    TakeUnit(type, SubSeq(bytes, (i - 1) * Width[type] + 1, Len(bytes)))]
        d == Decode(EncodingOf[type], units)
        rest == SubSeq(bytes, d.used * Width[type] + 1, Len(bytes))
    IN  IF ~d.ok \/ d.cp = 0 THEN <<>> ELSE <<d.cp>> \o TextOf(type, rest)

Received(bytes, default) ==
    LET found == DetectType(bytes, default)
    IN  TextOf(found.type, SubSeq(bytes, found.skip + 1, Len(bytes)))

-----------------------------------------------------------------------------
(* A string decodes to a scalar value exactly when it begins with the      *)
(* encoding of that value: no longer form, no surrogate, no value beyond   *)
(* the last; what is validated is what is decoded, and transcoding keeps   *)
(* the value (encodings.h:102, 146, 179, 276, 307; UTF-32 leaves           *)
(* surrogates to its reader, encodings.h:439).                             *)
DecodesWhatIsEncoded(enc, s) ==
    LET d == Decode(enc, s)
    IN  /\ d.ok /\ (IsScalar(d.cp) \/ enc # "UTF32")
             => IsScalar(d.cp) /\ SubSeq(s, 1, d.used) = Encode(enc, d.cp)
        /\ Validate(enc, s).ok = d.ok
        /\ d.ok /\ IsScalar(d.cp)
             => \A to \in {"UTF8", "UTF16", "UTF32"} \ {enc} :
                  LET out == Transcode(enc, to, s).out
                  IN  Decode(to, out) = Decoded(TRUE, d.cp, Len(out))

(* A JSON text put into a stream of any type, with or without a mark, is   *)
(* the text taken out of it again, whatever type the reader takes for      *)
(* granted: its first two characters are ASCII and it has four bytes       *)
(* (encodedstream.h:158-214).                                              *)
IsReceived(type, mark, text, default) ==
    LET bytes == Bytes(type, mark, text)
    IN  text # <<>> /\ (\A i \in {1, 2} \cap DOMAIN text : text[i] \in 1..127)
          /\ (Len(bytes) >= 4 \/ default = type)
        => Received(bytes, default) = text
=============================================================================
