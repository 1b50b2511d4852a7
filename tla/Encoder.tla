------------------------------- MODULE Encoder -------------------------------
(***************************************************************************)
(* The class Encoder (src/src/libwfut/Encoder.cpp): how a name is written  *)
(* in a list and in a url, and how it is read back.  A string is a         *)
(* sequence of bytes; char is signed, as on the platforms libwfut is built *)
(* for.                                                                    *)
(***************************************************************************)
EXTENDS Integers, SequencesExt

CONSTANT Garbage  \* the bytes an uninitialised integer may end in

Byte  == 0..255
Ascii == 0..127

ASSUME GarbageAssumption == Garbage \subseteq Byte /\ Garbage # {}

Percent == 37
Plus    == 43
Minus   == 45
Space   == 32
Question == 63

WhiteSpace == 9..13 \cup {Space}

Digits  == 48..57
Alnum   == Digits \cup 65..90 \cup 97..122
Hexes   == Digits \cup 65..70 \cup 97..102

StringMarks == {45, 95, 46, 42}                                \* - _ . *
UrlMarks    == {45, 95, 46, 124, 126, 42, 39, 40, 41,          \* - _ . | ~ * ' ( )
                59, 47, 63, 58, 64, 38, 61, 43, 36, 44}        \* ; / ? : @ & = + $ ,

\* What a name must not have in an attribute: < > & " '
Markup == {60, 62, 38, 34, 39}

HexDigit(d) == IF d < 10 THEN 48 + d ELSE 55 + d

HexValue(h) ==
  CASE h \in Digits  -> h - 48
    [] h \in 65..70  -> h - 55
    [] h \in 97..102 -> h - 87

\* snprintf of "%%%2.2X" into four bytes.  A char above 127 is a negative int, whose
\* eight digits are cut after the second.
Escape(c) ==
  IF c \in Ascii THEN <<Percent, HexDigit(c \div 16), HexDigit(c % 16)>>
                 ELSE <<Percent, HexDigit(15), HexDigit(15)>>

EncodeCharPlusKept(c) ==
  IF c \in Alnum \cup StringMarks \cup {Plus} THEN <<c>>
  ELSE IF c = Space THEN <<Plus>> ELSE Escape(c)

EncodeCharAsInUrl(c) ==
  IF c \in Alnum \cup UrlMarks THEN <<c>>
  ELSE IF c = Space THEN <<Plus>> ELSE Escape(c)

EncodeChar(c) ==
  IF c \in Alnum \cup StringMarks THEN <<c>>
  ELSE IF c = Space THEN <<Plus>> ELSE Escape(c)

EncodeUrlCharPercentKept(c) ==
  IF c \in Alnum \cup UrlMarks \cup {Percent} THEN <<c>> ELSE Escape(c)

EncodeUrlChar(c) == IF c \in Alnum \cup UrlMarks THEN <<c>> ELSE Escape(c)

EncodeString(s) == FlattenSeq([i \in DOMAIN s |-> EncodeChar(s[i])])

EncodeURL(s) == FlattenSeq([i \in DOMAIN s |-> EncodeUrlChar(s[i])])

\* What sscanf of "%%%2x" may leave in the integer when t follows the percent sign:
\* white space is skipped, then at most two characters are read, the first of which
\* may be a sign.  Without a digit the integer stays as it was.
Scanned(t) ==
  LET first == SelectInSeq(t, LAMBDA c : c \notin WhiteSpace)
      c == IF first = 0 THEN Percent ELSE t[first]
      d == IF first \in {0, Len(t)} THEN Percent ELSE t[first + 1]
  IN  CASE c \in Hexes /\ d \in Hexes    -> {16 * HexValue(c) + HexValue(d)}
        [] c \in Hexes /\ d \notin Hexes -> {HexValue(c)}
        [] c = Plus /\ d \in Hexes       -> {HexValue(d)}
        [] c = Minus /\ d \in Hexes      -> {(256 - HexValue(d)) % 256}
        [] OTHER                         -> Garbage

\* The strings decodeString may return.  An escape takes three characters, however
\* many of them sscanf has read.
DecodeString(s) ==
  LET decoded[i \in 1..(Len(s) + 3)] ==
        IF i > Len(s) THEN {<<>>}
        ELSE IF s[i] = Percent
        THEN {Cons(b, rest) : b \in Scanned(SubSeq(s, i + 1, Len(s))), rest \in decoded[i + 3]}
        ELSE {Cons(IF s[i] = Plus THEN Space ELSE s[i], rest) : rest \in decoded[i + 1]}
  IN  decoded[1]

\* The path a web server finds in a url: what comes before the query, with each escape
\* standing for its byte.
ServerDecodes(url) ==
  LET decoded[i \in 1..(Len(url) + 3)] ==
        IF i > Len(url) \/ url[i] = Question THEN <<>>
        ELSE IF url[i] = Percent
        THEN Cons(16 * HexValue(url[i + 1]) + HexValue(url[i + 2]), decoded[i + 3])
        ELSE Cons(url[i], decoded[i + 1])
  IN  decoded[1]
====
