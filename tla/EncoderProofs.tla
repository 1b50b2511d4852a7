----------------------------- MODULE EncoderProofs -----------------------------
(***************************************************************************)
(* Encoder: the escape of an ASCII character is read back whatever follows *)
(* it, different characters are written differently, and none is written   *)
(* as markup; and so for whole strings, by induction on their length.      *)
(*                                                                         *)
(* The provers cannot instantiate a schema of induction.  A set of         *)
(* naturals, however, has a least element, so that a set which holds each  *)
(* number whose predecessors it holds has them all; and a set comes from   *)
(* a property by comprehension.                                            *)
(***************************************************************************)
EXTENDS Encoder, Documents, WellFoundedInduction, SequenceTheorems, TLAPS

-----------------------------------------------------------------------------
(* The least of some naturals, induction, and the elements of a document.  *)

LEMMA FirstIsInside ==
  ASSUME NEW I, I \subseteq Nat, I # {}
  PROVE  Min(I) \in I /\ \A i \in I : Min(I) <= i
<1> DEFINE R == {ss \in Nat \X Nat : ss[1] < ss[2]}
<1>1. IsWellFoundedOn(R, Nat)
  BY NatLessThanWellFounded DEF OpToRel
<1>2. \E m \in I : \A i \in I : ~(<<i, m>> \in R)
  <2> HIDE DEF R
  <2> QED
    BY <1>1, WFMin
<1>3. \A i, m \in I : ~(<<i, m>> \in R) => m <= i
  OBVIOUS
<1>4. \E m \in I : \A i \in I : m <= i
  <2> HIDE DEF R
  <2> QED
    BY <1>2, <1>3
<1> QED
  BY <1>4 DEF Min

LEMMA Induction ==
  ASSUME NEW T, \A n \in Nat : (\A m \in Nat : m < n => m \in T) => n \in T
  PROVE  \A n \in Nat : n \in T
<1> DEFINE I == {n \in Nat : n \notin T}
<1>1. SUFFICES ASSUME I # {} PROVE FALSE
  OBVIOUS
<1>2. Min(I) \in I /\ \A i \in I : Min(I) <= i
  <2> I \subseteq Nat
    OBVIOUS
  <2> HIDE DEF I
  <2> QED
    BY <1>1, FirstIsInside
<1>3. \A m \in Nat : m < Min(I) => m \in T
  BY <1>2
<1> QED
  BY <1>2, <1>3

\* Items are the end of the elements, from one with this tag on.
LEMMA ItemsFrom ==
  ASSUME NEW S, NEW s \in Seq(S), NEW tag
  PROVE  /\ Items(s, tag) \in Seq(S)
         /\ Len(Items(s, tag)) \in Nat
         /\ s # <<>> /\ s[1].tag = tag => Items(s, tag) = s
<1> DEFINE I == {i \in 1..Len(s) : s[i].tag = tag}
           first == SelectInSeq(s, LAMBDA e : e.tag = tag)
<1>1. first = IF I # {} THEN Min(I) ELSE 0
  BY DEF SelectInSeq
<1>2. I \subseteq Nat /\ I \subseteq 1..Len(s) /\ Len(s) \in Nat
  OBVIOUS
<1>3. CASE I = {}
  <2>1. Items(s, tag) = <<>>
    BY <1>1, <1>3 DEF Items
  <2>2. s # <<>> => 1 \in 1..Len(s)
    OBVIOUS
  <2> QED
    BY <2>1, <2>2, <1>3
<1>4. CASE I # {}
  <2>1. first \in I /\ \A i \in I : first <= i
    BY <1>1, <1>2, <1>4, FirstIsInside
  <2>2. Items(s, tag) = IF first = 0 THEN <<>> ELSE SubSeq(s, first, Len(s))
    BY DEF Items
  <2>3. 1 \in I => first <= 1
    BY <2>1
  <2>4. first \in 1..Len(s)
    BY <2>1, <1>2
  <2>5. s # <<>> /\ s[1].tag = tag => 1 \in I
    OBVIOUS
  <2> HIDE DEF first, I
  <2>6. Items(s, tag) = SubSeq(s, first, Len(s))
    BY <2>2, <2>4
  <2>7. SubSeq(s, first, Len(s)) \in Seq(S)
    BY <2>4, SubSeqProperties
  <2>8. s # <<>> /\ s[1].tag = tag => first = 1
    BY <2>3, <2>4, <2>5
  <2>9. SubSeq(s, 1, Len(s)) = s
    BY SubSeqFull
  <2> QED
    BY <2>6, <2>7, <2>8, <2>9, LenProperties
<1> QED
  BY <1>3, <1>4

-----------------------------------------------------------------------------
(* Characters.                                                             *)

LEMMA HexDigits ==
  /\ \A d \in 0..15 : HexDigit(d) \in Hexes /\ HexValue(HexDigit(d)) = d
  /\ Hexes \cap WhiteSpace = {} /\ Hexes \cap Markup = {} /\ Hexes \subseteq Byte
<1>1. \A d \in 0..15 : HexDigit(d) \in Hexes
  BY DEF HexDigit, Hexes, Digits
<1>2. ASSUME NEW d \in 0..15 PROVE HexValue(HexDigit(d)) = d
  <2>1. CASE d < 10
    <3>1. HexDigit(d) = 48 + d /\ HexDigit(d) \in Digits
      BY <2>1 DEF HexDigit, Digits
    <3>2. HexDigit(d) \notin 65..70 /\ HexDigit(d) \notin 97..102
      BY <2>1, <3>1
    <3> QED BY <3>1, <3>2 DEF HexValue
  <2>2. CASE ~(d < 10)
    <3>1. HexDigit(d) = 55 + d /\ HexDigit(d) \in 65..70
      BY <2>2 DEF HexDigit
    <3>2. HexDigit(d) \notin Digits /\ HexDigit(d) \notin 97..102
      BY <2>2, <3>1 DEF Digits
    <3> QED BY <3>1, <3>2 DEF HexValue
  <2> QED BY <2>1, <2>2
<1>3. Hexes \cap WhiteSpace = {} /\ Hexes \cap Markup = {} /\ Hexes \subseteq Byte
  BY DEF Hexes, Digits, WhiteSpace, Space, Markup, Byte
<1> QED BY <1>1, <1>2, <1>3

LEMMA Halves ==
  ASSUME NEW c \in Ascii
  PROVE  c \div 16 \in 0..15 /\ c % 16 \in 0..15 /\ 16 * (c \div 16) + (c % 16) = c
<1>1. c \in Nat /\ c <= 127
  BY DEF Ascii
<1>2. c \div 16 \in Nat /\ c % 16 \in 0..15 /\ c = 16 * (c \div 16) + (c % 16)
  BY <1>1, Z3
<1>3. c \div 16 <= 15
  BY <1>1, <1>2
<1> QED BY <1>2, <1>3

\* sscanf in decodeString reads the escape encodeString made of an ASCII character as
\* that character and nothing else, whatever comes after its two digits.
THEOREM EscapesReadBack ==
  ASSUME NEW c \in Ascii, NEW t \in Seq(Byte), Len(t) >= 2,
         t[1] = Escape(c)[2], t[2] = Escape(c)[3]
  PROVE  Scanned(t) = {c}
<1> DEFINE I == {i \in 1..Len(t) : t[i] \notin WhiteSpace}
           first == SelectInSeq(t, LAMBDA x : x \notin WhiteSpace)
<1>1. t[1] = HexDigit(c \div 16) /\ t[2] = HexDigit(c % 16)
  BY DEF Escape
<1>2. t[1] \in Hexes /\ t[2] \in Hexes /\ HexValue(t[1]) = c \div 16 /\ HexValue(t[2]) = c % 16
  BY <1>1, HexDigits, Halves
<1>3. Len(t) \in Nat /\ 1 \in I /\ I \subseteq Nat /\ \A i \in I : 1 <= i
  BY <1>2, HexDigits
<1>4. first = Min(I)
  BY <1>3 DEF SelectInSeq
<1>5. first = 1
  <2> HIDE DEF I, first
  <2>1. I # {}
    BY <1>3
  <2>2. Min(I) \in I /\ \A i \in I : Min(I) <= i
    BY <1>3, <2>1, FirstIsInside
  <2>3. first \in I /\ first <= 1
    BY <1>3, <1>4, <2>2
  <2>4. first \in Nat /\ 1 <= first
    BY <1>3, <2>3
  <2> QED BY <2>3, <2>4
<1>6. ~(first \in {0, Len(t)}) /\ first + 1 = 2
  BY <1>3, <1>5
<1> DEFINE v == 16 * HexValue(t[1]) + HexValue(t[2])
<1>7. Scanned(t) = {v}
  <2> HIDE DEF v
  <2>1. Scanned(t) =
          LET a == t[1]
              b == t[2]
          IN  CASE a \in Hexes /\ b \in Hexes    -> {16 * HexValue(a) + HexValue(b)}
                [] a \in Hexes /\ b \notin Hexes -> {HexValue(a)}
                [] a = Plus /\ b \in Hexes       -> {HexValue(b)}
                [] a = Minus /\ b \in Hexes      -> {(256 - HexValue(b)) % 256}
                [] OTHER                         -> Garbage
    BY <1>5, <1>6 DEF Scanned
  <2>2. ~(t[1] = Plus) /\ ~(t[1] = Minus)
    <3>1. Plus \notin Hexes /\ Minus \notin Hexes
      BY DEF Hexes, Digits, Plus, Minus
    <3> QED BY <1>2, <3>1
  <2> QED BY <1>2, <2>1, <2>2 DEF v
<1>8. v = c
  <2>1. v = 16 * (c \div 16) + (c % 16)
    BY <1>2
  <2> QED BY <2>1, Halves
<1> QED BY <1>7, <1>8

\* recordUpdate prints names into an attribute with nothing else to escape them: no
\* character, ASCII or not, is encoded to one with a meaning in XML.
THEOREM NoMarkup ==
  ASSUME NEW c \in Byte
  PROVE  \A i \in DOMAIN EncodeChar(c) : EncodeChar(c)[i] \notin Markup
<1>1. CASE c \in Alnum \cup StringMarks
  BY <1>1 DEF EncodeChar, Alnum, Digits, StringMarks, Markup
<1>2. CASE c = Space
  BY <1>2 DEF EncodeChar, Space, Plus, Alnum, Digits, StringMarks, Markup
<1>3. CASE c \notin Alnum \cup StringMarks /\ c # Space
  <2>1. EncodeChar(c) = Escape(c)
    BY <1>3 DEF EncodeChar
  <2>2. PICK a \in Hexes, b \in Hexes : Escape(c) = <<Percent, a, b>>
    <3>1. CASE c \in Ascii
      BY <3>1, HexDigits, Halves DEF Escape
    <3>2. CASE c \notin Ascii
      BY <3>2, HexDigits DEF Escape
    <3> QED BY <3>1, <3>2
  <2>3. a \notin Markup /\ b \notin Markup /\ Percent \notin Markup
    BY HexDigits DEF Markup, Percent
  <2> QED BY <2>1, <2>2, <2>3
<1> QED BY <1>1, <1>2, <1>3

\* encodeString writes no two ASCII characters the same, so that what two names are
\* written as in a list differs where they first differ.
THEOREM CodesDiffer ==
  ASSUME NEW c \in Ascii, NEW d \in Ascii, EncodeChar(c) = EncodeChar(d)
  PROVE  c = d
<1>1. \A x \in Ascii :
        \/ x \in Alnum \cup StringMarks /\ EncodeChar(x) = <<x>>
        \/ x = Space /\ EncodeChar(x) = <<Plus>>
        \/ EncodeChar(x) = <<Percent, HexDigit(x \div 16), HexDigit(x % 16)>>
  BY DEF EncodeChar, Escape
<1>2. Plus \notin Alnum \cup StringMarks
  BY DEF Plus, Alnum, Digits, StringMarks
<1>3. \A a, b, x, y : <<x>> # <<Percent, a, b>> /\ (<<x>> = <<y>> => x = y)
  OBVIOUS
<1>4. CASE /\ EncodeChar(c) = <<Percent, HexDigit(c \div 16), HexDigit(c % 16)>>
           /\ EncodeChar(d) = <<Percent, HexDigit(d \div 16), HexDigit(d % 16)>>
  <2>1. \A p, q, x, y : <<Percent, p, q>> = <<Percent, x, y>> => p = x /\ q = y
    OBVIOUS
  <2>2. HexDigit(c \div 16) = HexDigit(d \div 16) /\ HexDigit(c % 16) = HexDigit(d % 16)
    <3>1. <<Percent, HexDigit(c \div 16), HexDigit(c % 16)>>
            = <<Percent, HexDigit(d \div 16), HexDigit(d % 16)>>
      BY <1>4, EncodeChar(c) = EncodeChar(d), Zenon
    <3> QED BY <2>1, <3>1, Zenon
  <2>3. c \div 16 = d \div 16 /\ c % 16 = d % 16
    BY <2>2, HexDigits, Halves
  <2>4. c = 16 * (c \div 16) + (c % 16) /\ d = 16 * (d \div 16) + (d % 16)
    BY Halves
  <2> QED BY <2>3, <2>4
<1> QED BY <1>1, <1>2, <1>3, <1>4

-----------------------------------------------------------------------------
(* Joining pieces.                                                         *)

\* The function by which FlattenSeq joins pieces.
Joins(seqs, f) ==
  f = [i \in 1..Len(seqs) |-> IF i = 1 THEN seqs[i] ELSE f[i - 1] \o seqs[i]]

LEMMA JoinsExists ==
  ASSUME NEW seqs, Len(seqs) \in Nat
  PROVE  \E f : Joins(seqs, f)
<1> DEFINE Upto(k, g) == g = [i \in 1..k |-> IF i = 1 THEN seqs[i] ELSE g[i - 1] \o seqs[i]]
           T == {k \in Nat : \E g : Upto(k, g)}
<1>1. ASSUME NEW n \in Nat, \A m \in Nat : m < n => m \in T PROVE n \in T
  <2>1. CASE n = 0
    <3> DEFINE g == [i \in {} |-> i]
    <3>1. Upto(0, g)
      OBVIOUS
    <3> QED BY <2>1, <3>1
  <2>2. CASE n # 0
    <3>1. n - 1 \in T
      <4> HIDE DEF T
      <4>1. n - 1 \in Nat /\ n - 1 < n
        BY <2>2
      <4> QED BY <1>1, <4>1
    <3>2. PICK g : Upto(n - 1, g)
      BY <3>1
    <3> DEFINE h == [i \in 1..n |-> IF i = 1 THEN seqs[i] ELSE g[i - 1] \o seqs[i]]
    <3>3. \A i \in 1..(n - 1) : h[i] = g[i]
      <4>1. \A i \in 1..(n - 1) : g[i] = IF i = 1 THEN seqs[i] ELSE g[i - 1] \o seqs[i]
        BY <3>2, Zenon
      <4>2. \A i \in 1..n : h[i] = IF i = 1 THEN seqs[i] ELSE g[i - 1] \o seqs[i]
        BY Zenon
      <4>3. \A i \in 1..(n - 1) : i \in 1..n
        OBVIOUS
      <4> QED BY <4>1, <4>2, <4>3, Zenon
    <3>4. \A i \in 1..n : i # 1 => i - 1 \in 1..(n - 1)
      OBVIOUS
    <3>5. Upto(n, h)
      <4> HIDE DEF h
      <4>1. [i \in 1..n |-> IF i = 1 THEN seqs[i] ELSE g[i - 1] \o seqs[i]]
             = [i \in 1..n |-> IF i = 1 THEN seqs[i] ELSE h[i - 1] \o seqs[i]]
        BY <3>3, <3>4
      <4> QED BY <4>1 DEF h
    <3> QED BY <3>5
  <2> QED BY <2>1, <2>2
<1>2. Len(seqs) \in T
  <2> HIDE DEF T
  <2> QED BY <1>1, Induction
<1> QED BY <1>2 DEF Joins

\* FlattenSeq joins the pieces one after the other, from the empty sequence on.
LEMMA FlattenJoins ==
  ASSUME NEW S, NEW seqs \in Seq(Seq(S))
  PROVE  \E v : /\ v[0] = <<>> /\ v[Len(seqs)] = FlattenSeq(seqs)
                /\ \A k \in 1..Len(seqs) : v[k] = v[k - 1] \o seqs[k]
<1>1. CASE Len(seqs) = 0
  <2>1. seqs = <<>> /\ FlattenSeq(seqs) = seqs
    BY <1>1, EmptySeq DEF FlattenSeq
  <2> WITNESS [k \in {0} |-> <<>>]
  <2> QED BY <1>1, <2>1
<1>2. CASE Len(seqs) # 0
  <2> DEFINE f == CHOOSE f : Joins(seqs, f)
  <2>1. Len(seqs) \in Nat
    BY LenProperties
  <2>2. Joins(seqs, f)
    BY <2>1, JoinsExists
  <2>3. FlattenSeq(seqs) = f[Len(seqs)]
    BY <1>2, Zenon DEF FlattenSeq, Joins
  <2> HIDE DEF f
  <2>4. \A i \in 1..Len(seqs) : f[i] = IF i = 1 THEN seqs[i] ELSE f[i - 1] \o seqs[i]
    BY <2>2, Zenon DEF Joins
  <2> DEFINE v == [k \in 0..Len(seqs) |-> IF k = 0 THEN <<>> ELSE f[k]]
  <2>5. v[0] = <<>> /\ \A k \in 1..Len(seqs) : v[k] = f[k]
    BY <2>1
  <2>6. ASSUME NEW k \in 1..Len(seqs) PROVE v[k] = v[k - 1] \o seqs[k]
    <3>1. CASE k = 1
      <4>1. seqs[k] \in Seq(S)
        BY ElementOfSeq
      <4>2. <<>> \o seqs[k] = seqs[k]
        BY <4>1, ConcatEmptySeq
      <4>3. v[k] = seqs[k] /\ v[k - 1] = <<>>
        <5> HIDE DEF v
        <5> QED BY <2>4, <2>5, <3>1
      <4> HIDE DEF v
      <4> QED BY <4>2, <4>3
    <3>2. CASE k # 1
      <4>1. k - 1 \in 1..Len(seqs)
        BY <2>1, <3>2
      <4> HIDE DEF v
      <4>2. f[k] = f[k - 1] \o seqs[k]
        BY <2>4, <3>2
      <4> QED BY <2>5, <4>1, <4>2
    <3> QED BY <3>1, <3>2
  <2>7. v[Len(seqs)] = FlattenSeq(seqs)
    BY <1>2, <2>1, <2>3, <2>5
  <2> QED BY <2>5, <2>6, <2>7
<1> QED BY <1>1, <1>2

\* The first k pieces of seqs lie in x one after the other, the last of them ending at
\* pos[k], and x has nothing else.
Placed(S, seqs, k, pos, x) ==
  /\ x \in Seq(S)
  /\ pos \in [0..k -> Nat] /\ pos[0] = 0 /\ pos[k] = Len(x)
  /\ \A m \in 1..k :
       /\ pos[m] = pos[m - 1] + Len(seqs[m]) /\ pos[m] <= Len(x)
       /\ \A j \in 1..Len(seqs[m]) : x[pos[m - 1] + j] = seqs[m][j]
  /\ \A i \in 1..Len(x) : \E m \in 1..k : \E j \in 1..Len(seqs[m]) : i = pos[m - 1] + j

LEMMA PlaceOneMore ==
  ASSUME NEW S, NEW seqs \in Seq(Seq(S)), NEW k \in 1..Len(seqs), NEW pos, NEW x,
         Placed(S, seqs, k - 1, pos, x)
  PROVE  \E p : Placed(S, seqs, k, p, x \o seqs[k])
<1> DEFINE y == seqs[k]
           p == [i \in 0..k |-> IF i = k THEN Len(x) + Len(y) ELSE pos[i]]
           z == x \o y
<1>1. k \in Nat /\ k >= 1 /\ k - 1 \in Nat /\ Len(seqs) \in Nat
  BY LenProperties
<1>2. y \in Seq(S) /\ \A m \in 1..k : seqs[m] \in Seq(S) /\ Len(seqs[m]) \in Nat
  <2>1. \A m \in 1..k : m \in 1..Len(seqs)
    BY <1>1
  <2>2. \A m \in 1..k : seqs[m] \in Seq(S)
    BY <2>1, ElementOfSeq
  <2> QED BY <2>2, LenProperties
<1>3. x \in Seq(S) /\ Len(x) \in Nat /\ pos[k - 1] = Len(x)
  BY LenProperties DEF Placed
<1>4. /\ z \in Seq(S) /\ Len(z) = Len(x) + Len(y)
      /\ \A i \in 1..(Len(x) + Len(y)) : z[i] = IF i <= Len(x) THEN x[i] ELSE y[i - Len(x)]
  BY <1>2, <1>3, ConcatProperties
<1>5. p \in [0..k -> Nat] /\ p[k] = Len(z) /\ \A i \in 0..(k - 1) : p[i] = pos[i]
  <2>1. Len(x) + Len(y) \in Nat
    BY <1>1, <1>2, <1>3
  <2>2. \A i \in 0..k : i # k => i \in 0..(k - 1)
    BY <1>1
  <2>3. \A i \in 0..(k - 1) : i \in 0..k /\ i # k
    BY <1>1
  <2>4. pos \in [0..(k - 1) -> Nat]
    BY DEF Placed
  <2>5. k \in 0..k
    BY <1>1
  <2> QED BY <1>4, <2>1, <2>2, <2>3, <2>4, <2>5
<1>6. p[0] = 0
  BY <1>1, <1>5 DEF Placed
<1>7. ASSUME NEW m \in 1..k
      PROVE  /\ p[m] = p[m - 1] + Len(seqs[m]) /\ p[m] <= Len(z)
             /\ \A j \in 1..Len(seqs[m]) : z[p[m - 1] + j] = seqs[m][j]
  <2>1. CASE m = k
    <3>1. p[m] = Len(x) + Len(y) /\ p[m - 1] = Len(x)
      BY <1>1, <1>3, <1>4, <1>5, <2>1
    <3> HIDE DEF p, z
    <3>2. \A j \in 1..Len(y) : Len(x) + j \in 1..(Len(x) + Len(y)) /\ ~(Len(x) + j <= Len(x))
                                 /\ (Len(x) + j) - Len(x) = j
      BY <1>2, <1>3
    <3> QED BY <1>2, <1>3, <1>4, <2>1, <3>1, <3>2
  <2>2. CASE m # k
    <3>1. m \in 1..(k - 1) /\ m \in 0..(k - 1) /\ m - 1 \in 0..(k - 1)
      BY <1>1, <2>2
    <3>2. p[m] = pos[m] /\ p[m - 1] = pos[m - 1] /\ pos[m - 1] \in Nat
      BY <1>5, <3>1 DEF Placed
    <3>3. /\ pos[m] = pos[m - 1] + Len(seqs[m]) /\ pos[m] <= Len(x)
          /\ \A j \in 1..Len(seqs[m]) : x[pos[m - 1] + j] = seqs[m][j]
      BY <3>1 DEF Placed
    <3> HIDE DEF p, z
    <3>4. Len(seqs[m]) \in Nat /\ Len(y) \in Nat /\ Len(x) \in Nat
      BY <1>2, <1>3, LenProperties
    <3>5. ASSUME NEW j \in 1..Len(seqs[m])
          PROVE  /\ pos[m - 1] + j \in 1..(Len(x) + Len(y)) /\ pos[m - 1] + j <= Len(x)
                 /\ z[pos[m - 1] + j] = seqs[m][j]
      <4> HIDE DEF y
      <4>1. pos[m - 1] + j \in 1..(Len(x) + Len(y)) /\ pos[m - 1] + j <= Len(x)
        BY <3>2, <3>3, <3>4
      <4> QED BY <1>4, <3>3, <4>1
    <3>6. p[m] <= Len(z)
      <4> HIDE DEF y
      <4> QED BY <1>4, <3>2, <3>3, <3>4
    <3> QED BY <3>2, <3>3, <3>5, <3>6
  <2> QED BY <2>1, <2>2
<1>8. ASSUME NEW i \in 1..Len(z)
      PROVE  \E m \in 1..k : \E j \in 1..Len(seqs[m]) : i = p[m - 1] + j
  <2>1. CASE i <= Len(x)
    <3>1. i \in 1..Len(x)
      BY <1>3, <1>4, <2>1
    <3>2. PICK m \in 1..(k - 1) : \E j \in 1..Len(seqs[m]) : i = pos[m - 1] + j
      BY <3>1 DEF Placed
    <3>3. m \in 1..k /\ m - 1 \in 0..(k - 1)
      BY <1>1
    <3> QED BY <1>5, <3>2, <3>3
  <2>2. CASE ~(i <= Len(x))
    <3>1. i - Len(x) \in 1..Len(y) /\ i = Len(x) + (i - Len(x))
      BY <1>2, <1>3, <1>4, <2>2
    <3>2. p[k - 1] = Len(x) /\ k \in 1..k
      BY <1>1, <1>3, <1>5
    <3> QED BY <3>1, <3>2
  <2> QED BY <2>1, <2>2
<1> HIDE DEF p, z
<1>9. Placed(S, seqs, k, p, z)
  BY <1>4, <1>5, <1>6, <1>7, <1>8 DEF Placed
<1> QED BY <1>9 DEF z

\* FlattenSeq puts the pieces one after the other.
THEOREM Flattened ==
  ASSUME NEW S, NEW seqs \in Seq(Seq(S))
  PROVE  \E pos : Placed(S, seqs, Len(seqs), pos, FlattenSeq(seqs))
<1>1. PICK v : /\ v[0] = <<>> /\ v[Len(seqs)] = FlattenSeq(seqs)
               /\ \A k \in 1..Len(seqs) : v[k] = v[k - 1] \o seqs[k]
  BY FlattenJoins
<1> DEFINE T == {k \in Nat : k <= Len(seqs) => \E pos : Placed(S, seqs, k, pos, v[k])}
<1>2. Len(seqs) \in Nat
  BY LenProperties
<1>3. ASSUME NEW n \in Nat, \A m \in Nat : m < n => m \in T PROVE n \in T
  <2>1. CASE n = 0
    <3>1. Placed(S, seqs, 0, [i \in 0..0 |-> 0], <<>>)
      BY EmptySeq DEF Placed
    <3> QED BY <1>1, <2>1, <3>1
  <2>2. CASE n # 0
    <3> SUFFICES ASSUME n <= Len(seqs) PROVE \E pos : Placed(S, seqs, n, pos, v[n])
      OBVIOUS
    <3>1. n - 1 \in Nat /\ n - 1 < n /\ n - 1 <= Len(seqs) /\ n \in 1..Len(seqs)
      BY <1>2, <2>2
    <3>2. n - 1 \in T
      BY <1>3, <3>1
    <3>3. PICK pos : Placed(S, seqs, n - 1, pos, v[n - 1])
      BY <3>1, <3>2
    <3>4. \E p : Placed(S, seqs, n, p, v[n - 1] \o seqs[n])
      BY <3>1, <3>3, PlaceOneMore
    <3> QED BY <1>1, <3>1, <3>4
  <2> QED BY <2>1, <2>2
<1>4. Len(seqs) \in T
  <2> HIDE DEF T
  <2> QED BY <1>2, <1>3, Induction
<1> QED BY <1>1, <1>2, <1>4

-----------------------------------------------------------------------------
(* The recursive functions of decodeString and of a server.                *)

\* How decodeString goes through a string: what it may make of the rest from place i,
\* f having what it may make of it from the places after.
DecodedFrom(s, i, f) ==
  IF i > Len(s) THEN {<<>>}
  ELSE IF s[i] = Percent
  THEN {Cons(b, rest) : b \in Scanned(SubSeq(s, i + 1, Len(s))), rest \in f[i + 3]}
  ELSE {Cons(IF s[i] = Plus THEN Space ELSE s[i], rest) : rest \in f[i + 1]}

Decodes(s, f) == f = [i \in 1..(Len(s) + 3) |-> DecodedFrom(s, i, f)]

LEMMA DecodesExists ==
  ASSUME NEW s, Len(s) \in Nat
  PROVE  \E f : Decodes(s, f)
<1> DEFINE D == Len(s) + 3
           From(k, f) == f = [i \in (D + 1 - k)..D |-> DecodedFrom(s, i, f)]
           T == {k \in Nat : k <= D => \E f : From(k, f)}
<1>1. ASSUME NEW n \in Nat, \A m \in Nat : m < n => m \in T PROVE n \in T
  <2>1. CASE n = 0
    <3> DEFINE f == [i \in {} |-> i]
    <3>1. (D + 1 - 0)..D = {}
      OBVIOUS
    <3>2. f = [i \in {} |-> DecodedFrom(s, i, f)]
      OBVIOUS
    <3>3. From(0, f)
      BY <3>1, <3>2
    <3> QED BY <2>1, <3>3
  <2>2. CASE n # 0
    <3> SUFFICES ASSUME n <= D PROVE \E f : From(n, f)
      OBVIOUS
    <3>1. n - 1 \in Nat /\ n - 1 < n /\ n - 1 <= D
      BY <2>2
    <3>2. n - 1 \in T
      <4> HIDE DEF T
      <4> QED BY <1>1, <3>1
    <3>3. PICK g : From(n - 1, g)
      BY <3>1, <3>2
    <3> DEFINE h == [i \in (D + 1 - n)..D |-> DecodedFrom(s, i, g)]
    <3>4. \A i \in (D + 1 - n)..D : h[i] = DecodedFrom(s, i, g)
      OBVIOUS
    <3>5. \A i \in (D + 1 - (n - 1))..D : g[i] = DecodedFrom(s, i, g)
      BY <3>3, Zenon
    <3>6. \A i \in (D + 1 - (n - 1))..D : i \in (D + 1 - n)..D /\ h[i] = g[i]
      <4>1. \A i \in (D + 1 - (n - 1))..D : i \in (D + 1 - n)..D
        BY <3>1
      <4> HIDE DEF h
      <4> QED BY <3>4, <3>5, <4>1, Zenon
    <3>7. ASSUME NEW i \in (D + 1 - n)..D PROVE DecodedFrom(s, i, g) = DecodedFrom(s, i, h)
      <4>1. CASE i > Len(s)
        BY <4>1 DEF DecodedFrom
      <4>2. CASE ~(i > Len(s))
        <5>1. i + 1 \in (D + 1 - (n - 1))..D /\ i + 3 \in (D + 1 - (n - 1))..D
          BY <3>1, <4>2
        <5>2. h[i + 1] = g[i + 1] /\ h[i + 3] = g[i + 3]
          <6> HIDE DEF h, D
          <6> QED BY <3>6, <5>1
        <5> HIDE DEF h
        <5> QED BY <5>2 DEF DecodedFrom
      <4> QED BY <4>1, <4>2
    <3>8. From(n, h)
      <4> DEFINE hh == [i \in (D + 1 - n)..D |-> DecodedFrom(s, i, h)]
      <4>1. \A i \in (D + 1 - n)..D : hh[i] = h[i]
        BY <3>4, <3>7, Zenon
      <4>2. h = hh
        BY <4>1
      <4> QED BY <4>2
    <3> QED BY <3>8
  <2> QED BY <2>1, <2>2
<1>2. D \in T /\ D \in Nat
  <2>1. D \in Nat
    OBVIOUS
  <2> HIDE DEF T, D
  <2> QED BY <1>1, <2>1, Induction
<1>3. PICK f : From(D, f)
  BY <1>2
<1>4. D + 1 - D = 1 /\ D = Len(s) + 3
  BY <1>2
<1>5. f = [i \in 1..(Len(s) + 3) |-> DecodedFrom(s, i, f)]
  <2> HIDE DEF D
  <2> QED BY <1>3, <1>4
<1> QED BY <1>5, Zenon DEF Decodes

\* decodeString decodes the first character and then the rest.
LEMMA Decoding ==
  ASSUME NEW s, Len(s) \in Nat
  PROVE  \E f : Decodes(s, f) /\ DecodeString(s) = f[1]
<1> DEFINE f == CHOOSE f : Decodes(s, f)
<1>1. Decodes(s, f)
  BY DecodesExists
<1>2. DecodeString(s) = f[1]
  BY DEF DecodeString, Decodes, DecodedFrom
<1> HIDE DEF f
<1> QED BY <1>1, <1>2

LEMMA DecodesAt ==
  ASSUME NEW s, NEW f, Decodes(s, f), NEW i \in 1..(Len(s) + 3)
  PROVE  f[i] = DecodedFrom(s, i, f)
  BY Zenon DEF Decodes

\* How the server goes through a url.
ServedFrom(s, i, f) ==
  IF i > Len(s) \/ s[i] = Question THEN <<>>
  ELSE IF s[i] = Percent
  THEN Cons(16 * HexValue(s[i + 1]) + HexValue(s[i + 2]), f[i + 3])
  ELSE Cons(s[i], f[i + 1])

Serves(s, f) == f = [i \in 1..(Len(s) + 3) |-> ServedFrom(s, i, f)]

LEMMA ServesExists ==
  ASSUME NEW s, Len(s) \in Nat
  PROVE  \E f : Serves(s, f)
<1> DEFINE D == Len(s) + 3
           From(k, f) == f = [i \in (D + 1 - k)..D |-> ServedFrom(s, i, f)]
           T == {k \in Nat : k <= D => \E f : From(k, f)}
<1>1. ASSUME NEW n \in Nat, \A m \in Nat : m < n => m \in T PROVE n \in T
  <2>1. CASE n = 0
    <3> DEFINE f == [i \in {} |-> i]
    <3>1. (D + 1 - 0)..D = {}
      OBVIOUS
    <3>2. f = [i \in {} |-> ServedFrom(s, i, f)]
      OBVIOUS
    <3>3. From(0, f)
      BY <3>1, <3>2
    <3> QED BY <2>1, <3>3
  <2>2. CASE n # 0
    <3> SUFFICES ASSUME n <= D PROVE \E f : From(n, f)
      OBVIOUS
    <3>1. n - 1 \in Nat /\ n - 1 < n /\ n - 1 <= D
      BY <2>2
    <3>2. n - 1 \in T
      <4> HIDE DEF T
      <4> QED BY <1>1, <3>1
    <3>3. PICK g : From(n - 1, g)
      BY <3>1, <3>2
    <3> DEFINE h == [i \in (D + 1 - n)..D |-> ServedFrom(s, i, g)]
    <3>4. \A i \in (D + 1 - n)..D : h[i] = ServedFrom(s, i, g)
      OBVIOUS
    <3>5. \A i \in (D + 1 - (n - 1))..D : g[i] = ServedFrom(s, i, g)
      BY <3>3, Zenon
    <3>6. \A i \in (D + 1 - (n - 1))..D : i \in (D + 1 - n)..D /\ h[i] = g[i]
      <4>1. \A i \in (D + 1 - (n - 1))..D : i \in (D + 1 - n)..D
        BY <3>1
      <4> HIDE DEF h
      <4> QED BY <3>4, <3>5, <4>1, Zenon
    <3>7. ASSUME NEW i \in (D + 1 - n)..D PROVE ServedFrom(s, i, g) = ServedFrom(s, i, h)
      <4>1. CASE i > Len(s)
        BY <4>1 DEF ServedFrom
      <4>2. CASE ~(i > Len(s))
        <5>1. i + 1 \in (D + 1 - (n - 1))..D /\ i + 3 \in (D + 1 - (n - 1))..D
          BY <3>1, <4>2
        <5>2. h[i + 1] = g[i + 1] /\ h[i + 3] = g[i + 3]
          <6> HIDE DEF h, D
          <6> QED BY <3>6, <5>1
        <5> HIDE DEF h
        <5> QED BY <5>2 DEF ServedFrom
      <4> QED BY <4>1, <4>2
    <3>8. From(n, h)
      <4> DEFINE hh == [i \in (D + 1 - n)..D |-> ServedFrom(s, i, h)]
      <4>1. \A i \in (D + 1 - n)..D : hh[i] = h[i]
        BY <3>4, <3>7, Zenon
      <4>2. h = hh
        BY <4>1
      <4> QED BY <4>2
    <3> QED BY <3>8
  <2> QED BY <2>1, <2>2
<1>2. D \in T /\ D \in Nat
  <2>1. D \in Nat
    OBVIOUS
  <2> HIDE DEF T, D
  <2> QED BY <1>1, <2>1, Induction
<1>3. PICK f : From(D, f)
  BY <1>2
<1>4. D + 1 - D = 1 /\ D = Len(s) + 3
  BY <1>2
<1>5. f = [i \in 1..(Len(s) + 3) |-> ServedFrom(s, i, f)]
  <2> HIDE DEF D
  <2> QED BY <1>3, <1>4
<1> QED BY <1>5, Zenon DEF Serves

\* The server decodes the first character and then the rest.
LEMMA Serving ==
  ASSUME NEW s, Len(s) \in Nat
  PROVE  \E f : Serves(s, f) /\ ServerDecodes(s) = f[1]
<1> DEFINE f == CHOOSE f : Serves(s, f)
<1>1. Serves(s, f)
  BY ServesExists
<1>2. ServerDecodes(s) = f[1]
  BY DEF ServerDecodes, Serves, ServedFrom
<1> HIDE DEF f
<1> QED BY <1>1, <1>2

LEMMA ServesAt ==
  ASSUME NEW s, NEW f, Serves(s, f), NEW i \in 1..(Len(s) + 3)
  PROVE  f[i] = ServedFrom(s, i, f)
  BY Zenon DEF Serves

-----------------------------------------------------------------------------
(* The bytes of codes.                                                     *)

LEMMA HexBytes ==
  /\ \A h \in Hexes : HexValue(h) \in 0..15
  /\ Percent \in Byte /\ Plus \in Byte /\ Space \in Byte
<1>1. ASSUME NEW h \in Hexes PROVE HexValue(h) \in 0..15
  <2>1. CASE h \in Digits
    BY <2>1 DEF HexValue, Digits
  <2>2. CASE h \in 65..70
    <3>1. h \notin Digits /\ h \notin 97..102
      BY <2>2 DEF Digits
    <3> QED BY <2>2, <3>1 DEF HexValue
  <2>3. CASE h \in 97..102
    <3>1. h \notin Digits /\ h \notin 65..70
      BY <2>3 DEF Digits
    <3> QED BY <2>3, <3>1 DEF HexValue
  <2> QED BY <2>1, <2>2, <2>3 DEF Hexes
<1> QED BY <1>1 DEF Percent, Plus, Space, Byte

LEMMA EscapeCode ==
  ASSUME NEW c \in Byte
  PROVE  \E a, b \in Hexes : /\ Escape(c) = <<Percent, a, b>> /\ Escape(c) \in Seq(Byte)
                             /\ c \in Ascii => 16 * HexValue(a) + HexValue(b) = c
                             /\ c \notin Ascii => 16 * HexValue(a) + HexValue(b) = 255
<1>1. CASE c \in Ascii
  <2>1. Escape(c) = <<Percent, HexDigit(c \div 16), HexDigit(c % 16)>>
    BY <1>1 DEF Escape
  <2>2. HexDigit(c \div 16) \in Hexes /\ HexDigit(c % 16) \in Hexes
    BY <1>1, HexDigits, Halves
  <2>3. HexValue(HexDigit(c \div 16)) = c \div 16 /\ HexValue(HexDigit(c % 16)) = c % 16
    BY <1>1, HexDigits, Halves
  <2>4. 16 * (c \div 16) + (c % 16) = c
    BY <1>1, Halves
  <2>5. \A a, b \in Hexes : <<Percent, a, b>> \in Seq(Byte)
    BY HexDigits, HexBytes
  <2> QED BY <1>1, <2>1, <2>2, <2>3, <2>4, <2>5
<1>2. CASE c \notin Ascii
  <2>1. Escape(c) = <<Percent, HexDigit(15), HexDigit(15)>>
    BY <1>2 DEF Escape
  <2>2. HexDigit(15) \in Hexes /\ HexValue(HexDigit(15)) = 15
    BY HexDigits
  <2>3. \A a, b \in Hexes : <<Percent, a, b>> \in Seq(Byte)
    BY HexDigits, HexBytes
  <2> QED BY <1>2, <2>1, <2>2, <2>3
<1> QED BY <1>1, <1>2

\* A character is encoded as itself or as an escape; as no percent sign that is not the
\* first of an escape.
LEMMA StringCode ==
  ASSUME NEW c \in Byte
  PROVE  /\ EncodeChar(c) \in Seq(Byte) /\ Len(EncodeChar(c)) \in Nat \ {0}
         /\ c \in Ascii =>
              \/ EncodeChar(c) = Escape(c)
              \/ \E d \in Byte : /\ EncodeChar(c) = <<d>> /\ d # Percent
                                 /\ c = IF d = Plus THEN Space ELSE d
<1>1. CASE c \in Alnum \cup StringMarks
  <2>1. EncodeChar(c) = <<c>>
    BY <1>1 DEF EncodeChar
  <2>2. c # Percent /\ c # Plus
    BY <1>1 DEF Alnum, Digits, StringMarks, Percent, Plus
  <2> QED BY <2>1, <2>2
<1>2. CASE c \notin Alnum \cup StringMarks /\ c = Space
  <2>1. EncodeChar(c) = <<Plus>>
    BY <1>2 DEF EncodeChar
  <2>2. Plus # Percent
    BY DEF Percent, Plus
  <2> QED BY <1>2, <2>1, <2>2, HexBytes
<1>3. CASE c \notin Alnum \cup StringMarks /\ c # Space
  <2>1. EncodeChar(c) = Escape(c)
    BY <1>3 DEF EncodeChar
  <2>2. PICK a, b \in Hexes : Escape(c) = <<Percent, a, b>> /\ Escape(c) \in Seq(Byte)
    BY EscapeCode
  <2> QED BY <2>1, <2>2
<1> QED BY <1>1, <1>2, <1>3

LEMMA UrlCode ==
  ASSUME NEW c \in Byte
  PROVE  /\ EncodeUrlChar(c) \in Seq(Byte)
         /\ \/ EncodeUrlChar(c) = Escape(c)
            \/ EncodeUrlChar(c) = <<c>> /\ c # Percent /\ c \in Ascii
<1>1. CASE c \in Alnum \cup UrlMarks
  <2>1. EncodeUrlChar(c) = <<c>>
    BY <1>1 DEF EncodeUrlChar
  <2>2. c # Percent /\ c \in Ascii
    BY <1>1 DEF Alnum, Digits, UrlMarks, Percent, Ascii
  <2> QED BY <2>1, <2>2
<1>2. CASE c \notin Alnum \cup UrlMarks
  <2>1. EncodeUrlChar(c) = Escape(c)
    BY <1>2 DEF EncodeUrlChar
  <2>2. Escape(c) \in Seq(Byte)
    BY EscapeCode
  <2> QED BY <2>1, <2>2
<1> QED BY <1>1, <1>2

-----------------------------------------------------------------------------
(* Whole strings.                                                          *)

LEMMA ConsProperties ==
  ASSUME NEW S, NEW x \in S, NEW s \in Seq(S)
  PROVE  Cons(x, s) \in Seq(S)
<1>1. <<x>> \in Seq(S)
  OBVIOUS
<1> QED BY <1>1, ConcatProperties DEF Cons

LEMMA StringPieces ==
  ASSUME NEW s \in Seq(Byte)
  PROVE  \E codes, pos :
           /\ codes \in Seq(Seq(Byte)) /\ Len(codes) = Len(s)
           /\ \A i \in 1..Len(s) : s[i] \in Byte /\ codes[i] = EncodeChar(s[i])
           /\ Placed(Byte, codes, Len(s), pos, EncodeString(s))
<1> DEFINE codes == [i \in DOMAIN s |-> EncodeChar(s[i])]
<1>1. Len(s) \in Nat /\ DOMAIN s = 1..Len(s) /\ \A i \in 1..Len(s) : s[i] \in Byte
  BY LenProperties, ElementOfSeq
<1>2. \A i \in 1..Len(s) : EncodeChar(s[i]) \in Seq(Byte)
  BY <1>1, StringCode
<1>3. codes \in Seq(Seq(Byte)) /\ Len(codes) = Len(s)
  BY <1>1, <1>2
<1>4. \A i \in 1..Len(s) : codes[i] = EncodeChar(s[i])
  BY <1>1
<1>5. EncodeString(s) = FlattenSeq(codes)
  BY DEF EncodeString
<1> HIDE DEF codes
<1>6. \E pos : Placed(Byte, codes, Len(s), pos, EncodeString(s))
  BY <1>3, <1>5, Flattened
<1> QED BY <1>1, <1>3, <1>4, <1>6

LEMMA UrlPieces ==
  ASSUME NEW s \in Seq(Byte)
  PROVE  \E codes, pos :
           /\ codes \in Seq(Seq(Byte)) /\ Len(codes) = Len(s)
           /\ \A i \in 1..Len(s) : s[i] \in Byte /\ codes[i] = EncodeUrlChar(s[i])
           /\ Placed(Byte, codes, Len(s), pos, EncodeURL(s))
<1> DEFINE codes == [i \in DOMAIN s |-> EncodeUrlChar(s[i])]
<1>1. Len(s) \in Nat /\ DOMAIN s = 1..Len(s) /\ \A i \in 1..Len(s) : s[i] \in Byte
  BY LenProperties, ElementOfSeq
<1>2. \A i \in 1..Len(s) : EncodeUrlChar(s[i]) \in Seq(Byte)
  BY <1>1, UrlCode
<1>3. codes \in Seq(Seq(Byte)) /\ Len(codes) = Len(s)
  BY <1>1, <1>2
<1>4. \A i \in 1..Len(s) : codes[i] = EncodeUrlChar(s[i])
  BY <1>1
<1>5. EncodeURL(s) = FlattenSeq(codes)
  BY DEF EncodeURL
<1> HIDE DEF codes
<1>6. \E pos : Placed(Byte, codes, Len(s), pos, EncodeURL(s))
  BY <1>3, <1>5, Flattened
<1> QED BY <1>1, <1>3, <1>4, <1>6

\* No name, in ASCII or not, is encoded to something with markup in it.
THEOREM EncodedHasNoMarkup ==
  ASSUME NEW s \in Seq(Byte)
  PROVE  EncodeString(s) \in Seq(Byte) /\ ToSet(EncodeString(s)) \cap Markup = {}
<1> DEFINE E == EncodeString(s)
<1>1. PICK codes, pos :
        /\ codes \in Seq(Seq(Byte)) /\ Len(codes) = Len(s)
        /\ \A i \in 1..Len(s) : s[i] \in Byte /\ codes[i] = EncodeChar(s[i])
        /\ Placed(Byte, codes, Len(s), pos, E)
  BY StringPieces
<1>2. E \in Seq(Byte)
  BY <1>1 DEF Placed
<1>3. ASSUME NEW i \in 1..Len(E) PROVE E[i] \notin Markup
  <2>1. PICK m \in 1..Len(s) : \E j \in 1..Len(codes[m]) : i = pos[m - 1] + j
    BY <1>1 DEF Placed
  <2>2. PICK j \in 1..Len(codes[m]) : i = pos[m - 1] + j
    BY <2>1
  <2>3. E[i] = EncodeChar(s[m])[j] /\ s[m] \in Byte /\ j \in 1..Len(EncodeChar(s[m]))
    BY <1>1, <2>2 DEF Placed
  <2>4. j \in DOMAIN EncodeChar(s[m])
    BY <2>3, StringCode, LenProperties
  <2> QED BY <2>3, <2>4, NoMarkup
<1>4. DOMAIN E = 1..Len(E)
  BY <1>2, LenProperties
<1> QED BY <1>2, <1>3, <1>4 DEF ToSet

LEMMA ScannedBytes ==
  ASSUME NEW t \in Seq(Byte)
  PROVE  Scanned(t) \subseteq Byte
<1> DEFINE first == SelectInSeq(t, LAMBDA x : x \notin WhiteSpace)
           c == IF first = 0 THEN Percent ELSE t[first]
           d == IF first \in {0, Len(t)} THEN Percent ELSE t[first + 1]
<1>1. Scanned(t) =
        CASE c \in Hexes /\ d \in Hexes    -> {16 * HexValue(c) + HexValue(d)}
          [] c \in Hexes /\ d \notin Hexes -> {HexValue(c)}
          [] c = Plus /\ d \in Hexes       -> {HexValue(d)}
          [] c = Minus /\ d \in Hexes      -> {(256 - HexValue(d)) % 256}
          [] OTHER                         -> Garbage
  BY DEF Scanned
<1>2. \A h \in Hexes : HexValue(h) \in 0..15
  BY HexBytes
<1>3. Garbage \subseteq Byte
  BY GarbageAssumption
<1>4. \A a, b \in 0..15 : 16 * a + b \in Byte /\ a \in Byte
  BY DEF Byte
<1>5. \A a \in 0..15 : (256 - a) % 256 \in Byte
  BY DEF Byte
<1>6. Plus \notin Hexes /\ Minus \notin Hexes /\ Plus # Minus
  BY DEF Plus, Minus, Hexes, Digits
<1> HIDE DEF c, d
<1>7. CASE c \in Hexes /\ d \in Hexes
  <2>1. Scanned(t) = {16 * HexValue(c) + HexValue(d)}
    BY <1>1, <1>6, <1>7
  <2> QED BY <1>2, <1>4, <1>7, <2>1
<1>8. CASE c \in Hexes /\ d \notin Hexes
  <2>1. Scanned(t) = {HexValue(c)}
    BY <1>1, <1>6, <1>8
  <2> QED BY <1>2, <1>4, <1>8, <2>1
<1>9. CASE c = Plus /\ d \in Hexes
  <2>1. Scanned(t) = {HexValue(d)}
    BY <1>1, <1>6, <1>9
  <2> QED BY <1>2, <1>4, <1>9, <2>1
<1>10. CASE c = Minus /\ d \in Hexes
  <2>1. Scanned(t) = {(256 - HexValue(d)) % 256}
    BY <1>1, <1>6, <1>10
  <2> QED BY <1>2, <1>5, <1>10, <2>1
<1>11. CASE c \notin Hexes /\ ~(c = Plus /\ d \in Hexes) /\ ~(c = Minus /\ d \in Hexes)
  <2>1. Scanned(t) = Garbage
    BY <1>1, <1>11
  <2> QED BY <1>3, <2>1
<1> QED BY <1>7, <1>8, <1>9, <1>10, <1>11

\* Whatever a string is, decodeString makes a string of it.
THEOREM DecodedTyped ==
  ASSUME NEW s \in Seq(Byte)
  PROVE  DecodeString(s) \subseteq Seq(Byte)
<1>1. Len(s) \in Nat /\ DOMAIN s = 1..Len(s) /\ \A i \in 1..Len(s) : s[i] \in Byte
  BY LenProperties, ElementOfSeq
<1>2. PICK f : Decodes(s, f) /\ DecodeString(s) = f[1]
  BY <1>1, Decoding
<1> DEFINE D == Len(s) + 3
           T == {k \in Nat : k < D => f[D - k] \subseteq Seq(Byte)}
<1>3. ASSUME NEW n \in Nat, \A m \in Nat : m < n => m \in T PROVE n \in T
  <2> SUFFICES ASSUME n < D PROVE f[D - n] \subseteq Seq(Byte)
    OBVIOUS
  <2> DEFINE i == D - n
  <2>1. i \in 1..(Len(s) + 3) /\ f[i] = DecodedFrom(s, i, f)
    <3>1. i \in 1..(Len(s) + 3)
      BY <1>1
    <3> QED BY <1>2, <3>1, DecodesAt
  <2>2. CASE i > Len(s)
    <3>1. f[i] = {<<>>}
      <4> HIDE DEF i
      <4> QED BY <2>1, <2>2 DEF DecodedFrom
    <3> QED BY <3>1, EmptySeq
  <2>3. CASE ~(i > Len(s))
    <3>1. ASSUME NEW j \in {i + 1, i + 3} PROVE f[j] \subseteq Seq(Byte)
      <4>1. D - j \in Nat /\ D - j < n /\ D - j < D /\ D - (D - j) = j
        BY <1>1, <2>1, <2>3
      <4>2. D - j \in T
        <5> HIDE DEF T
        <5> QED BY <1>3, <4>1
      <4> HIDE DEF D, i
      <4>3. D - j < D => f[D - (D - j)] \subseteq Seq(Byte)
        BY <4>2
      <4> QED BY <4>1, <4>3
    <3>2. s[i] \in Byte /\ i \in 1..Len(s)
      BY <1>1, <2>1, <2>3
    <3>3. Scanned(SubSeq(s, i + 1, Len(s))) \subseteq Byte
      <4>1. SubSeq(s, i + 1, Len(s)) \in Seq(Byte)
        <5>1. \A j \in (i + 1)..Len(s) : s[j] \in Byte
          BY <1>1, <3>2
        <5>2. i + 1 \in Int /\ Len(s) \in Int
          BY <1>1, <3>2
        <5> HIDE DEF i
        <5> QED BY <5>1, <5>2, SubSeqProperties
      <4> QED BY <4>1, ScannedBytes
    <3>5. (IF s[i] = Plus THEN Space ELSE s[i]) \in Byte
      BY <3>2, HexBytes
    <3>6. f[i + 1] \subseteq Seq(Byte) /\ f[i + 3] \subseteq Seq(Byte)
      BY <3>1
    <3>7. CASE s[i] = Percent
      <4>1. f[i] = {Cons(b, rest) : b \in Scanned(SubSeq(s, i + 1, Len(s))), rest \in f[i + 3]}
        BY <2>1, <2>3, <3>7 DEF DecodedFrom
      <4> HIDE DEF i
      <4>2. ASSUME NEW z \in f[i] PROVE z \in Seq(Byte)
        <5>1. PICK b \in Scanned(SubSeq(s, i + 1, Len(s))), rest \in f[i + 3] : z = Cons(b, rest)
          BY <4>1
        <5>2. b \in Byte /\ rest \in Seq(Byte)
          BY <3>3, <3>6
        <5> QED BY <5>1, <5>2, ConsProperties
      <4> QED BY <4>2 DEF i
    <3>8. CASE s[i] # Percent
      <4>1. f[i] = {Cons(IF s[i] = Plus THEN Space ELSE s[i], rest) : rest \in f[i + 1]}
        BY <2>1, <2>3, <3>8 DEF DecodedFrom
      <4> HIDE DEF i
      <4>2. ASSUME NEW z \in f[i] PROVE z \in Seq(Byte)
        <5>1. PICK rest \in f[i + 1] : z = Cons(IF s[i] = Plus THEN Space ELSE s[i], rest)
          BY <4>1
        <5>2. rest \in Seq(Byte)
          BY <3>6
        <5> QED BY <3>5, <5>1, <5>2, ConsProperties
      <4> QED BY <4>2 DEF i
    <3> QED BY <3>7, <3>8
  <2> QED BY <2>2, <2>3
<1>4. D - 1 \in T /\ D - 1 \in Nat /\ D - 1 < D /\ D - (D - 1) = 1
  <2>1. D - 1 \in Nat /\ D - 1 < D /\ D - (D - 1) = 1
    BY <1>1
  <2> HIDE DEF T, D
  <2> QED BY <1>3, <2>1, Induction
<1> QED
  <2> HIDE DEF D
  <2> QED BY <1>2, <1>4

\* After p characters of s come those of code.
LiesAt(code, s, p) ==
  /\ p \in Nat /\ p + Len(code) <= Len(s)
  /\ \A j \in 1..Len(code) : s[p + j] = code[j]

\* What decodeString makes of the code of a character, and of what comes after it.
LEMMA ReadOneMore ==
  ASSUME NEW s \in Seq(Byte), NEW f, Decodes(s, f), NEW c \in Ascii, NEW p,
         LiesAt(EncodeChar(c), s, p)
  PROVE  f[p + 1] = {Cons(c, rest) : rest \in f[p + Len(EncodeChar(c)) + 1]}
<1> USE DEF LiesAt
<1> DEFINE e == EncodeChar(c)
<1>0. c \in Byte
  BY DEF Ascii, Byte
<1>1. Len(s) \in Nat /\ Len(e) \in Nat \ {0} /\ \A i \in 1..Len(s) : s[i] \in Byte
  BY <1>0, StringCode, LenProperties, ElementOfSeq
<1>2. s[p + 1] = e[1] /\ ~(p + 1 > Len(s))
  <2>1. 1 \in 1..Len(e)
    BY <1>1
  <2> HIDE DEF e
  <2>2. ~(p + 1 > Len(s))
    BY <1>1 DEF e
  <2> QED BY <2>1, <2>2 DEF e
<1>a. f[p + 1] = DecodedFrom(s, p + 1, f)
  <2>1. p + 1 \in 1..(Len(s) + 3)
    BY <1>1, <1>2
  <2> QED BY <2>1, DecodesAt
<1>3. CASE \E d \in Byte : /\ e = <<d>> /\ d # Percent
                           /\ c = IF d = Plus THEN Space ELSE d
  <2>1. PICK d \in Byte : e = <<d>> /\ d # Percent /\ c = IF d = Plus THEN Space ELSE d
    BY <1>3
  <2>2. Len(e) = 1 /\ e[1] = d
    <3> HIDE DEF e
    <3> QED BY <2>1
  <2>3. s[p + 1] = d /\ (p + 1) + 1 = p + Len(e) + 1
    BY <1>2, <2>2
  <2>4. f[p + 1] = {Cons(IF d = Plus THEN Space ELSE d, r) : r \in f[(p + 1) + 1]}
    BY <1>a, <1>2, <2>1, <2>3 DEF DecodedFrom
  <2> HIDE DEF e
  <2> QED BY <2>1, <2>3, <2>4 DEF e
<1>4. CASE e = Escape(c)
  <2>1. PICK a, b \in Hexes : Escape(c) = <<Percent, a, b>>
    BY <1>0, EscapeCode
  <2>2. Len(e) = 3 /\ e[1] = Percent /\ e[2] = Escape(c)[2] /\ e[3] = Escape(c)[3]
    <3> HIDE DEF e
    <3> QED BY <1>4, <2>1
  <2>3. s[p + 1] = Percent /\ s[p + 2] = e[2] /\ s[p + 3] = e[3] /\ p + 3 <= Len(s)
    <3>1. 2 \in 1..Len(e) /\ 3 \in 1..Len(e)
      BY <2>2
    <3> QED BY <1>2, <2>2, <3>1
  <2> DEFINE t == SubSeq(s, (p + 1) + 1, Len(s))
  <2>4. t \in Seq(Byte) /\ Len(t) >= 2 /\ t[1] = s[p + 2] /\ t[2] = s[p + 3]
    <3>1. (p + 1) + 1 \in Int /\ Len(s) \in Int /\ \A i \in ((p + 1) + 1)..Len(s) : s[i] \in Byte
      BY <1>1
    <3>2. /\ t \in Seq(Byte)
          /\ Len(t) = IF (p + 1) + 1 <= Len(s) THEN Len(s) - ((p + 1) + 1) + 1 ELSE 0
          /\ \A i \in 1..(Len(s) - ((p + 1) + 1) + 1) : t[i] = s[((p + 1) + 1) + i - 1]
      BY <3>1, SubSeqProperties
    <3> HIDE DEF t
    <3>3. 1 \in 1..(Len(s) - ((p + 1) + 1) + 1) /\ 2 \in 1..(Len(s) - ((p + 1) + 1) + 1)
      BY <1>1, <2>3
    <3>4. ((p + 1) + 1) + 1 - 1 = p + 2 /\ ((p + 1) + 1) + 2 - 1 = p + 3
      OBVIOUS
    <3>5. Len(t) >= 2
      BY <1>1, <2>3, <3>2
    <3> QED BY <3>2, <3>3, <3>4, <3>5
  <2>5. Scanned(t) = {c}
    <3>1. t[1] = Escape(c)[2] /\ t[2] = Escape(c)[3]
      BY <2>2, <2>3, <2>4
    <3> HIDE DEF t
    <3> QED BY <2>4, <3>1, EscapesReadBack
  <2>6. f[p + 1] = {Cons(b1, r) : b1 \in Scanned(t), r \in f[(p + 1) + 3]}
    BY <1>a, <1>2, <2>3 DEF DecodedFrom
  <2>7. (p + 1) + 3 = p + Len(e) + 1
    BY <2>2
  <2> HIDE DEF t, e
  <2>8. f[p + 1] = {Cons(b1, r) : b1 \in {c}, r \in f[p + Len(e) + 1]}
    BY <2>5, <2>6, <2>7
  <2> QED BY <2>8 DEF e
<1> QED BY <1>0, <1>3, <1>4, StringCode

\* "Dencode the input string from an XML encoded string back to it's original form"
\* (Encoder.h): for a string in ASCII, decodeString does, and can do nothing else.
THEOREM AsciiReadBack ==
  ASSUME NEW s \in Seq(Ascii)
  PROVE  DecodeString(EncodeString(s)) = {s}
<1> DEFINE E == EncodeString(s)
           N == Len(s)
<1>1. s \in Seq(Byte) /\ N \in Nat /\ \A i \in 1..N : s[i] \in Ascii
  <2>1. Ascii \subseteq Byte
    BY DEF Ascii, Byte
  <2> QED BY <2>1, SeqMonotonic, LenProperties, ElementOfSeq
<1>2. PICK codes, pos :
        /\ codes \in Seq(Seq(Byte)) /\ Len(codes) = Len(s)
        /\ \A i \in 1..Len(s) : s[i] \in Byte /\ codes[i] = EncodeChar(s[i])
        /\ Placed(Byte, codes, Len(s), pos, E)
  BY <1>1, StringPieces
<1>3. E \in Seq(Byte) /\ Len(E) \in Nat
  BY <1>2, LenProperties DEF Placed
<1>4. PICK f : Decodes(E, f) /\ DecodeString(E) = f[1]
  BY <1>3, Decoding
<1> HIDE DEF E, N
<1> DEFINE T == {k \in Nat : k <= N => f[pos[N - k] + 1] = {SubSeq(s, N - k + 1, N)}}
<1>5. ASSUME NEW n \in Nat, \A m \in Nat : m < n => m \in T PROVE n \in T
  <2> SUFFICES ASSUME n <= N PROVE f[pos[N - n] + 1] = {SubSeq(s, N - n + 1, N)}
    OBVIOUS
  <2>1. CASE n = 0
    <3>1. pos[N - n] = Len(E) /\ N - n + 1 = N + 1
      BY <1>1, <1>2, <2>1 DEF Placed, N
    <3>2. f[Len(E) + 1] = {<<>>}
      <4>1. Len(E) + 1 \in 1..(Len(E) + 3) /\ Len(E) + 1 > Len(E)
        BY <1>3
      <4>2. f[Len(E) + 1] = DecodedFrom(E, Len(E) + 1, f)
        BY <1>4, <4>1, DecodesAt
      <4> QED BY <4>1, <4>2 DEF DecodedFrom
    <3>3. SubSeq(s, N + 1, N) = <<>>
      BY <1>1, SubSeqEmpty
    <3> QED BY <3>1, <3>2, <3>3
  <2>2. CASE n # 0
    <3> DEFINE q == N - n + 1
               p == pos[q - 1]
    <3>1. q \in 1..N /\ q - 1 = N - n /\ n - 1 \in Nat /\ n - 1 < n /\ n - 1 <= N
          /\ N - (n - 1) = q /\ q - 1 \in 0..N
      BY <1>1, <2>2
    <3>2. f[pos[q] + 1] = {SubSeq(s, q + 1, N)}
      <4>1. n - 1 \in T
        <5> HIDE DEF T
        <5> QED BY <1>5, <3>1
      <4>2. f[pos[N - (n - 1)] + 1] = {SubSeq(s, N - (n - 1) + 1, N)}
        BY <3>1, <4>1
      <4> HIDE DEF q
      <4> QED BY <3>1, <4>2
    <3> HIDE DEF q
    <3>3. s[q] \in Ascii /\ codes[q] = EncodeChar(s[q])
      BY <1>1, <1>2, <3>1 DEF N
    <3>4. /\ p \in Nat /\ pos[q] = p + Len(EncodeChar(s[q])) /\ pos[q] <= Len(E)
          /\ \A j \in 1..Len(EncodeChar(s[q])) : E[p + j] = EncodeChar(s[q])[j]
      <4>1. /\ pos[q] = pos[q - 1] + Len(codes[q]) /\ pos[q] <= Len(E)
            /\ \A j \in 1..Len(codes[q]) : E[pos[q - 1] + j] = codes[q][j]
        BY <1>2, <3>1 DEF Placed, N
      <4>2. pos[q - 1] \in Nat
        BY <1>2, <3>1 DEF Placed, N
      <4> QED BY <3>3, <4>1, <4>2
    <3> HIDE DEF p
    <3>5. f[p + 1] = {Cons(s[q], rest) : rest \in f[p + Len(EncodeChar(s[q])) + 1]}
      <4>1. LiesAt(EncodeChar(s[q]), E, p)
        BY <3>4 DEF LiesAt
      <4> QED BY <1>3, <1>4, <3>3, <4>1, ReadOneMore
    <3>6. f[p + 1] = {Cons(s[q], SubSeq(s, q + 1, N))}
      <4>1. f[p + Len(EncodeChar(s[q])) + 1] = {SubSeq(s, q + 1, N)}
        BY <3>2, <3>4
      <4> QED BY <3>5, <4>1
    <3>7. SubSeq(s, q, N) = Cons(s[q], SubSeq(s, q + 1, N))
      <4>1. q \in 1..Len(s) /\ N \in q..Len(s)
        BY <1>1, <3>1 DEF N
      <4> QED BY <1>1, <4>1, SubSeqRecursiveFirst DEF Cons
    <3> QED BY <3>6, <3>7, <3>1 DEF p, q
  <2> QED BY <2>1, <2>2
<1>6. N \in T
  <2> HIDE DEF T
  <2> QED BY <1>1, <1>5, Induction
<1>7. f[pos[0] + 1] = {SubSeq(s, 1, N)}
  <2>1. f[pos[N - N] + 1] = {SubSeq(s, N - N + 1, N)}
    BY <1>1, <1>6
  <2>2. N - N = 0 /\ N - N + 1 = 1
    BY <1>1
  <2> HIDE DEF T
  <2> QED BY <2>1, <2>2
<1>8. pos[0] + 1 = 1
  BY <1>2 DEF Placed
<1>9. SubSeq(s, 1, N) = s
  BY <1>1, SubSeqFull DEF N
<1> QED BY <1>4, <1>7, <1>8, <1>9 DEF E

-----------------------------------------------------------------------------
(* Urls.                                                                   *)

LEMMA UrlCodeLength ==
  ASSUME NEW c \in Byte
  PROVE  Len(EncodeUrlChar(c)) \in Nat \ {0}
<1>1. PICK a, b \in Hexes : Escape(c) = <<Percent, a, b>>
  BY EscapeCode
<1>2. Len(<<Percent, a, b>>) = 3 /\ Len(<<c>>) = 1
  OBVIOUS
<1> QED BY <1>1, <1>2, UrlCode

\* What the server makes of the code of a character, and of what comes after it.
LEMMA ServeOneMore ==
  ASSUME NEW s \in Seq(Byte), NEW f, Serves(s, f), NEW c \in Ascii \ {Question}, NEW p,
         LiesAt(EncodeUrlChar(c), s, p)
  PROVE  f[p + 1] = Cons(c, f[p + Len(EncodeUrlChar(c)) + 1])
<1> USE DEF LiesAt
<1> DEFINE e == EncodeUrlChar(c)
<1>1. c \in Byte /\ Percent # Question /\ c # Question
  BY DEF Ascii, Byte, Percent, Question
<1>2. Len(s) \in Nat /\ Len(e) \in Nat \ {0} /\ p \in Nat
  BY <1>1, UrlCodeLength, LenProperties
<1>3. s[p + 1] = e[1] /\ p + 1 \in 1..(Len(s) + 3) /\ ~(p + 1 > Len(s))
  <2>1. 1 \in 1..Len(e)
    BY <1>2
  <2>2. p + Len(e) <= Len(s)
    OBVIOUS
  <2>3. s[p + 1] = e[1]
    BY <2>1
  <2> HIDE DEF e
  <2>4. p + 1 \in 1..(Len(s) + 3) /\ ~(p + 1 > Len(s))
    BY <1>2, <2>2
  <2> QED BY <2>3, <2>4 DEF e
<1>4. f[p + 1] = ServedFrom(s, p + 1, f)
  BY <1>3, ServesAt
<1>5. CASE e = <<c>> /\ c # Percent
  <2>1. Len(e) = 1 /\ e[1] = c
    <3> HIDE DEF e
    <3> QED BY <1>5
  <2>2. s[p + 1] = c /\ (p + 1) + 1 = p + Len(e) + 1
    BY <1>3, <2>1
  <2>3. f[p + 1] = Cons(c, f[(p + 1) + 1])
    BY <1>1, <1>3, <1>4, <1>5, <2>2 DEF ServedFrom
  <2> HIDE DEF e
  <2> QED BY <2>2, <2>3 DEF e
<1>6. CASE e = Escape(c)
  <2>1. PICK a, b \in Hexes : /\ Escape(c) = <<Percent, a, b>>
                              /\ 16 * HexValue(a) + HexValue(b) = c
    BY <1>1, EscapeCode
  <2>2. Len(e) = 3 /\ e[1] = Percent /\ e[2] = a /\ e[3] = b
    <3> HIDE DEF e
    <3> QED BY <1>6, <2>1
  <2>3. s[p + 1] = Percent /\ s[(p + 1) + 1] = a /\ s[(p + 1) + 2] = b
    <3>1. 2 \in 1..Len(e) /\ 3 \in 1..Len(e)
      BY <2>2
    <3>2. s[p + 2] = e[2] /\ s[p + 3] = e[3]
      BY <3>1
    <3>3. (p + 1) + 1 = p + 2 /\ (p + 1) + 2 = p + 3
      BY <1>2
    <3> HIDE DEF e
    <3> QED BY <1>3, <2>2, <3>2, <3>3
  <2>4. f[p + 1] = Cons(16 * HexValue(a) + HexValue(b), f[(p + 1) + 3])
    BY <1>1, <1>3, <1>4, <2>3 DEF ServedFrom
  <2>5. (p + 1) + 3 = p + Len(e) + 1
    BY <1>2, <2>2
  <2> HIDE DEF e
  <2> QED BY <2>1, <2>4, <2>5 DEF e
<1> QED BY <1>1, <1>5, <1>6, UrlCode

\* A web server finds the file of a name in ASCII, without a question mark, under the
\* url that encodeURL makes of it.
THEOREM AsciiServed ==
  ASSUME NEW s \in Seq(Ascii \ {Question})
  PROVE  ServerDecodes(EncodeURL(s)) = s
<1> DEFINE E == EncodeURL(s)
           N == Len(s)
<1>1. s \in Seq(Byte) /\ N \in Nat /\ \A i \in 1..N : s[i] \in Ascii \ {Question}
  <2>1. Ascii \ {Question} \subseteq Byte
    BY DEF Ascii, Byte
  <2> QED BY <2>1, SeqMonotonic, LenProperties, ElementOfSeq
<1>2. PICK codes, pos :
        /\ codes \in Seq(Seq(Byte)) /\ Len(codes) = Len(s)
        /\ \A i \in 1..Len(s) : s[i] \in Byte /\ codes[i] = EncodeUrlChar(s[i])
        /\ Placed(Byte, codes, Len(s), pos, E)
  BY <1>1, UrlPieces
<1>3. E \in Seq(Byte) /\ Len(E) \in Nat
  BY <1>2, LenProperties DEF Placed
<1>4. PICK f : Serves(E, f) /\ ServerDecodes(E) = f[1]
  BY <1>3, Serving
<1> HIDE DEF E, N
<1> DEFINE T == {k \in Nat : k <= N => f[pos[N - k] + 1] = SubSeq(s, N - k + 1, N)}
<1>5. ASSUME NEW n \in Nat, \A m \in Nat : m < n => m \in T PROVE n \in T
  <2> SUFFICES ASSUME n <= N PROVE f[pos[N - n] + 1] = SubSeq(s, N - n + 1, N)
    OBVIOUS
  <2>1. CASE n = 0
    <3>1. pos[N - n] = Len(E) /\ N - n + 1 = N + 1
      BY <1>1, <1>2, <2>1 DEF Placed, N
    <3>2. f[Len(E) + 1] = <<>>
      <4>1. Len(E) + 1 \in 1..(Len(E) + 3) /\ Len(E) + 1 > Len(E)
        BY <1>3
      <4>2. f[Len(E) + 1] = ServedFrom(E, Len(E) + 1, f)
        BY <1>4, <4>1, ServesAt
      <4> QED BY <4>1, <4>2 DEF ServedFrom
    <3>3. SubSeq(s, N + 1, N) = <<>>
      BY <1>1, SubSeqEmpty
    <3> QED BY <3>1, <3>2, <3>3
  <2>2. CASE n # 0
    <3> DEFINE q == N - n + 1
               p == pos[q - 1]
    <3>1. q \in 1..N /\ q - 1 = N - n /\ n - 1 \in Nat /\ n - 1 < n /\ n - 1 <= N
          /\ N - (n - 1) = q /\ q - 1 \in 0..N
      BY <1>1, <2>2
    <3>2. f[pos[q] + 1] = SubSeq(s, q + 1, N)
      <4>1. n - 1 \in T
        <5> HIDE DEF T
        <5> QED BY <1>5, <3>1
      <4>2. f[pos[N - (n - 1)] + 1] = SubSeq(s, N - (n - 1) + 1, N)
        BY <3>1, <4>1
      <4> HIDE DEF q
      <4> QED BY <3>1, <4>2
    <3> HIDE DEF q
    <3>3. s[q] \in Ascii \ {Question} /\ codes[q] = EncodeUrlChar(s[q])
      BY <1>1, <1>2, <3>1 DEF N
    <3>4. /\ p \in Nat /\ pos[q] = p + Len(EncodeUrlChar(s[q]))
          /\ LiesAt(EncodeUrlChar(s[q]), E, p)
      <4>1. /\ pos[q] = pos[q - 1] + Len(codes[q]) /\ pos[q] <= Len(E)
            /\ \A j \in 1..Len(codes[q]) : E[pos[q - 1] + j] = codes[q][j]
        BY <1>2, <3>1 DEF Placed, N
      <4>2. pos[q - 1] \in Nat
        BY <1>2, <3>1 DEF Placed, N
      <4> QED BY <3>3, <4>1, <4>2 DEF LiesAt
    <3> HIDE DEF p
    <3>5. f[p + 1] = Cons(s[q], f[p + Len(EncodeUrlChar(s[q])) + 1])
      BY <1>3, <1>4, <3>3, <3>4, ServeOneMore
    <3>6. f[p + 1] = Cons(s[q], SubSeq(s, q + 1, N))
      BY <3>2, <3>4, <3>5
    <3>7. SubSeq(s, q, N) = Cons(s[q], SubSeq(s, q + 1, N))
      <4>1. q \in 1..Len(s) /\ N \in q..Len(s)
        BY <1>1, <3>1 DEF N
      <4> QED BY <1>1, <4>1, SubSeqRecursiveFirst DEF Cons
    <3> QED BY <3>6, <3>7, <3>1 DEF p, q
  <2> QED BY <2>1, <2>2
<1>6. N \in T
  <2> HIDE DEF T
  <2> QED BY <1>1, <1>5, Induction
<1>7. f[pos[0] + 1] = SubSeq(s, 1, N)
  <2>1. f[pos[N - N] + 1] = SubSeq(s, N - N + 1, N)
    BY <1>1, <1>6
  <2>2. N - N = 0 /\ N - N + 1 = 1
    BY <1>1
  <2> HIDE DEF T
  <2> QED BY <2>1, <2>2
<1>8. pos[0] + 1 = 1
  BY <1>2 DEF Placed
<1>9. SubSeq(s, 1, N) = s
  BY <1>1, SubSeqFull DEF N
<1> QED BY <1>4, <1>7, <1>8, <1>9 DEF E

\* A code that lies at a place of a url tells its character, if that is in ASCII.
LEMMA CodesApart ==
  ASSUME NEW c \in Ascii, NEW d \in Byte, NEW s, NEW p,
         LiesAt(EncodeUrlChar(c), s, p), LiesAt(EncodeUrlChar(d), s, p)
  PROVE  c = d
<1>1. c \in Byte
  BY DEF Ascii, Byte
<1>2. \A x \in Byte : LiesAt(EncodeUrlChar(x), s, p) =>
        \/ s[p + 1] = x /\ x # Percent /\ x \in Ascii
        \/ s[p + 1] = Percent /\ LiesAt(Escape(x), s, p)
  <2> SUFFICES ASSUME NEW x \in Byte, LiesAt(EncodeUrlChar(x), s, p)
               PROVE  \/ s[p + 1] = x /\ x # Percent /\ x \in Ascii
                      \/ s[p + 1] = Percent /\ LiesAt(Escape(x), s, p)
    OBVIOUS
  <2>1. CASE EncodeUrlChar(x) = Escape(x)
    <3>1. PICK a, b \in Hexes : Escape(x) = <<Percent, a, b>>
      BY EscapeCode
    <3>2. 1 \in 1..Len(Escape(x)) /\ Escape(x)[1] = Percent
      BY <3>1
    <3> QED BY <2>1, <3>2 DEF LiesAt
  <2>2. CASE EncodeUrlChar(x) = <<x>> /\ x # Percent /\ x \in Ascii
    <3>1. 1 \in 1..Len(<<x>>) /\ <<x>>[1] = x
      OBVIOUS
    <3> QED BY <2>2, <3>1 DEF LiesAt
  <2> QED BY <2>1, <2>2, UrlCode
<1>3. CASE s[p + 1] # Percent
  BY <1>1, <1>2, <1>3
<1>4. CASE s[p + 1] = Percent
  <2>1. LiesAt(Escape(c), s, p) /\ LiesAt(Escape(d), s, p)
    BY <1>1, <1>2, <1>4
  <2>2. PICK a, b \in Hexes : Escape(c) = <<Percent, a, b>> /\ 16 * HexValue(a) + HexValue(b) = c
    BY <1>1, EscapeCode
  <2>3. PICK x, y \in Hexes :
          /\ Escape(d) = <<Percent, x, y>>
          /\ d \in Ascii => 16 * HexValue(x) + HexValue(y) = d
          /\ d \notin Ascii => 16 * HexValue(x) + HexValue(y) = 255
    BY EscapeCode
  <2>4. s[p + 2] = a /\ s[p + 3] = b
    <3>1. Len(Escape(c)) = 3 /\ Escape(c)[2] = a /\ Escape(c)[3] = b
      BY <2>2
    <3> QED BY <2>1, <3>1 DEF LiesAt
  <2>5. s[p + 2] = x /\ s[p + 3] = y
    <3>1. Len(Escape(d)) = 3 /\ Escape(d)[2] = x /\ Escape(d)[3] = y
      BY <2>3
    <3> QED BY <2>1, <3>1 DEF LiesAt
  <2>6. c # 255
    BY DEF Ascii
  <2> QED BY <2>2, <2>3, <2>4, <2>5, <2>6
<1> QED BY <1>3, <1>4

\* A name in ASCII has a url of its own, which is that of no other name, in ASCII or not.
THEOREM UrlsDiffer ==
  ASSUME NEW x \in Seq(Ascii), NEW y \in Seq(Byte), EncodeURL(x) = EncodeURL(y)
  PROVE  x = y
<1> DEFINE E == EncodeURL(x)
<1>1. /\ x \in Seq(Byte) /\ Len(x) \in Nat /\ \A i \in 1..Len(x) : x[i] \in Ascii
      /\ Len(y) \in Nat /\ \A i \in 1..Len(y) : y[i] \in Byte
  <2>1. Ascii \subseteq Byte
    BY DEF Ascii, Byte
  <2> QED BY <2>1, SeqMonotonic, LenProperties, ElementOfSeq
<1>2. PICK xc, xp :
        /\ xc \in Seq(Seq(Byte)) /\ Len(xc) = Len(x)
        /\ \A i \in 1..Len(x) : x[i] \in Byte /\ xc[i] = EncodeUrlChar(x[i])
        /\ Placed(Byte, xc, Len(x), xp, E)
  BY <1>1, UrlPieces
<1>3. PICK yc, yp :
        /\ yc \in Seq(Seq(Byte)) /\ Len(yc) = Len(y)
        /\ \A i \in 1..Len(y) : y[i] \in Byte /\ yc[i] = EncodeUrlChar(y[i])
        /\ Placed(Byte, yc, Len(y), yp, E)
  BY UrlPieces
<1> HIDE DEF E
<1>4. ASSUME NEW k \in 1..Len(x)
      PROVE  /\ xp[k - 1] \in Nat /\ xp[k] = xp[k - 1] + Len(EncodeUrlChar(x[k]))
             /\ xp[k] <= Len(E) /\ LiesAt(EncodeUrlChar(x[k]), E, xp[k - 1])
  <2>1. k - 1 \in 0..Len(x)
    BY <1>1
  <2> QED BY <1>2, <2>1 DEF Placed, LiesAt
<1>5. ASSUME NEW k \in 1..Len(y)
      PROVE  /\ yp[k - 1] \in Nat /\ yp[k] = yp[k - 1] + Len(EncodeUrlChar(y[k]))
             /\ yp[k] <= Len(E) /\ LiesAt(EncodeUrlChar(y[k]), E, yp[k - 1])
  <2>1. k - 1 \in 0..Len(y)
    BY <1>1
  <2> QED BY <1>3, <2>1 DEF Placed, LiesAt
<1> DEFINE T == {k \in Nat : k <= Len(x) /\ k <= Len(y) =>
                   xp[k] = yp[k] /\ (k > 0 => x[k] = y[k])}
<1>6. ASSUME NEW n \in Nat, \A m \in Nat : m < n => m \in T PROVE n \in T
  <2>1. CASE n = 0
    BY <1>2, <1>3, <2>1 DEF Placed
  <2>2. CASE n # 0
    <3> SUFFICES ASSUME n <= Len(x) /\ n <= Len(y) PROVE xp[n] = yp[n] /\ x[n] = y[n]
      OBVIOUS
    <3>1. n \in 1..Len(x) /\ n \in 1..Len(y) /\ n - 1 \in Nat /\ n - 1 < n
      BY <1>1, <2>2
    <3>2. xp[n - 1] = yp[n - 1]
      <4>1. n - 1 \in T
        <5> HIDE DEF T
        <5> QED BY <1>6, <3>1
      <4>2. n - 1 <= Len(x) /\ n - 1 <= Len(y)
        BY <1>1, <3>1
      <4> QED BY <4>1, <4>2
    <3>3. x[n] \in Ascii /\ y[n] \in Byte
      BY <1>1, <3>1
    <3>4. LiesAt(EncodeUrlChar(x[n]), E, xp[n - 1]) /\ LiesAt(EncodeUrlChar(y[n]), E, xp[n - 1])
      BY <1>4, <1>5, <3>1, <3>2
    <3>5. x[n] = y[n]
      BY <3>3, <3>4, CodesApart
    <3> QED BY <1>4, <1>5, <3>1, <3>2, <3>5
  <2> QED BY <2>1, <2>2
<1>7. \A k \in Nat : k <= Len(x) /\ k <= Len(y) => xp[k] = yp[k] /\ (k > 0 => x[k] = y[k])
  <2>1. \A k \in Nat : k \in T
    <3> HIDE DEF T
    <3> QED BY <1>6, Induction
  <2> QED BY <2>1
<1>8. xp[Len(x)] = Len(E) /\ yp[Len(y)] = Len(E)
  BY <1>2, <1>3 DEF Placed
<1>9. ~(Len(x) < Len(y))
  <2> SUFFICES ASSUME Len(x) < Len(y) PROVE FALSE
    OBVIOUS
  <2>1. yp[Len(x)] = Len(E)
    BY <1>1, <1>7, <1>8
  <2> DEFINE k == Len(x) + 1
  <2>2. k \in 1..Len(y) /\ k - 1 = Len(x)
    BY <1>1
  <2> HIDE DEF k
  <2>3. yp[k] = yp[Len(x)] + Len(EncodeUrlChar(y[k])) /\ yp[k] <= Len(E) /\ yp[Len(x)] \in Nat
    BY <1>5, <2>2
  <2>4. Len(EncodeUrlChar(y[k])) \in Nat \ {0}
    BY <1>1, <2>2, UrlCodeLength
  <2> QED BY <2>1, <2>3, <2>4
<1>10. ~(Len(y) < Len(x))
  <2> SUFFICES ASSUME Len(y) < Len(x) PROVE FALSE
    OBVIOUS
  <2>1. xp[Len(y)] = Len(E)
    BY <1>1, <1>7, <1>8
  <2> DEFINE k == Len(y) + 1
  <2>2. k \in 1..Len(x) /\ k - 1 = Len(y)
    BY <1>1
  <2> HIDE DEF k
  <2>3. xp[k] = xp[Len(y)] + Len(EncodeUrlChar(x[k])) /\ xp[k] <= Len(E) /\ xp[Len(y)] \in Nat
    BY <1>4, <2>2
  <2>4. Len(EncodeUrlChar(x[k])) \in Nat \ {0}
    BY <1>2, <2>2, UrlCodeLength
  <2> QED BY <2>1, <2>3, <2>4
<1>11. Len(x) = Len(y)
  BY <1>1, <1>9, <1>10
<1>12. \A i \in 1..Len(x) : x[i] = y[i]
  BY <1>1, <1>7, <1>11
<1> QED BY <1>1, <1>11, <1>12, SeqEqual

\* A url without a percent sign is the name it was made of.
THEOREM UnescapedUrl ==
  ASSUME NEW x \in Seq(Byte), Percent \notin ToSet(EncodeURL(x))
  PROVE  EncodeURL(x) = x
<1> DEFINE E == EncodeURL(x)
<1>1. PICK codes, pos :
        /\ codes \in Seq(Seq(Byte)) /\ Len(codes) = Len(x)
        /\ \A i \in 1..Len(x) : x[i] \in Byte /\ codes[i] = EncodeUrlChar(x[i])
        /\ Placed(Byte, codes, Len(x), pos, E)
  BY UrlPieces
<1>2. E \in Seq(Byte) /\ Len(E) \in Nat /\ DOMAIN E = 1..Len(E) /\ Len(x) \in Nat
  BY <1>1, LenProperties DEF Placed
<1>3. \A i \in 1..Len(E) : E[i] # Percent
  BY <1>2 DEF ToSet
<1> HIDE DEF E
<1>4. ASSUME NEW k \in 1..Len(x)
      PROVE  pos[k] = pos[k - 1] + 1 /\ E[pos[k]] = x[k]
  <2> DEFINE e == EncodeUrlChar(x[k])
             p == pos[k - 1]
  <2>1. k - 1 \in 0..Len(x) /\ x[k] \in Byte /\ codes[k] = e
    BY <1>1, <1>2
  <2>2. p \in Nat /\ pos[k] = p + Len(e) /\ pos[k] <= Len(E) /\ \A j \in 1..Len(e) : E[p + j] = e[j]
    BY <1>1, <2>1 DEF Placed
  <2>3. CASE e = <<x[k]>>
    <3>1. Len(e) = 1 /\ e[1] = x[k]
      <4> HIDE DEF e
      <4> QED BY <2>3
    <3> QED BY <2>2, <3>1
  <2>4. CASE e = Escape(x[k])
    <3>1. PICK a, b \in Hexes : Escape(x[k]) = <<Percent, a, b>>
      BY <2>1, EscapeCode
    <3>2. Len(e) = 3 /\ e[1] = Percent
      <4> HIDE DEF e
      <4> QED BY <2>4, <3>1
    <3>3. E[p + 1] = Percent /\ p + 1 \in 1..Len(E)
      <4> HIDE DEF e, p
      <4> QED BY <1>2, <2>2, <3>2
    <3> QED BY <1>3, <3>3
  <2> QED BY <2>1, <2>3, <2>4, UrlCode
<1> DEFINE T == {k \in Nat : k <= Len(x) => pos[k] = k}
<1>5. ASSUME NEW n \in Nat, \A m \in Nat : m < n => m \in T PROVE n \in T
  <2>1. CASE n = 0
    BY <1>1, <2>1 DEF Placed
  <2>2. CASE n # 0
    <3> SUFFICES ASSUME n <= Len(x) PROVE pos[n] = n
      OBVIOUS
    <3>1. n \in 1..Len(x) /\ n - 1 \in Nat /\ n - 1 < n /\ n - 1 <= Len(x)
      BY <1>2, <2>2
    <3>2. n - 1 \in T
      <4> HIDE DEF T
      <4> QED BY <1>5, <3>1
    <3> QED BY <1>4, <3>1, <3>2
  <2> QED BY <2>1, <2>2
<1>6. \A k \in Nat : k <= Len(x) => pos[k] = k
  <2>1. \A k \in Nat : k \in T
    <3> HIDE DEF T
    <3> QED BY <1>5, Induction
  <2> QED BY <2>1
<1>7. Len(E) = Len(x)
  <2>1. pos[Len(x)] = Len(E)
    BY <1>1 DEF Placed
  <2>2. pos[Len(x)] = Len(x)
    BY <1>2, <1>6
  <2> QED BY <2>1, <2>2
<1>8. \A i \in 1..Len(x) : E[i] = x[i]
  BY <1>2, <1>4, <1>6
<1> QED BY <1>2, <1>7, <1>8, SeqEqual DEF E
====
