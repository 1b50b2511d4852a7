------------------------- MODULE ChannelFormatProofs -------------------------
(***************************************************************************)
(* For all texts: what parseMirrors and parseChannels add to a list, and   *)
(* that a list of channels that was parsed and written is parsed again to  *)
(* the same list, but for the names.                                       *)
(***************************************************************************)
EXTENDS ChannelFormat, EncoderProofs

-----------------------------------------------------------------------------
(* What is read.                                                           *)

\* What the parsers make of an entry: a text that reads as itself in every field but
\* the name.
Clean == {c \in ChannelObject : \A f \in Fields \ {"name"} : Value(c[f]) = c[f]}

LEMMA ValueIsText ==
  ASSUME NEW t \in Text \cup {NoText}
  PROVE  Value(t) \in Text /\ Value(Value(t)) = Value(t)
  BY TextAssumption DEF Value

LEMMA ParseMirrorType ==
  ASSUME NEW e \in Entry
  PROVE  ParseMirror(e) \in MirrorObject
<1>1. e.children["name"] \in Text \cup {NoText} /\ e.children["url"] \in Text \cup {NoText}
  BY DEF Entry, Fields
<1> QED
  BY <1>1, ValueIsText DEF ParseMirror, MirrorObject

LEMMA ParseChannelClean ==
  ASSUME NEW e \in Entry
  PROVE  ParseChannel(e) \in Clean
<1>1. \A f \in Fields : e.children[f] \in Text \cup {NoText}
  BY DEF Entry
<1>2. \A f \in Fields : Value(e.children[f]) \in Text
  BY <1>1, ValueIsText
<1>3. \A f \in Fields : Value(Value(e.children[f])) = Value(e.children[f])
  BY <1>1, ValueIsText
<1>4. (IF e.name = NoText THEN "" ELSE e.name) \in Text
  BY TextAssumption DEF Entry
<1>5. ParseChannel(e) \in ChannelObject
  BY <1>2, <1>4 DEF ParseChannel, ChannelObject
<1>6. \A f \in Fields \ {"name"} : ParseChannel(e)[f] = Value(e.children[f])
  BY DEF ParseChannel
<1> QED
  BY <1>3, <1>5, <1>6 DEF Clean

\* Items are the elements after the first p, and every element with the tag is one of them.
LEMMA ItemsHave ==
  ASSUME NEW S, NEW s \in Seq(S), NEW tag
  PROVE  \E p \in Nat :
           /\ \A i \in 1..Len(Items(s, tag)) : p + i \in 1..Len(s) /\ Items(s, tag)[i] = s[p + i]
           /\ \A j \in 1..Len(s) : s[j].tag = tag => j - p \in 1..Len(Items(s, tag))
<1> DEFINE I == {i \in 1..Len(s) : s[i].tag = tag}
           first == SelectInSeq(s, LAMBDA e : e.tag = tag)
<1>1. first = IF I # {} THEN Min(I) ELSE 0
  BY DEF SelectInSeq
<1>2. I \subseteq Nat /\ I \subseteq 1..Len(s) /\ Len(s) \in Nat
  OBVIOUS
<1>3. CASE I = {}
  <2>1. Items(s, tag) = <<>>
    BY <1>1, <1>3 DEF Items
  <2>2. \A i \in 1..Len(Items(s, tag)) : FALSE
    BY <2>1
  <2>3. \A j \in 1..Len(s) : s[j].tag # tag
    BY <1>3
  <2> HIDE DEF I, first
  <2> QED
    BY <2>2, <2>3
<1>4. CASE I # {}
  <2>1. first \in I /\ \A i \in I : first <= i
    BY <1>1, <1>2, <1>4, FirstIsInside
  <2>2. Items(s, tag) = IF first = 0 THEN <<>> ELSE SubSeq(s, first, Len(s))
    BY DEF Items
  <2>3. first \in 1..Len(s)
    BY <2>1, <1>2
  <2>4. \A j \in 1..Len(s) : s[j].tag = tag => first <= j
    BY <2>1
  <2> HIDE DEF first, I
  <2>5. Items(s, tag) = SubSeq(s, first, Len(s))
    BY <2>2, <2>3
  <2>6. \A i \in first..Len(s) : s[i] \in S
    BY <2>3
  <2>7. /\ Len(SubSeq(s, first, Len(s))) = Len(s) - first + 1
        /\ \A i \in 1..(Len(s) - first + 1) : SubSeq(s, first, Len(s))[i] = s[first + i - 1]
    BY <1>2, <2>3, <2>6, SubSeqProperties
  <2> DEFINE p == first - 1
  <2>8. p \in Nat /\ Len(Items(s, tag)) = Len(s) - p
    BY <1>2, <2>3, <2>5, <2>7
  <2>9. ASSUME NEW i \in 1..Len(Items(s, tag))
        PROVE  p + i \in 1..Len(s) /\ Items(s, tag)[i] = s[p + i]
    <3>1. i \in 1..(Len(s) - first + 1) /\ p + i = first + i - 1
      BY <2>3, <2>8
    <3> QED
      BY <1>2, <2>3, <2>5, <2>7, <3>1
  <2>10. ASSUME NEW j \in 1..Len(s), s[j].tag = tag PROVE j - p \in 1..Len(Items(s, tag))
    <3>1. first <= j
      BY <2>4, <2>10
    <3> QED
      BY <1>2, <2>3, <2>8, <3>1
  <2> HIDE DEF p
  <2> QED
    BY <2>8, <2>9, <2>10
<1> QED
  BY <1>3, <1>4

\* What is appended to a list follows it.
LEMMA Appended ==
  ASSUME NEW S, NEW l \in Seq(S), NEW r \in Seq(S)
  PROVE  /\ l \o r \in Seq(S) /\ IsPrefix(l, l \o r)
         /\ \A i \in 1..Len(r) : /\ Len(l) + i \in DOMAIN (l \o r) /\ Len(l) + i > Len(l)
                                 /\ (l \o r)[Len(l) + i] = r[i]
<1> DEFINE c == l \o r
<1>1. Len(l) \in Nat /\ Len(r) \in Nat
  OBVIOUS
<1>2. /\ c \in Seq(S) /\ Len(c) = Len(l) + Len(r)
      /\ \A i \in 1..(Len(l) + Len(r)) : c[i] = IF i <= Len(l) THEN l[i] ELSE r[i - Len(l)]
  BY ConcatProperties
<1>3. DOMAIN c = 1..(Len(l) + Len(r))
  BY <1>2
<1> HIDE DEF c
<1>4. \A i \in 1..Len(l) : c[i] \in S /\ c[i] = l[i]
  BY <1>1, <1>2
<1>5. /\ SubSeq(c, 1, Len(l)) \in Seq(S)
      /\ Len(SubSeq(c, 1, Len(l))) = Len(l)
      /\ \A i \in 1..Len(l) : SubSeq(c, 1, Len(l))[i] = c[i]
  <2>1. /\ SubSeq(c, 1, Len(l)) \in Seq(S)
        /\ Len(SubSeq(c, 1, Len(l))) = IF 1 <= Len(l) THEN Len(l) - 1 + 1 ELSE 0
        /\ \A i \in 1..(Len(l) - 1 + 1) : SubSeq(c, 1, Len(l))[i] = c[1 + i - 1]
    BY <1>1, <1>4, SubSeqProperties
  <2> QED
    BY <1>1, <2>1
<1>6. SubSeq(c, 1, Len(l)) = l
  BY <1>4, <1>5, SeqEqual
<1>7. SubSeq(l, 1, Len(l)) = l
  BY SubSeqFull
<1>8. IsPrefix(l, c)
  BY <1>1, <1>2, <1>6, <1>7 DEF IsPrefix
<1>9. ASSUME NEW i \in 1..Len(r)
      PROVE  Len(l) + i \in DOMAIN c /\ Len(l) + i > Len(l) /\ c[Len(l) + i] = r[i]
  <2> DEFINE k == Len(l) + i
  <2>1. k \in 1..(Len(l) + Len(r)) /\ k > Len(l) /\ ~(k <= Len(l)) /\ k - Len(l) = i
    BY <1>1
  <2> HIDE DEF k
  <2>2. c[k] = r[k - Len(l)]
    BY <1>2, <2>1
  <2>3. c[k] = r[i] /\ k \in DOMAIN c /\ k > Len(l)
    BY <1>3, <2>1, <2>2
  <2> QED
    BY <2>3 DEF k
<1> QED
  BY <1>2, <1>8, <1>9 DEF c

\* parseMirrors goes on with the list, and adds an object for each mirror.
LEMMA MirrorsParsed ==
  ASSUME NEW s \in Seq(Entry), NEW l \in Seq(MirrorObject)
  PROVE  /\ ParseMirrors(s, l) \in Seq(MirrorObject) /\ IsPrefix(l, ParseMirrors(s, l))
         /\ \A j \in 1..Len(s) : s[j].tag = "mirror" =>
              \E i \in DOMAIN ParseMirrors(s, l) :
                i > Len(l) /\ ParseMirrors(s, l)[i] = ParseMirror(s[j])
<1> DEFINE items == Items(s, "mirror")
           read  == [i \in DOMAIN items |-> ParseMirror(items[i])]
<1>1. items \in Seq(Entry)
  BY ItemsFrom
<1>2. PICK p \in Nat :
        /\ \A i \in 1..Len(items) : p + i \in 1..Len(s) /\ items[i] = s[p + i]
        /\ \A j \in 1..Len(s) : s[j].tag = "mirror" => j - p \in 1..Len(items)
  BY ItemsHave
<1>3. ParseMirrors(s, l) = l \o read
  BY DEF ParseMirrors
<1> HIDE DEF items
<1>4. \A i \in DOMAIN items : ParseMirror(items[i]) \in MirrorObject
  BY <1>1, ParseMirrorType
<1>5. DOMAIN items = 1..Len(items) /\ Len(items) \in Nat
  BY <1>1
<1>6. read \in Seq(MirrorObject) /\ Len(read) = Len(items)
  BY <1>4, <1>5
<1>7. \A i \in 1..Len(items) : read[i] = ParseMirror(items[i])
  BY <1>5
<1> HIDE DEF read
<1>8. /\ l \o read \in Seq(MirrorObject) /\ IsPrefix(l, l \o read)
      /\ \A i \in 1..Len(read) : /\ Len(l) + i \in DOMAIN (l \o read) /\ Len(l) + i > Len(l)
                                 /\ (l \o read)[Len(l) + i] = read[i]
  BY <1>6, Appended
<1>9. ASSUME NEW j \in 1..Len(s), s[j].tag = "mirror"
      PROVE  \E i \in DOMAIN (l \o read) : i > Len(l) /\ (l \o read)[i] = ParseMirror(s[j])
  <2>1. j - p \in 1..Len(items) /\ p + (j - p) = j
    BY <1>2, <1>9
  <2>2. items[j - p] = s[j]
    BY <1>2, <2>1
  <2>3. read[j - p] = ParseMirror(s[j]) /\ j - p \in 1..Len(read)
    BY <1>6, <1>7, <2>1, <2>2
  <2> QED
    BY <1>8, <2>3
<1> QED
  BY <1>3, <1>8, <1>9

\* parseChannels goes on with the list, and adds a clean object for each channel.
LEMMA ChannelsParsed ==
  ASSUME NEW s \in Seq(Entry), NEW l \in Seq(Clean)
  PROVE  /\ ParseChannels(s, l) \in Seq(Clean) /\ IsPrefix(l, ParseChannels(s, l))
         /\ \A j \in 1..Len(s) : s[j].tag = "channel" =>
              \E i \in DOMAIN ParseChannels(s, l) :
                i > Len(l) /\ ParseChannels(s, l)[i] = ParseChannel(s[j])
<1> DEFINE items == Items(s, "channel")
           read  == [i \in DOMAIN items |-> ParseChannel(items[i])]
<1>1. items \in Seq(Entry)
  BY ItemsFrom
<1>2. PICK p \in Nat :
        /\ \A i \in 1..Len(items) : p + i \in 1..Len(s) /\ items[i] = s[p + i]
        /\ \A j \in 1..Len(s) : s[j].tag = "channel" => j - p \in 1..Len(items)
  BY ItemsHave
<1>3. ParseChannels(s, l) = l \o read
  BY DEF ParseChannels
<1> HIDE DEF items
<1>4. \A i \in DOMAIN items : ParseChannel(items[i]) \in Clean
  BY <1>1, ParseChannelClean
<1>5. DOMAIN items = 1..Len(items) /\ Len(items) \in Nat
  BY <1>1
<1>6. read \in Seq(Clean) /\ Len(read) = Len(items)
  BY <1>4, <1>5
<1>7. \A i \in 1..Len(items) : read[i] = ParseChannel(items[i])
  BY <1>5
<1> HIDE DEF read
<1>8. /\ l \o read \in Seq(Clean) /\ IsPrefix(l, l \o read)
      /\ \A i \in 1..Len(read) : /\ Len(l) + i \in DOMAIN (l \o read) /\ Len(l) + i > Len(l)
                                 /\ (l \o read)[Len(l) + i] = read[i]
  BY <1>6, Appended
<1>9. ASSUME NEW j \in 1..Len(s), s[j].tag = "channel"
      PROVE  \E i \in DOMAIN (l \o read) : i > Len(l) /\ (l \o read)[i] = ParseChannel(s[j])
  <2>1. j - p \in 1..Len(items) /\ p + (j - p) = j
    BY <1>2, <1>9
  <2>2. items[j - p] = s[j]
    BY <1>2, <2>1
  <2>3. read[j - p] = ParseChannel(s[j]) /\ j - p \in 1..Len(read)
    BY <1>6, <1>7, <2>1, <2>2
  <2> QED
    BY <1>8, <2>3
<1> QED
  BY <1>3, <1>8, <1>9

-----------------------------------------------------------------------------
(* What is written and read again.                                         *)

LEMMA WrittenEntry ==
  ASSUME NEW c \in Clean
  PROVE  /\ WriteChannel(c) \in Entry
         /\ WriteChannel(c).tag = "channel"
         /\ \A f \in Fields \ {"name"} : ParseChannel(WriteChannel(c))[f] = c[f]
<1>1. c \in [Fields -> Text \cup {NoText}]
  BY DEF Clean, ChannelObject
<1>2. WriteChannel(c) \in Entry
  BY <1>1 DEF WriteChannel, Entry
<1>3. \A f \in Fields \ {"name"} : Value(c[f]) = c[f]
  BY DEF Clean
<1> QED
  BY <1>2, <1>3 DEF WriteChannel, ParseChannel

\* writeChannelList and parseChannels: every channel that was read is written so that it
\* is read again as it was, but for its name.
THEOREM ChannelsSurvive ==
  ASSUME NEW l \in Seq(Clean)
  PROVE  /\ Len(ParseChannels(WriteChannelList(l), <<>>)) = Len(l)
         /\ \A i \in 1..Len(l), f \in Fields \ {"name"} :
              ParseChannels(WriteChannelList(l), <<>>)[i][f] = l[i][f]
<1> DEFINE w == WriteChannelList(l)
<1>1. /\ w \in Seq(Entry) /\ Len(w) = Len(l) /\ DOMAIN w = 1..Len(l)
      /\ \A i \in 1..Len(l) : w[i] = WriteChannel(l[i])
  <2>1. DOMAIN l = 1..Len(l) /\ Len(l) \in Nat /\ \A i \in 1..Len(l) : l[i] \in Clean
    OBVIOUS
  <2>2. \A i \in 1..Len(l) : WriteChannel(l[i]) \in Entry
    BY <2>1, WrittenEntry
  <2> QED
    BY <2>1, <2>2 DEF WriteChannelList
<1> HIDE DEF w
<1>2. Items(w, "channel") = w
  <2>1. CASE w = <<>>
    <3>1. SelectInSeq(w, LAMBDA e : e.tag = "channel") = 0
      BY <2>1 DEF SelectInSeq
    <3> QED
      BY <2>1, <3>1 DEF Items
  <2>2. CASE w # <<>>
    <3>1. 1 \in 1..Len(l)
      BY <1>1, <2>2
    <3>2. l[1] \in Clean
      BY <3>1
    <3>3. w[1].tag = "channel"
      BY <1>1, <3>1, <3>2, WrittenEntry
    <3> QED
      BY <1>1, <2>2, <3>3, ItemsFrom
  <2> QED
    BY <2>1, <2>2
<1> DEFINE read == [i \in DOMAIN w |-> ParseChannel(w[i])]
<1>3. ParseChannels(w, <<>>) = <<>> \o read
  BY <1>2 DEF ParseChannels
<1>4. read \in Seq(Clean) /\ Len(read) = Len(l)
  <2>1. \A i \in 1..Len(l) : ParseChannel(w[i]) \in Clean
    BY <1>1, ParseChannelClean
  <2> QED
    BY <1>1, <2>1
<1>5. \A i \in 1..Len(l), f \in Fields \ {"name"} : read[i][f] = l[i][f]
  <2> TAKE i \in 1..Len(l)
  <2>1. l[i] \in Clean
    OBVIOUS
  <2>2. read[i] = ParseChannel(WriteChannel(l[i]))
    BY <1>1
  <2> QED
    BY <2>1, <2>2, WrittenEntry
<1>6. ParseChannels(w, <<>>) = read
  <2> HIDE DEF read
  <2> QED
    BY <1>3, <1>4
<1> QED
  BY <1>4, <1>5, <1>6 DEF w
====
