--------------------------- MODULE FileFormatProofs ---------------------------
(***************************************************************************)
(* FileFormat: a list that is written is read back with every file under   *)
(* its own name, in ASCII, and any document with no missing attribute is   *)
(* read as a list.                                                         *)
(***************************************************************************)
EXTENDS FileFormat, EncoderProofs, FiniteSetTheorems

-----------------------------------------------------------------------------
(* Lists.                                                                  *)

\* A list is a record, and its files are a finite map.
Listed(l) ==
  /\ l = [name |-> l.name, files |-> l.files]
  /\ l.files = [n \in DOMAIN l.files |-> l.files[n]]
  /\ IsFiniteSet(DOMAIN l.files)
  /\ IsList(l)

\* The list m is l with the file under the name n, and in the place of the one l had.
Puts(m, l, n, fo) ==
  /\ m.name = l.name
  /\ DOMAIN m.files = DOMAIN l.files \cup {n}
  /\ m.files[n] = fo
  /\ \A k \in DOMAIN l.files : k # n => m.files[k] = l.files[k]

\* addFile.
LEMMA AddedFile ==
  ASSUME NEW l, Listed(l), NEW n \in Seq(Byte), NEW fo \in FileObject
  PROVE  Listed(Added(l, n, fo)) /\ Puts(Added(l, n, fo), l, n, fo)
<1> DEFINE m == Added(l, n, fo)
           g == Put(l.files, n, fo)
<1>1. m = [name |-> l.name, files |-> g]
  BY DEF Listed, Added
<1>2. /\ DOMAIN g = DOMAIN l.files \cup {n}
      /\ g[n] = fo
      /\ \A k \in DOMAIN l.files : k # n => g[k] = l.files[k]
  BY DEF Put
<1>3. m.name = l.name /\ m.files = g
  BY <1>1
<1>4. g = [k \in DOMAIN g |-> g[k]]
  BY DEF Put
<1> HIDE DEF m, g
<1>5. IsFiniteSet(DOMAIN m.files)
  BY <1>2, <1>3, FS_AddElement DEF Listed
<1>6. IsList(m)
  BY <1>2, <1>3 DEF Listed, IsList
<1>7. Listed(m)
  BY <1>1, <1>3, <1>4, <1>5, <1>6 DEF Listed
<1> QED BY <1>2, <1>3, <1>7 DEF m, Puts

LEMMA RemovedFile ==
  ASSUME NEW l, Listed(l), NEW n
  PROVE  Listed(Removed(l, n))
<1> DEFINE m == Removed(l, n)
           g == [k \in DOMAIN l.files \ {n} |-> l.files[k]]
<1>1. m = [name |-> l.name, files |-> g]
  BY DEF Listed, Removed
<1>2. m.name = l.name /\ m.files = g
  BY <1>1
<1>3. IsFiniteSet(DOMAIN g)
  <2>1. IsFiniteSet(DOMAIN l.files) /\ DOMAIN g \in SUBSET DOMAIN l.files
    BY DEF Listed
  <2> HIDE DEF g
  <2> QED BY <2>1, FS_Subset
<1>4. IsList(m)
  BY <1>2 DEF Listed, IsList
<1> HIDE DEF m
<1>5. g = [k \in DOMAIN g |-> g[k]]
  OBVIOUS
<1> HIDE DEF g
<1> QED BY <1>1, <1>2, <1>3, <1>4, <1>5 DEF Listed, m

LEMMA ClearedIsListed ==
  ASSUME NEW dir \in Dir
  PROVE  Listed([name |-> dir, files |-> <<>>])
<1>1. /\ DOMAIN <<>> = {}
      /\ <<>> = [n \in {} |-> <<>>[n]]
  OBVIOUS
<1>2. IsFiniteSet({})
  BY FS_EmptySet
<1> QED BY <1>1, <1>2 DEF Listed, IsList

LEMMA EmptyIsListed == Listed(EmptyList)
  BY ClearedIsListed, DirAssumption DEF EmptyList

\* setName.
LEMMA RenamedIsListed ==
  ASSUME NEW l, Listed(l), NEW dir \in Dir
  PROVE  LET m == [l EXCEPT !.name = dir]
         IN  Listed(m) /\ m.name = dir /\ m.files = l.files
<1> DEFINE m == [l EXCEPT !.name = dir]
<1>1. m = [name |-> dir, files |-> l.files]
  BY DEF Listed
<1>2. m.name = dir /\ m.files = l.files
  BY <1>1
<1> HIDE DEF m
<1> QED BY <1>1, <1>2 DEF Listed, IsList, m

-----------------------------------------------------------------------------
(* The recursive function of parseFileList.                                *)

\* The lists that one of lists may be after one more element.
AddedFrom(lists, e) ==
  {Added(l, n, fo) : l \in lists, n \in DecodeString(e.filename), fo \in ParseFile(e)}

Parses(items, l, f) ==
  f = [i \in 0..Len(items) |-> IF i = 0 THEN {l} ELSE AddedFrom(f[i - 1], items[i])]

Named(doc, l) == IF doc.dir = NoDir THEN l ELSE [l EXCEPT !.name = doc.dir]

LEMMA ParsesExists ==
  ASSUME NEW items, Len(items) \in Nat, NEW l
  PROVE  \E f : Parses(items, l, f)
<1> DEFINE At(i, g) == IF i = 0 THEN {l} ELSE AddedFrom(g[i - 1], items[i])
           Upto(k, g) == g = [i \in 0..k |-> At(i, g)]
           T == {k \in Nat : \E g : Upto(k, g)}
<1>1. ASSUME NEW n \in Nat, \A m \in Nat : m < n => m \in T PROVE n \in T
  <2>1. CASE n = 0
    <3> DEFINE g == [i \in 0..0 |-> {l}]
    <3>1. \A i \in 0..0 : At(i, g) = {l}
      OBVIOUS
    <3>2. Upto(0, g)
      BY <3>1
    <3> QED BY <2>1, <3>2
  <2>2. CASE n # 0
    <3>1. n - 1 \in Nat /\ n - 1 < n
      BY <2>2
    <3>2. n - 1 \in T
      <4> HIDE DEF T
      <4> QED BY <1>1, <3>1
    <3>3. PICK g : Upto(n - 1, g)
      BY <3>2
    <3> DEFINE h == [i \in 0..n |-> At(i, g)]
    <3> HIDE DEF At
    <3>4. \A i \in 0..n : h[i] = At(i, g)
      OBVIOUS
    <3>5. \A i \in 0..(n - 1) : g[i] = At(i, g)
      BY <3>3, Zenon
    <3>6. \A i \in 0..(n - 1) : i \in 0..n
      OBVIOUS
    <3>7. \A i \in 0..(n - 1) : h[i] = g[i]
      <4> HIDE DEF h
      <4> QED BY <3>4, <3>5, <3>6, Zenon
    <3>8. ASSUME NEW i \in 0..n PROVE At(i, g) = At(i, h)
      <4>1. CASE i = 0
        BY <4>1 DEF At
      <4>2. CASE i # 0
        <5>1. i - 1 \in 0..(n - 1)
          BY <4>2
        <5> HIDE DEF h
        <5>2. h[i - 1] = g[i - 1]
          BY <3>7, <5>1
        <5> QED BY <5>2 DEF At
      <4> QED BY <4>1, <4>2
    <3>9. Upto(n, h)
      <4> DEFINE hh == [i \in 0..n |-> At(i, h)]
      <4>1. \A i \in 0..n : hh[i] = h[i]
        BY <3>4, <3>8, Zenon
      <4>2. h = hh
        BY <4>1
      <4> QED BY <4>2
    <3> QED BY <3>9
  <2> QED BY <2>1, <2>2
<1>2. Len(items) \in T
  <2> HIDE DEF T
  <2> QED BY <1>1, Induction
<1>3. PICK f : Upto(Len(items), f)
  BY <1>2
<1> QED BY <1>3, Zenon DEF Parses

\* The children that parseFileList looks at.
Files(doc) == Items(doc.elements, "file")

\* parseFileList names the list, if the document has a name, and adds each of the files.
LEMMA Parsing ==
  ASSUME NEW doc, NEW l, Len(Files(doc)) \in Nat
  PROVE  \E f : /\ f[0] = {Named(doc, l)}
                /\ \A i \in 1..Len(Files(doc)) : f[i] = AddedFrom(f[i - 1], Files(doc)[i])
                /\ ParseFiles(doc, l) = f[Len(Files(doc))]
<1> DEFINE items == Files(doc)
           N == Named(doc, l)
           f == CHOOSE f : Parses(items, N, f)
<1>1. Parses(items, N, f)
  BY ParsesExists
<1>2. ParseFiles(doc, l) = f[Len(items)]
  BY DEF ParseFiles, Parses, AddedFrom, Named, Files
<1> HIDE DEF f, N, items
<1>3. \A i \in 0..Len(items) : f[i] = IF i = 0 THEN {N} ELSE AddedFrom(f[i - 1], items[i])
  BY <1>1, Zenon DEF Parses
<1>4. 0 \in 0..Len(items) /\ \A i \in 1..Len(items) : i \in 0..Len(items) /\ i # 0
  BY DEF items
<1>5. f[0] = {N} /\ \A i \in 1..Len(items) : f[i] = AddedFrom(f[i - 1], items[i])
  BY <1>3, <1>4, Zenon
<1> QED BY <1>2, <1>5 DEF N, items

-----------------------------------------------------------------------------
(* Reading.                                                                *)

\* A file whose numbers are there is read, with the numbers that could be.
LEMMA FileRead ==
  ASSUME NEW e \in Element, Absent \notin {e.version, e.crc32, e.size}, NEW fo \in ParseFile(e)
  PROVE  /\ fo \in FileObject
         /\ e.version \in Number => fo.version = e.version
         /\ e.crc32 \in Number => fo.crc32 = e.crc32
         /\ e.size \in Number => fo.size = e.size
<1>1. ASSUME NEW a \in Attribute, a # Absent, NEW r \in Read(a)
      PROVE  r \in Number /\ (a \in Number => r = a)
  BY <1>1 DEF Read, Attribute, Number, Absent, Junk
<1>2. e.version \in Attribute /\ e.crc32 \in Attribute /\ e.size \in Attribute
  BY DEF Element
<1>3. PICK v \in Read(e.version), c \in Read(e.crc32), s \in Read(e.size) :
        fo = [version |-> v, crc32 |-> c, size |-> s,
              execute |-> e.execute = "true", deleted |-> e.deleted = "true"]
  BY SMT DEF ParseFile
<1>4. v \in Number /\ c \in Number /\ s \in Number
  BY <1>1, <1>2
<1>5. fo \in FileObject
  BY <1>3, <1>4 DEF FileObject
<1>6. fo.version = v /\ fo.crc32 = c /\ fo.size = s
  BY <1>3
<1> QED BY <1>1, <1>2, <1>5, <1>6

\* Any document with all its numbers there is read into a list as a list.
THEOREM ParsedIsListed ==
  ASSUME NEW doc \in Document, ~ReadsNull(doc), NEW l, Listed(l), NEW m \in ParseFiles(doc, l)
  PROVE  Listed(m)
<1> DEFINE items == Files(doc)
<1>1. items \in Seq(Element) /\ Len(items) \in Nat
  BY ItemsFrom DEF Document, Files
<1>2. PICK f : /\ f[0] = {Named(doc, l)}
               /\ \A i \in 1..Len(items) : f[i] = AddedFrom(f[i - 1], items[i])
               /\ ParseFiles(doc, l) = f[Len(items)]
  <2> HIDE DEF items
  <2> QED BY <1>1, Parsing DEF items
<1>3. Listed(Named(doc, l))
  <2>1. CASE doc.dir = NoDir
    BY <2>1 DEF Named
  <2>2. CASE doc.dir # NoDir
    <3>1. doc.dir \in Dir
      BY <2>2 DEF Document
    <3>2. Named(doc, l) = [name |-> doc.dir, files |-> l.files]
      BY <2>2 DEF Named, Listed
    <3>3. Named(doc, l).name = doc.dir /\ Named(doc, l).files = l.files
      BY <3>2
    <3> QED BY <3>1, <3>2, <3>3 DEF Listed, IsList
  <2> QED BY <2>1, <2>2
<1>4. \A i \in 1..Len(items) :
        items[i] \in Element /\ Absent \notin {items[i].version, items[i].crc32, items[i].size}
  <2>1. ASSUME NEW i \in 1..Len(items) PROVE items[i] \in Element /\ items[i] \in ToSet(items)
    <3> HIDE DEF items
    <3>1. DOMAIN items = 1..Len(items)
      BY <1>1, LenProperties
    <3> QED BY <1>1, <3>1, ElementOfSeq DEF ToSet
  <2> HIDE DEF items
  <2> QED BY <2>1, Zenon DEF ReadsNull, Files, items
<1> HIDE DEF items
<1> DEFINE T == {i \in Nat : i <= Len(items) => \A x \in f[i] : Listed(x)}
<1>5. ASSUME NEW n \in Nat, \A k \in Nat : k < n => k \in T PROVE n \in T
  <2>1. CASE n = 0
    BY <1>2, <1>3, <2>1
  <2>2. CASE n # 0
    <3> SUFFICES ASSUME n <= Len(items), NEW x \in f[n] PROVE Listed(x)
      OBVIOUS
    <3>1. n - 1 \in Nat /\ n - 1 < n /\ n - 1 <= Len(items) /\ n \in 1..Len(items)
      BY <1>1, <2>2
    <3>2. \A y \in f[n - 1] : Listed(y)
      BY <1>5, <3>1
    <3>3. f[n] = AddedFrom(f[n - 1], items[n])
      BY <1>2, <3>1
    <3>4. PICK y \in f[n - 1], k \in DecodeString(items[n].filename), fo \in ParseFile(items[n]) :
            x = Added(y, k, fo)
      <4>1. x \in AddedFrom(f[n - 1], items[n])
        BY <3>3
      <4> QED BY <4>1, SMT DEF AddedFrom
    <3>5. k \in Seq(Byte)
      <4>1. items[n].filename \in Seq(Byte)
        BY <1>4, <3>1 DEF Element
      <4> QED BY <4>1, DecodedTyped
    <3>6. fo \in FileObject
      BY <1>4, <3>1, FileRead
    <3> QED BY <3>2, <3>4, <3>5, <3>6, AddedFile
  <2> QED BY <2>1, <2>2
<1>6. Len(items) \in T
  <2> HIDE DEF T
  <2> QED BY <1>1, <1>5, Induction
<1> QED BY <1>2, <1>6

\* Of the first k names, the i-th is n, and none after it.
IsLast(names, k, i, n) ==
  i \in 1..k /\ names[i] = n /\ \A j \in 1..k : j > i => names[j] # n

SameNumbers(f, g) == f.version = g.version /\ f.crc32 = g.crc32 /\ f.size = g.size

\* What e says of a file is its name, encoded, and the numbers of fo.
Says(e, n, fo) == e.filename = EncodeString(n) /\ fo \in FileObject /\ SameNumbers(e, fo)

LEMMA AsciiNames == Seq(Ascii) \subseteq Seq(Byte)
<1>1. Ascii \subseteq Byte
  BY DEF Ascii, Byte
<1> QED BY <1>1

\* The files of doc are K, and the i-th is said to be names[i] with what F[i] has.
SaysAll(doc, names, F, K) ==
  /\ K \in Nat /\ Files(doc) \in Seq(Element) /\ Len(Files(doc)) = K
  /\ \A i \in 1..K : names[i] \in Seq(Byte) /\ Says(Files(doc)[i], names[i], F[i])

\* The list m has these names, each with what was said of it last.
HasLast(m, names, F, K) ==
  /\ DOMAIN m.files = {names[i] : i \in 1..K}
  /\ \A n \in DOMAIN m.files :
       \E i \in 1..K : IsLast(names, K, i, n) /\ SameNumbers(m.files[n], F[i])

\* A document that says of some names, in ASCII, what numbers their files have is read
\* as a list of those names, each with the numbers said last.
THEOREM ReadBack ==
  ASSUME NEW doc \in Document, NEW N, NEW F, NEW K, SaysAll(doc, N, F, K),
         \A i \in 1..K : N[i] \in Seq(Ascii),
         NEW m \in ParseFiles(doc, EmptyList)
  PROVE  /\ Listed(m) /\ HasLast(m, N, F, K)
         /\ m.name = IF doc.dir = NoDir THEN "" ELSE doc.dir
<1> DEFINE items == Files(doc)
           start == Named(doc, EmptyList)
<1>0. /\ K \in Nat /\ items \in Seq(Element) /\ Len(items) = K
      /\ \A i \in 1..K : N[i] \in Seq(Ascii) /\ Says(items[i], N[i], F[i])
  BY DEF SaysAll
<1>1. PICK f : /\ f[0] = {start}
               /\ \A i \in 1..K : f[i] = AddedFrom(f[i - 1], items[i])
               /\ ParseFiles(doc, EmptyList) = f[K]
  BY <1>0, Parsing
<1>2. /\ Listed(start) /\ start.files = <<>>
      /\ start.name = IF doc.dir = NoDir THEN "" ELSE doc.dir
  <2>1. EmptyList.name = "" /\ EmptyList.files = <<>> /\ Listed(EmptyList)
    BY EmptyIsListed DEF EmptyList
  <2>2. CASE doc.dir = NoDir
    BY <2>1, <2>2 DEF Named
  <2>3. CASE doc.dir # NoDir
    <3>1. doc.dir \in Dir
      BY <2>3 DEF Document
    <3>2. start = [name |-> doc.dir, files |-> <<>>]
      BY <2>3 DEF Named, EmptyList
    <3>3. start.name = doc.dir /\ start.files = <<>>
      BY <3>2
    <3> QED BY <2>1, <2>3, <3>1, <3>2, <3>3 DEF Listed, IsList
  <2> QED BY <2>2, <2>3
<1>3. ASSUME NEW i \in 1..K
      PROVE  /\ items[i] \in Element /\ N[i] \in Seq(Byte)
             /\ DecodeString(items[i].filename) = {N[i]}
             /\ \A fo \in ParseFile(items[i]) : fo \in FileObject /\ SameNumbers(fo, F[i])
  <2> HIDE DEF items
  <2>1. items \in Seq(Element) /\ Len(items) = K /\ N[i] \in Seq(Ascii) /\ Says(items[i], N[i], F[i])
    BY <1>0
  <2>2. items[i] \in Element
    BY <2>1, ElementOfSeq
  <2>3. DecodeString(items[i].filename) = {N[i]}
    BY <2>1, AsciiReadBack DEF Says
  <2>4. ASSUME NEW fo \in ParseFile(items[i]) PROVE fo \in FileObject /\ SameNumbers(fo, F[i])
    <3>1. /\ items[i].version = F[i].version /\ items[i].crc32 = F[i].crc32
          /\ items[i].size = F[i].size
          /\ F[i].version \in Number /\ F[i].crc32 \in Number /\ F[i].size \in Number
      BY <2>1 DEF Says, SameNumbers, FileObject
    <3>2. Absent \notin {items[i].version, items[i].crc32, items[i].size}
      BY <3>1 DEF Absent, Number
    <3> QED BY <2>2, <3>1, <3>2, FileRead DEF SameNumbers
  <2> QED BY <2>1, <2>2, <2>3, <2>4, AsciiNames
<1> HIDE DEF items, start
<1> DEFINE Good(k, x) ==
             /\ Listed(x) /\ x.name = start.name
             /\ DOMAIN x.files = {N[i] : i \in 1..k}
             /\ \A n \in DOMAIN x.files :
                  \E i \in 1..k : IsLast(N, k, i, n) /\ SameNumbers(x.files[n], F[i])
           T == {k \in Nat : k <= K => \A x \in f[k] : Good(k, x)}
<1>4. ASSUME NEW k \in Nat, \A j \in Nat : j < k => j \in T PROVE k \in T
  <2>1. CASE k = 0
    <3>1. {N[i] : i \in 1..0} = {} /\ DOMAIN <<>> = {}
      OBVIOUS
    <3>2. Good(0, start)
      BY <1>2, <3>1
    <3> HIDE DEF Good
    <3> QED BY <1>1, <2>1, <3>2
  <2>2. CASE k # 0
    <3> SUFFICES ASSUME k <= K, NEW x \in f[k] PROVE Good(k, x)
      OBVIOUS
    <3>1. k - 1 \in Nat /\ k - 1 < k /\ k - 1 <= K /\ k \in 1..K
      BY <1>0, <2>2
    <3>2. \A y \in f[k - 1] : Good(k - 1, y)
      <4> HIDE DEF Good
      <4> QED BY <1>4, <3>1
    <3>3. f[k] = AddedFrom(f[k - 1], items[k])
      BY <1>1, <3>1
    <3>4. PICK y \in f[k - 1], n \in DecodeString(items[k].filename), fo \in ParseFile(items[k]) :
            x = Added(y, n, fo)
      <4>1. x \in AddedFrom(f[k - 1], items[k])
        BY <3>3
      <4> HIDE DEF Good
      <4> QED BY <4>1, SMT DEF AddedFrom
    <3>5. n = N[k] /\ n \in Seq(Byte) /\ fo \in FileObject /\ SameNumbers(fo, F[k])
      BY <1>3, <3>1, <3>4
    <3>6. /\ Listed(x) /\ x.name = y.name
          /\ DOMAIN x.files = DOMAIN y.files \cup {n}
          /\ x.files[n] = fo
          /\ \A o \in DOMAIN y.files : o # n => x.files[o] = y.files[o]
      BY <3>2, <3>4, <3>5, AddedFile DEF Puts
    <3>7. DOMAIN x.files = {N[i] : i \in 1..k}
      <4>1. DOMAIN y.files = {N[i] : i \in 1..(k - 1)}
        BY <3>2
      <4>2. \A i \in 1..k : i = k \/ i \in 1..(k - 1)
        BY <3>1
      <4>3. \A i \in 1..(k - 1) : i \in 1..k
        BY <3>1
      <4>4. k \in 1..k
        BY <3>1
      <4> QED BY <3>5, <3>6, <4>1, <4>2, <4>3, <4>4
    <3>8. ASSUME NEW o \in DOMAIN x.files
          PROVE  \E i \in 1..k : IsLast(N, k, i, o) /\ SameNumbers(x.files[o], F[i])
      <4>1. CASE o = n
        <5>1. IsLast(N, k, k, o)
          BY <3>1, <3>5, <4>1 DEF IsLast
        <5> QED BY <3>1, <3>5, <3>6, <4>1, <5>1
      <4>2. CASE o # n
        <5>1. o \in DOMAIN y.files /\ x.files[o] = y.files[o]
          BY <3>6, <4>2
        <5>2. PICK i \in 1..(k - 1) : IsLast(N, k - 1, i, o) /\ SameNumbers(y.files[o], F[i])
          BY <3>2, <5>1
        <5>3. i \in 1..k /\ IsLast(N, k, i, o)
          BY <3>1, <3>5, <4>2, <5>2 DEF IsLast
        <5> QED BY <5>1, <5>2, <5>3
      <4> QED BY <4>1, <4>2
    <3> QED BY <3>2, <3>4, <3>6, <3>7, <3>8
  <2> QED BY <2>1, <2>2
<1>5. K \in T
  <2> HIDE DEF T
  <2> QED BY <1>0, <1>4, Induction
<1>6. Good(K, m)
  <2> HIDE DEF Good
  <2> QED BY <1>1, <1>5
<1> QED BY <1>2, <1>6 DEF HasLast

-----------------------------------------------------------------------------
(* Writing, and reading what was written.                                  *)

\* A finite set is listed element by element, each once.
LEMMA SetListed ==
  ASSUME NEW S, IsFiniteSet(S)
  PROVE  LET s == SetToSeq(S)
         IN  /\ s \in [1..Cardinality(S) -> S] /\ Cardinality(S) \in Nat
             /\ \A i, j \in 1..Cardinality(S) : s[i] = s[j] => i = j
             /\ S = {s[i] : i \in 1..Cardinality(S)}
<1> DEFINE s == SetToSeq(S)
           N == Cardinality(S)
<1>1. N \in Nat /\ ExistsBijection(1..N, S)
  BY FS_CardinalityType
<1>2. \E f \in [1..N -> S] : IsInjective(f)
  BY <1>1 DEF ExistsBijection, Bijection, Injection
<1>3. s \in [1..N -> S] /\ IsInjective(s)
  BY <1>2 DEF SetToSeq
<1>4. IsFiniteSet(1..N) /\ Cardinality(1..N) = N
  BY <1>1, FS_Interval
<1> HIDE DEF s, N
<1>5. s \in Injection(1..N, S)
  BY <1>3 DEF Injection
<1>6. s \in Surjection(1..N, S)
  <2>1. Cardinality(1..N) = Cardinality(S) <=> s \in Surjection(1..N, S)
    BY <1>5, FS_Injection
  <2> QED BY <1>4, <2>1 DEF N
<1>7. S = {s[i] : i \in 1..N}
  BY <1>3, <1>6 DEF Surjection
<1> QED BY <1>1, <1>3, <1>7 DEF s, N, IsInjective

\* An element written for a file, by TinyXML or by recordUpdate, says what it is.
LEMMA WrittenElement ==
  ASSUME NEW n \in Seq(Byte), NEW fo \in FileObject
  PROVE  \A e \in {WriteFile(n, fo), Record(n, fo)} :
           /\ e \in Element /\ e.tag = "file" /\ Says(e, n, fo)
           /\ Absent \notin {e.version, e.crc32, e.size}
<1>1. EncodeString(n) \in Seq(Byte)
  BY EncodedHasNoMarkup
<1>2. /\ fo.version \in Number /\ fo.crc32 \in Number /\ fo.size \in Number
      /\ fo.execute \in BOOLEAN
  BY DEF FileObject
<1>3. /\ fo.version \in Attribute /\ fo.crc32 \in Attribute /\ fo.size \in Attribute
      /\ Absent \notin {fo.version, fo.crc32, fo.size}
  BY <1>2 DEF Attribute, Number, Absent
<1>4. \A x \in Flag : LET e == [tag |-> "file", filename |-> EncodeString(n),
          version |-> fo.version, crc32 |-> fo.crc32, size |-> fo.size,
          execute |-> x, deleted |-> "absent"]
      IN /\ e \in Element /\ e.tag = "file" /\ Says(e, n, fo)
         /\ Absent \notin {e.version, e.crc32, e.size}
  <2> TAKE x \in Flag
  <2> DEFINE e == [tag |-> "file", filename |-> EncodeString(n),
          version |-> fo.version, crc32 |-> fo.crc32, size |-> fo.size,
          execute |-> x, deleted |-> "absent"]
  <2>1. /\ e.tag = "file" /\ e.filename = EncodeString(n)
        /\ e.version = fo.version /\ e.crc32 = fo.crc32 /\ e.size = fo.size
    OBVIOUS
  <2>2. e \in Element
    BY <1>1, <1>3 DEF Element, Flag
  <2> QED BY <1>3, <2>1, <2>2 DEF Says, SameNumbers
<1>5. /\ WriteFile(n, fo) = [tag |-> "file", filename |-> EncodeString(n),
          version |-> fo.version, crc32 |-> fo.crc32, size |-> fo.size,
          execute |-> IF fo.execute THEN "1" ELSE "0", deleted |-> "absent"]
      /\ Record(n, fo) = [tag |-> "file", filename |-> EncodeString(n),
          version |-> fo.version, crc32 |-> fo.crc32, size |-> fo.size,
          execute |-> IF fo.execute THEN "true" ELSE "false", deleted |-> "absent"]
  BY DEF WriteFile, Record
<1>6. (IF fo.execute THEN "1" ELSE "0") \in Flag /\ (IF fo.execute THEN "true" ELSE "false") \in Flag
  BY DEF Flag
<1> QED BY <1>4, <1>5, <1>6

\* Elements that say what K files are, and nothing else, are the files of a document.
LEMMA AllAreFiles ==
  ASSUME NEW doc, NEW K \in Nat, doc.elements \in Seq(Element), Len(doc.elements) = K,
         \A i \in 1..K : /\ doc.elements[i].tag = "file"
                         /\ Absent \notin {doc.elements[i].version, doc.elements[i].crc32,
                                           doc.elements[i].size}
  PROVE  Files(doc) = doc.elements /\ ~ReadsNull(doc)
<1> DEFINE es == doc.elements
<1>1. Files(doc) = es
  <2>1. CASE K = 0
    <3>1. es = <<>>
      BY <2>1, EmptySeq
    <3>2. Items(<<>>, "file") = <<>>
      <4>1. {i \in 1..Len(<<>>) : <<>>[i].tag = "file"} = {}
        OBVIOUS
      <4>2. SelectInSeq(<<>>, LAMBDA e : e.tag = "file") = 0
        BY <4>1 DEF SelectInSeq
      <4> QED BY <4>2 DEF Items
    <3> QED BY <3>1, <3>2 DEF Files
  <2>2. CASE K # 0
    <3>1. es # <<>> /\ es[1].tag = "file"
      BY <2>2
    <3> QED BY <3>1, ItemsFrom DEF Files
  <2> QED BY <2>1, <2>2
<1>2. ToSet(es) = {es[i] : i \in 1..K}
  BY DEF ToSet
<1> HIDE DEF es
<1>3. ~ReadsNull(doc)
  <2>1. ToSet(Items(doc.elements, "file")) = {es[i] : i \in 1..K}
    BY <1>1, <1>2 DEF Files
  <2> QED BY <2>1 DEF ReadsNull, es
<1> QED BY <1>1, <1>3 DEF es

\* writeFileList writes a document that can be read, with an element for each file.
LEMMA Written ==
  ASSUME NEW l, Listed(l)
  PROVE  LET doc == WriteFileList(l)
             N == SetToSeq(DOMAIN l.files)
             K == Cardinality(DOMAIN l.files)
         IN  /\ doc \in Document /\ ~ReadsNull(doc) /\ doc.dir = l.name
             /\ SaysAll(doc, N, [i \in 1..K |-> l.files[N[i]]], K)
             /\ DOMAIN l.files = {N[i] : i \in 1..K}
<1> DEFINE doc == WriteFileList(l)
           N == SetToSeq(DOMAIN l.files)
           K == Cardinality(DOMAIN l.files)
           es == [i \in DOMAIN N |-> WriteFile(N[i], l.files[N[i]])]
<1>1. /\ N \in [1..K -> DOMAIN l.files] /\ K \in Nat
      /\ DOMAIN l.files = {N[i] : i \in 1..K}
  BY SetListed DEF Listed
<1>2. doc = [dir |-> l.name, elements |-> es]
  BY DEF WriteFileList
<1> HIDE DEF doc, N, K
<1>3. ASSUME NEW i \in 1..K
      PROVE  /\ N[i] \in DOMAIN l.files
             /\ es[i] \in Element /\ es[i].tag = "file" /\ Says(es[i], N[i], l.files[N[i]])
             /\ Absent \notin {es[i].version, es[i].crc32, es[i].size}
  <2>1. N[i] \in DOMAIN l.files
    BY <1>1
  <2>2. N[i] \in Seq(Byte) /\ l.files[N[i]] \in FileObject
    BY <2>1 DEF Listed, IsList
  <2>3. es[i] = WriteFile(N[i], l.files[N[i]])
    BY <1>1
  <2> HIDE DEF es
  <2> QED BY <2>1, <2>2, <2>3, WrittenElement
<1>4. es \in Seq(Element) /\ Len(es) = K
  <2>1. DOMAIN es = 1..K
    BY <1>1
  <2>2. es \in [1..K -> Element]
    BY <1>3, <2>1
  <2> HIDE DEF es
  <2> QED BY <1>1, <2>2
<1> HIDE DEF es
<1>5. doc.dir = l.name /\ doc.elements = es
  BY <1>2
<1>6. doc \in Document
  BY <1>2, <1>4 DEF Document, Listed, IsList
<1>7. Files(doc) = es /\ ~ReadsNull(doc)
  BY <1>1, <1>3, <1>4, <1>5, AllAreFiles
<1>8. SaysAll(doc, N, [i \in 1..K |-> l.files[N[i]]], K)
  <2>1. \A i \in 1..K : N[i] \in Seq(Byte)
    BY <1>3 DEF Listed, IsList
  <2> QED BY <1>1, <1>3, <1>4, <1>7, <2>1 DEF SaysAll
<1> QED BY <1>1, <1>5, <1>6, <1>7, <1>8 DEF doc, N, K

\* writeFileList and parseFileList: a list of names in ASCII is read back as it was
\* written.
THEOREM WrittenReadBack ==
  ASSUME NEW l, Listed(l), InAscii(l), NEW m \in ParseFiles(WriteFileList(l), EmptyList)
  PROVE  Listed(m) /\ SameFiles(m, l)
<1> DEFINE doc == WriteFileList(l)
           N == SetToSeq(DOMAIN l.files)
           K == Cardinality(DOMAIN l.files)
           F == [i \in 1..K |-> l.files[N[i]]]
<1>1. /\ doc \in Document /\ doc.dir = l.name
      /\ SaysAll(doc, N, F, K)
      /\ DOMAIN l.files = {N[i] : i \in 1..K}
  BY Written
<1>2. m \in ParseFiles(doc, EmptyList)
  OBVIOUS
<1>3. \A i \in 1..K : F[i] = l.files[N[i]]
  OBVIOUS
<1> HIDE DEF doc, N, K, F
<1>4. \A i \in 1..K : N[i] \in Seq(Ascii)
  BY <1>1 DEF InAscii
<1>5. /\ Listed(m) /\ HasLast(m, N, F, K)
      /\ m.name = IF doc.dir = NoDir THEN "" ELSE doc.dir
  BY <1>1, <1>2, <1>4, ReadBack
<1>6. m.name = l.name
  BY <1>1, <1>5, DirAssumption DEF Listed, IsList
<1>7. ASSUME NEW n \in DOMAIN m.files PROVE SameNumbers(m.files[n], l.files[n])
  <2>1. PICK i \in 1..K : IsLast(N, K, i, n) /\ SameNumbers(m.files[n], F[i])
    BY <1>5 DEF HasLast
  <2> QED BY <1>3, <2>1 DEF IsLast
<1> QED BY <1>1, <1>5, <1>6, <1>7 DEF HasLast, SameFiles, SameNumbers
====
