---------------------------- MODULE ListFilesProofs ----------------------------
(***************************************************************************)
(* ListFiles, whatever the names, the documents of servers and the bounds: *)
(* wfut.xml always has the list that was last saved, and tempwfut.xml the  *)
(* records of downloads.                                                   *)
(***************************************************************************)
EXTENDS ListFiles, FileFormatProofs

-----------------------------------------------------------------------------
(* The inductive invariant.                                                *)

\* The lines t are the records of downloads: of the files F under the names N.
Recorded(t, N, F) ==
  /\ t \in Seq(Element)
  /\ \A i \in 1..Len(t) : t[i] = Record(N[i], F[i])

FilesTyped ==
  /\ Listed(list) /\ Listed(saved)
  /\ wfut_xml.exists \in BOOLEAN

SavedIsWritten == wfut_xml = [exists |-> wfut_xml.exists, doc |-> WriteFileList(saved)]

DownloadsAreRecorded ==
  \E N \in [1..Len(temp_xml) -> Name], F \in [1..Len(temp_xml) -> Object] :
    Recorded(temp_xml, N, F)

IInv == FilesTyped /\ SavedIsWritten /\ DownloadsAreRecorded

-----------------------------------------------------------------------------
(* It holds at the start and after every step.                             *)

LEMMA NothingRecorded ==
  /\ Len(<<>>) = 0
  /\ \E N \in [1..0 -> Name], F \in [1..0 -> Object] : Recorded(<<>>, N, F)
<1>1. Len(<<>>) = 0 /\ 1..0 = {} /\ <<>> \in Seq(Element)
  OBVIOUS
<1>2. \A N, F : Recorded(<<>>, N, F)
  BY <1>1 DEF Recorded
<1>3. [i \in 1..0 |-> i] \in [1..0 -> Name] /\ [i \in 1..0 |-> i] \in [1..0 -> Object]
  BY <1>1
<1> QED BY <1>1, <1>2, <1>3

LEMMA InitIInv == Init => IInv
<1> SUFFICES ASSUME Init PROVE IInv
  OBVIOUS
<1> USE DEF Init
<1>1. FilesTyped
  BY EmptyIsListed DEF FilesTyped
<1>2. SavedIsWritten
  BY DEF SavedIsWritten
<1>3. DownloadsAreRecorded
  BY NothingRecorded DEF DownloadsAreRecorded
<1> QED BY <1>1, <1>2, <1>3 DEF IInv

\* Whatever changes the list, but for a download, changes neither file.
LEMMA EditKeepsIInv ==
  ASSUME IInv, NEW l, Listed(l), Edit(l)
  PROVE  IInv'
<1> USE DEF Edit, Becomes
<1>1. FilesTyped'
  BY DEF IInv, FilesTyped
<1>2. SavedIsWritten'
  BY DEF IInv, SavedIsWritten
<1>3. DownloadsAreRecorded'
  BY DEF IInv, DownloadsAreRecorded
<1> QED BY <1>1, <1>2, <1>3 DEF IInv

LEMMA DownloadKeepsIInv ==
  ASSUME IInv, NEW n \in Name, NEW fo \in Object, DownloadComplete(n, fo)
  PROVE  IInv'
<1> DEFINE K == Len(temp_xml)
<1>1. n \in Seq(Byte) /\ fo \in FileObject
  BY NameAssumption, ObjectAssumption
<1>2. /\ list' = Added(list, n, fo)
      /\ temp_xml' = Append(temp_xml, Record(n, fo))
      /\ UNCHANGED <<wfut_xml, saved>>
  BY DEF DownloadComplete, Becomes
<1>3. Listed(list')
  BY <1>1, <1>2, AddedFile DEF IInv, FilesTyped
<1>4. FilesTyped'
  BY <1>2, <1>3 DEF IInv, FilesTyped
<1>5. SavedIsWritten'
  BY <1>2 DEF IInv, SavedIsWritten
<1>6. DownloadsAreRecorded'
  <2>1. PICK N \in [1..K -> Name], F \in [1..K -> Object] :
          Recorded(temp_xml, N, F)
    BY DEF IInv, DownloadsAreRecorded
  <2>2. Record(n, fo) \in Element
    BY <1>1, WrittenElement
  <2>3. /\ K \in Nat /\ temp_xml' \in Seq(Element) /\ Len(temp_xml') = K + 1
        /\ temp_xml'[K + 1] = Record(n, fo)
        /\ \A i \in 1..K : temp_xml'[i] = temp_xml[i]
    BY <1>2, <2>1, <2>2 DEF Recorded
  <2> HIDE DEF K
  <2> DEFINE M == [i \in 1..(K + 1) |-> IF i = K + 1 THEN n ELSE N[i]]
             G == [i \in 1..(K + 1) |-> IF i = K + 1 THEN fo ELSE F[i]]
  <2>4. M \in [1..(K + 1) -> Name] /\ G \in [1..(K + 1) -> Object]
    BY <2>1, <2>3
  <2>5. /\ M[K + 1] = n /\ G[K + 1] = fo
        /\ \A i \in 1..K : M[i] = N[i] /\ G[i] = F[i]
    BY <2>3
  <2> HIDE DEF M, G
  <2>6. Recorded(temp_xml', M, G)
    <3>1. \A i \in 1..(K + 1) : i = K + 1 \/ i \in 1..K
      BY <2>3
    <3>2. \A i \in 1..K : temp_xml[i] = Record(N[i], F[i])
      BY <2>1 DEF Recorded, K
    <3>3. \A i \in 1..(K + 1) : temp_xml'[i] = Record(M[i], G[i])
      BY <2>3, <2>5, <3>1, <3>2
    <3> QED BY <2>3, <3>3 DEF Recorded
  <2> QED BY <2>3, <2>4, <2>6 DEF DownloadsAreRecorded
<1> QED BY <1>4, <1>5, <1>6 DEF IInv

LEMMA SaveKeepsIInv ==
  ASSUME IInv, SaveLocalList
  PROVE  IInv'
<1> USE DEF SaveLocalList
<1>1. FilesTyped'
  BY DEF IInv, FilesTyped
<1>2. SavedIsWritten'
  BY DEF SavedIsWritten
<1>3. DownloadsAreRecorded'
  BY NothingRecorded DEF DownloadsAreRecorded
<1> QED BY <1>1, <1>2, <1>3 DEF IInv

LEMMA CrashKeepsIInv ==
  ASSUME IInv, Crash
  PROVE  IInv'
<1> USE DEF Crash
<1>1. FilesTyped'
  BY EmptyIsListed DEF IInv, FilesTyped
<1>2. SavedIsWritten'
  BY DEF IInv, SavedIsWritten
<1>3. DownloadsAreRecorded'
  BY NothingRecorded DEF DownloadsAreRecorded
<1> QED BY <1>1, <1>2, <1>3 DEF IInv

LEMMA NextIInv == IInv /\ [Next]_vars => IInv'
<1> SUFFICES ASSUME IInv, [Next]_vars PROVE IInv'
  OBVIOUS
<1>1. Listed(list)
  BY DEF IInv, FilesTyped
<1>2. ASSUME NEW n \in Name, NEW fo \in Object, AddFile(n, fo) PROVE IInv'
  <2>1. Listed(Added(list, n, fo))
    BY <1>1, AddedFile, NameAssumption, ObjectAssumption
  <2> QED BY <1>2, <2>1, EditKeepsIInv DEF AddFile
<1>3. ASSUME NEW n \in DOMAIN list.files, RemoveFile(n) PROVE IInv'
  <2>1. Listed(Removed(list, n))
    BY <1>1, RemovedFile
  <2> QED BY <1>3, <2>1, EditKeepsIInv DEF RemoveFile
<1>4. CASE Clear
  <2> DEFINE l == [list EXCEPT !.files = <<>>]
  <2>1. l = [name |-> list.name, files |-> <<>>] /\ list.name \in Dir
    BY <1>1 DEF Listed, IsList
  <2>2. Listed(l)
    BY <2>1, ClearedIsListed
  <2> HIDE DEF l
  <2> QED BY <1>4, <2>2, EditKeepsIInv DEF Clear, l
<1>5. ASSUME NEW dir \in Dir, SetName(dir) PROVE IInv'
  BY <1>1, <1>5, RenamedIsListed, EditKeepsIInv DEF SetName
<1>6. CASE GetLocalList
  <2>1. PICK l \in ParseFiles(wfut_xml.doc, list) : Edit(l)
    BY <1>6 DEF GetLocalList
  <2>2. wfut_xml.doc = WriteFileList(saved) /\ Listed(saved)
    BY DEF IInv, FilesTyped, SavedIsWritten
  <2>3. wfut_xml.doc \in Document /\ ~ReadsNull(wfut_xml.doc)
    BY <2>2, Written
  <2>4. Listed(l)
    BY <1>1, <2>1, <2>3, ParsedIsListed
  <2> QED BY <2>1, <2>4, EditKeepsIInv
<1>7. ASSUME NEW doc \in ServerDocs, GetFileList(doc) PROVE IInv'
  <2>1. PICK l \in ParseFiles(doc, list) : Edit(l)
    BY <1>7 DEF GetFileList
  <2>2. Listed(l)
    BY <1>1, <1>7, <2>1, ParsedIsListed, DocsAssumption DEF GetFileList
  <2> QED BY <2>1, <2>2, EditKeepsIInv
<1>8. CASE UNCHANGED vars
  <2>1. FilesTyped'
    BY <1>8 DEF IInv, FilesTyped, vars
  <2>2. SavedIsWritten'
    BY <1>8 DEF IInv, SavedIsWritten, vars
  <2>3. DownloadsAreRecorded'
    BY <1>8 DEF IInv, DownloadsAreRecorded, vars
  <2> QED BY <2>1, <2>2, <2>3 DEF IInv
<1>9. CASE Crash \/ \E doc \in ServerDocs : GetFileListCrashes(doc)
  BY <1>9, CrashKeepsIInv DEF GetFileListCrashes
<1> QED
  BY <1>2, <1>3, <1>4, <1>5, <1>6, <1>7, <1>8, <1>9, DownloadKeepsIInv, SaveKeepsIInv DEF Next

\* saveLocalList, recordUpdate and main (wfut.cpp): wfut.xml has the list last saved
\* and tempwfut.xml the records of downloads since then.
THEOREM Invariance == Spec => []IInv
  BY InitIInv, NextIInv, PTL DEF Spec

-----------------------------------------------------------------------------
(* What follows from it.                                                   *)

\* What was printed to tempwfut.xml has no markup in its names.
LEMMA RecordedSafely ==
  ASSUME NEW t, NEW N \in [1..Len(t) -> Name], NEW F \in [1..Len(t) -> Object],
         Recorded(t, N, F), NEW i \in 1..Len(t)
  PROVE  ToSet(t[i].filename) \cap Markup = {}
<1>1. N[i] \in Seq(Byte) /\ F[i] \in FileObject
  BY NameAssumption, ObjectAssumption
<1>2. t[i] = Record(N[i], F[i])
  BY DEF Recorded
<1>3. t[i].filename = EncodeString(N[i])
  BY <1>1, <1>2, WrittenElement DEF Says
<1> QED BY <1>1, <1>3, EncodedHasNoMarkup

LEMMA IInvTypeOK == IInv => TypeOK
<1> SUFFICES ASSUME IInv PROVE TypeOK
  OBVIOUS
<1>1. IsList(list) /\ IsList(saved) /\ wfut_xml.exists \in BOOLEAN
  BY DEF IInv, FilesTyped, Listed
<1>2. WriteFileList(saved) \in Document
  BY Written DEF IInv, FilesTyped
<1>3. wfut_xml = [exists |-> wfut_xml.exists, doc |-> WriteFileList(saved)]
  BY DEF IInv, SavedIsWritten
<1>4. wfut_xml \in [exists : BOOLEAN, doc : Document]
  BY <1>1, <1>2, <1>3
<1>5. temp_xml \in Seq(Element)
  BY DEF IInv, DownloadsAreRecorded, Recorded
<1> QED BY <1>1, <1>4, <1>5 DEF TypeOK

LEMMA IInvSavedIsReloaded == IInv => SavedIsReloaded
<1> SUFFICES ASSUME IInv, InAscii(saved), NEW l \in ParseFiles(wfut_xml.doc, EmptyList)
             PROVE  SameFiles(l, saved)
  BY DEF SavedIsReloaded
<1>1. wfut_xml.doc = WriteFileList(saved) /\ Listed(saved)
  BY DEF IInv, FilesTyped, SavedIsWritten
<1> QED BY <1>1, WrittenReadBack

LEMMA IInvPrintedSafely == IInv => PrintedSafely
<1> SUFFICES ASSUME IInv, NEW i \in DOMAIN temp_xml
             PROVE  ToSet(temp_xml[i].filename) \cap Markup = {}
  BY DEF PrintedSafely
<1>1. PICK N \in [1..Len(temp_xml) -> Name], F \in [1..Len(temp_xml) -> Object] :
        Recorded(temp_xml, N, F)
  BY DEF IInv, DownloadsAreRecorded
<1>2. DOMAIN temp_xml = 1..Len(temp_xml)
  BY <1>1 DEF Recorded
<1> QED BY <1>1, <1>2, RecordedSafely

-----------------------------------------------------------------------------
(* The theorems.                                                           *)

\* Every variable of ListFiles always holds a value of its type: no document a server
\* sends and no order of the application's calls makes a list something else.
THEOREM TypeCorrect == Spec => []TypeOK
  BY Invariance, IInvTypeOK, PTL

\* writeFileList and parseFileList: however the list came about, if its names are in
\* ASCII the next run reads from wfut.xml what was saved.
THEOREM SavedListIsReloaded == Spec => []SavedIsReloaded
  BY Invariance, IInvSavedIsReloaded, PTL

\* recordUpdate prints no name, in ASCII or not, as markup.
THEOREM RecordsArePrintedSafely == Spec => []PrintedSafely
  BY Invariance, IInvPrintedSafely, PTL

\* encodeURL: the server finds each of the files, if its name is in ASCII and without a
\* question mark, under its url.
THEOREM UrlsNameTheFiles == Spec => []UrlsNameFiles
<1>1. IInv => UrlsNameFiles
  BY AsciiServed DEF UrlsNameFiles
<1> QED BY <1>1, Invariance, PTL
====
