------------------------------ MODULE ListFiles ------------------------------
(***************************************************************************)
(* An application's ChannelFileList and the two files it is kept in:       *)
(* wfut.xml, which saveLocalList writes, and tempwfut.xml, to which each   *)
(* completed download is printed.                                          *)
(***************************************************************************)
EXTENDS FileFormat

CONSTANTS
  Name,        \* the filenames the application uses
  Object,      \* the values of a FileObject, but for its name
  ServerDocs,  \* the documents servers send
  MaxFiles,    \* bound on the files of the list
  MaxLines     \* bound on the lines of tempwfut.xml

ASSUME NameAssumption == Name \subseteq Seq(Byte)

ASSUME ObjectAssumption == Object \subseteq FileObject

ASSUME DocsAssumption == ServerDocs \subseteq Document

VARIABLES
  list,       \* the ChannelFileList: its name and its files
  wfut_xml,   \* the document in wfut.xml, and whether there is one
  temp_xml,   \* the elements printed to tempwfut.xml
  saved       \* history: the list last written to wfut.xml

vars == <<list, wfut_xml, temp_xml, saved>>

-----------------------------------------------------------------------------
(* What an application does with its list.                                 *)

Init ==
  /\ list = EmptyList
  /\ wfut_xml = [exists |-> FALSE, doc |-> WriteFileList(EmptyList)]
  /\ temp_xml = <<>>
  /\ saved = EmptyList

Becomes(l) ==
  /\ Cardinality(DOMAIN l.files) <= MaxFiles
  /\ list' = l

Edit(l) ==
  /\ Becomes(l)
  /\ UNCHANGED <<wfut_xml, temp_xml, saved>>

AddFile(n, fo) == Edit(Added(list, n, fo))

RemoveFile(n) == n \in DOMAIN list.files /\ Edit(Removed(list, n))

Clear == Edit([list EXCEPT !.files = <<>>])

SetName(dir) == Edit([list EXCEPT !.name = dir])

\* onDownloadComplete: the file is added to the list and recorded.
DownloadComplete(n, fo) ==
  /\ Len(temp_xml) < MaxLines
  /\ Becomes(Added(list, n, fo))
  /\ temp_xml' = Append(temp_xml, Record(n, fo))
  /\ UNCHANGED <<wfut_xml, saved>>

\* saveLocalList, after which tempwfut.xml is removed.  How it may fail is a matter of
\* UpdateTool.
SaveLocalList ==
  /\ wfut_xml' = [exists |-> TRUE, doc |-> WriteFileList(list)]
  /\ temp_xml' = <<>>
  /\ saved' = list
  /\ UNCHANGED list

\* getLocalList, which adds to what is on the list.
GetLocalList ==
  /\ wfut_xml.exists
  /\ \E l \in ParseFiles(wfut_xml.doc, list) : Edit(l)

\* getFileList.
GetFileList(doc) ==
  /\ ~ReadsNull(doc)
  /\ \E l \in ParseFiles(doc, list) : Edit(l)

\* The process dies and starts again.  A run that finds a tempwfut.xml cannot parse it and
\* ends, so the next that has a list finds it removed (UpdateTool).
Crash ==
  /\ list' = EmptyList
  /\ temp_xml' = <<>>
  /\ UNCHANGED <<wfut_xml, saved>>

GetFileListCrashes(doc) == ReadsNull(doc) /\ Crash

Next ==
  \/ \E n \in Name, fo \in Object : AddFile(n, fo) \/ DownloadComplete(n, fo)
  \/ \E n \in DOMAIN list.files : RemoveFile(n)
  \/ Clear
  \/ \E dir \in Dir : SetName(dir)
  \/ SaveLocalList
  \/ GetLocalList
  \/ Crash
  \/ \E doc \in ServerDocs : GetFileList(doc) \/ GetFileListCrashes(doc)

Spec == Init /\ [][Next]_vars

-----------------------------------------------------------------------------
(* Safety.                                                                 *)

\* Every variable holds a value of its type.
TypeOK ==
  /\ IsList(list) /\ IsList(saved)
  /\ wfut_xml \in [exists : BOOLEAN, doc : Document]
  /\ temp_xml \in Seq(Element)

\* writeFileList and parseFileList: a list whose names are in ASCII is read back from
\* wfut.xml with its name and with each file under its own name.
SavedIsReloaded ==
  wfut_xml.exists /\ InAscii(saved) =>
    \A l \in ParseFiles(wfut_xml.doc, EmptyList) : SameFiles(l, saved)

\* "So that is can safely be stored in an XML/HTML document" (Encoder.h): recordUpdate
\* prints names without TinyXML, so that nothing else keeps a name from being markup.
PrintedSafely ==
  \A i \in DOMAIN temp_xml : ToSet(temp_xml[i].filename) \cap Markup = {}

\* Each file is asked for by a url of its own: the server finds under the url that
\* encodeURL makes of a name in ASCII the file of that name, unless it has a question mark.
UrlsNameFiles ==
  \A n \in DOMAIN list.files :
    n \in Seq(Ascii \ {Question}) => ServerDecodes(EncodeURL(n)) = n

\* "Dencode the input string from an XML encoded string back to it's original form"
\* (Encoder.h).
DecodeUndoesEncode == \A n \in DOMAIN list.files : DecodeString(EncodeString(n)) = {n}
====
