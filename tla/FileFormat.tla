------------------------------ MODULE FileFormat ------------------------------
(***************************************************************************)
(* ChannelFileList, and the documents it is written to and read from: by   *)
(* writeFileList (FileWriter.cpp) through TinyXML, by recordUpdate         *)
(* (wfut.cpp), which prints an element for a download, and by the parsers  *)
(* of FileParser.cpp.                                                      *)
(*                                                                         *)
(* A document has a dir attribute and elements with attributes.  Numbers   *)
(* are printed and read with the same width and are taken as they are.     *)
(***************************************************************************)
EXTENDS Encoder, Documents, FiniteSets, TLC

CONSTANT Dir  \* the names of channels, "" for one without

Number == 0..2
Absent == -1   \* an attribute that is not there
Junk   == -2   \* an attribute that sscanf cannot read as a number

FileObject == [version : Number, crc32 : Number, size : Number,
               execute : BOOLEAN, deleted : BOOLEAN]

Attribute == Number \cup {Absent, Junk}
Flag      == {"absent", "true", "false", "1", "0"}

Element == [tag : {"file", "other"}, filename : Seq(Byte), version : Attribute,
            crc32 : Attribute, size : Attribute, execute : Flag, deleted : Flag]

NoDir == "no dir"

ASSUME DirAssumption == "" \in Dir /\ NoDir \notin Dir

Document == [dir : Dir \cup {NoDir}, elements : Seq(Element)]

-----------------------------------------------------------------------------
(* The list.                                                               *)

EmptyList == [name |-> "", files |-> <<>>]

\* The map f with v under k, in the place of what was there.
Put(f, k, v) == [x \in DOMAIN f \cup {k} |-> IF x = k THEN v ELSE f[x]]

Added(l, n, fo) == [l EXCEPT !.files = Put(@, n, fo)]

Removed(l, n) == [l EXCEPT !.files = [m \in DOMAIN @ \ {n} |-> @[m]]]

(* Writing.                                                                *)

\* TinyXML prints a bool as an int; deleted is not written.
WriteFile(n, fo) ==
  [tag |-> "file", filename |-> EncodeString(n), version |-> fo.version,
   crc32 |-> fo.crc32, size |-> fo.size,
   execute |-> IF fo.execute THEN "1" ELSE "0", deleted |-> "absent"]

\* In some order: the names of a list differ, and so the order makes no difference
\* to a reader, as long as what they are encoded to differs too.
WriteFileList(l) ==
  LET names == SetToSeq(DOMAIN l.files)
  IN  [dir |-> l.name,
       elements |-> [i \in DOMAIN names |-> WriteFile(names[i], l.files[names[i]])]]

Record(n, fo) ==
  [WriteFile(n, fo) EXCEPT !.execute = IF fo.execute THEN "true" ELSE "false"]

(* Reading.                                                                *)

ReadUnchecked(a) == {a}

\* What sscanf may leave in an uninitialised number.
Read(a) == IF a = Junk THEN Number ELSE {a}

ParseFile(e) ==
  {[version |-> v, crc32 |-> c, size |-> s,
    execute |-> e.execute = "true", deleted |-> e.deleted = "true"] :
     v \in Read(e.version), c \in Read(e.crc32), s \in Read(e.size)}

\* sscanf is given the null pointer for an attribute that is not there.
ReadsNull(doc) ==
  \E e \in ToSet(Items(doc.elements, "file")) :
    Absent \in {e.version, e.crc32, e.size}

\* The lists that l may be after a document without a missing attribute was parsed
\* into it.
ParseFiles(doc, l) ==
  LET items == Items(doc.elements, "file")
      named == IF doc.dir = NoDir THEN l ELSE [l EXCEPT !.name = doc.dir]
      parsed[i \in 0..Len(items)] ==
        IF i = 0 THEN {named}
        ELSE {Added(m, n, fo) : m \in parsed[i - 1],
                                n \in DecodeString(items[i].filename),
                                fo \in ParseFile(items[i])}
  IN  parsed[Len(items)]

-----------------------------------------------------------------------------
(* What is a list, and what two lists agree in.                            *)

IsList(l) ==
  /\ l.name \in Dir
  /\ DOMAIN l.files \subseteq Seq(Byte)
  /\ \A n \in DOMAIN l.files : l.files[n] \in FileObject

InAscii(l) == \A n \in DOMAIN l.files : n \in Seq(Ascii)

\* The flags are not compared: execute is written as a number and read as a word, and
\* deleted is not written.
SameFiles(l, m) ==
  /\ l.name = m.name
  /\ DOMAIN l.files = DOMAIN m.files
  /\ \A n \in DOMAIN l.files, a \in {"version", "crc32", "size"} : l.files[n][a] = m.files[n][a]
====
