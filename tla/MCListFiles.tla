---------------------------- MODULE MCListFiles ----------------------------
(* Values for the constants of ListFiles. *)
EXTENDS ListFiles

Spaced == <<97, 32, 98>>                                     \* a b
Marked == <<60, 38, 34, 62, 39, 43, 37, 50, 48, 47, 127>>    \* <&">'+%20/ and a control
Eacute == <<195, 169>>                                       \* an accented e in UTF-8

HardNames == {Spaced, Marked}

ForeignName == {Eacute}

Old == [version |-> 1, crc32 |-> 1, size |-> 1, execute |-> FALSE, deleted |-> FALSE]
New == [version |-> 2, crc32 |-> 2, size |-> 2, execute |-> TRUE, deleted |-> TRUE]

Versions == {Old, New}

Written(name, v, tag) ==
  [tag |-> tag, filename |-> name, version |-> v, crc32 |-> 2, size |-> 2,
   execute |-> "true", deleted |-> "true"]

\* One name escaped in two ways; a name that is not in ASCII; a malformed escape; a
\* version that is not a number; siblings of other names; a missing attribute.
Docs ==
  {[dir |-> "c", elements |-> <<Written(<<97, 43, 98>>, 0, "file"),
                                Written(<<97, 37, 50, 48, 98>>, 2, "file")>>],
   [dir |-> NoDir, elements |-> <<Written(<<37, 67, 51>>, 2, "file")>>],
   [dir |-> NoDir, elements |-> <<Written(<<97, 37, 122, 120, 98>>, 2, "file")>>],
   [dir |-> NoDir, elements |-> <<Written(<<97>>, Absent, "other"),
                                  Written(EncodeString(Marked), 2, "file"),
                                  Written(EncodeString(Spaced), Junk, "other")>>],
   [dir |-> NoDir, elements |-> <<Written(<<97>>, Absent, "file")>>]}
====
