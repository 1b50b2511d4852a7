------------------------------ MODULE MCClient ------------------------------
(* Values for the constants of Client. *)
EXTENDS Client

Plain  == <<97, 43, 98>>          \* a+b, which a url takes as it is
Spaced == <<97, 32, 98>>          \* "a b"
Taken  == <<97, 37, 50, 48, 98>>  \* a%20b, as "a b" is in a url

UpdateOf(n, deleted) == [name |-> n, crc32 |-> 1, deleted |-> deleted]

Updates ==
  {UpdateOf(Plain, FALSE), UpdateOf(Spaced, FALSE), UpdateOf(Taken, FALSE), UpdateOf(<<97>>, TRUE)}

Texts == {"", " ", "x", " x"}

Condensed == [t \in Texts |-> IF t \in {"x", " x"} THEN "x" ELSE ""]

Having(tag, name, fields) ==
  [tag |-> tag, name |-> name,
   children |-> [f \in Fields |-> IF f \in DOMAIN fields THEN fields[f] ELSE NoText]]

\* A sibling that is not a mirror stands between two that are.
Mirrors ==
  {[elements |-> <<Having("mirror", NoText, [name |-> "x", url |-> " x"]),
                   Having("other", NoText, <<>>),
                   Having("mirror", NoText, [url |-> "x"])>>]}

Channels ==
  {[elements |-> <<Having("other", "x", <<>>),
                   Having("channel", " x", [name |-> "x", description |-> " x", url |-> "",
                                            logo |-> "x"])>>]}

File(tag, filename, version) ==
  [tag |-> tag, filename |-> filename, version |-> version, crc32 |-> 1, size |-> 1,
   execute |-> "true", deleted |-> "absent"]

\* One document has a sibling that is not a file between two that are, and the same
\* name twice; the other has no dir and says one of the files anew.
Files ==
  {[dir |-> "c", elements |-> <<File("file", <<97, 43, 98>>, 1), File("other", <<98>>, 2),
                                File("file", <<97, 37, 50, 48, 98>>, 2)>>],
   [dir |-> NoDir, elements |-> <<File("other", <<97>>, 0), File("file", <<98>>, Junk)>>]}
====
