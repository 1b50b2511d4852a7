--------------------------- MODULE MCDownloadQueue ---------------------------
(* Values for the constants of DownloadQueue. *)
EXTENDS DownloadQueue, TLC

\* Two urls without a character to encode (0 and 1) and a filename (2).
PlainStr == {0, 1, 2}

PlainURL == [s \in PlainStr |-> s]

PlainRequest ==
  {[filename |-> 2, url |-> 0, expected |-> 1, executable |-> TRUE],
   [filename |-> 2, url |-> 1, expected |-> 0, executable |-> FALSE]}

\* Three such urls, and three files.
ManyStr == {0, 1, 2, 3}

ManyURL == [s \in ManyStr |-> s]

ManyRequest ==
  {[filename |-> 3, url |-> u, expected |-> 1, executable |-> FALSE] : u \in {0, 1, 2}}

\* "a b" (0), "a%20b" (1), "a%2520b" (2): each is what the one before encodes to.
\* The last one is never requested, so that what it encodes to does not matter.
SpaceStr == {0, 1, 2}

SpaceURL == [s \in SpaceStr |-> IF s = 2 THEN 2 ELSE s + 1]

SpaceRequest ==
  {[filename |-> s, url |-> s, expected |-> 1, executable |-> FALSE] : s \in {0, 1}}

\* crc32 values: of the empty file, and of one other file.
TwoCrc == {0, 1}

Symmetry == Permutations(Transfer)
====
