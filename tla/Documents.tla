------------------------------ MODULE Documents ------------------------------
(* How the parsers of libwfut walk through what TinyXML has read. *)
EXTENDS SequencesExt

ItemsUntilForeign(elements, tag) ==
  LET first   == SelectInSeq(elements, LAMBDA e : e.tag = tag)
      foreign == SelectInSubSeq(elements, first, Len(elements), LAMBDA e : e.tag # tag)
  IN  IF first = 0 THEN <<>>
      ELSE SubSeq(elements, first, IF foreign = 0 THEN Len(elements) ELSE foreign - 1)

\* The first child with this tag, by FirstChildElement, and then every sibling, whatever
\* its tag, by NextSiblingElement.
Items(elements, tag) ==
  LET first == SelectInSeq(elements, LAMBDA e : e.tag = tag)
  IN  IF first = 0 THEN <<>> ELSE SubSeq(elements, first, Len(elements))
====
