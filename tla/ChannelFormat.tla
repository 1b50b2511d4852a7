---------------------------- MODULE ChannelFormat ----------------------------
(***************************************************************************)
(* The lists of mirrors and of channels: what MirrorParser.cpp and         *)
(* ChannelParser.cpp read in a document and ChannelWriter.cpp writes.      *)
(*                                                                         *)
(* An element has a tag, a name attribute and, for each tag of a child,    *)
(* the text of the first child with that tag; both are NoText if there is  *)
(* none.                                                                   *)
(***************************************************************************)
EXTENDS Documents

CONSTANTS
  Text,         \* the texts of names, urls and so on
  Condense      \* TinyXML's reading of a text: its white space is condensed

NoText == "no text"

ASSUME TextAssumption ==
  /\ Condense \in [Text -> Text]
  /\ "" \in Text /\ NoText \notin Text
  /\ \A t \in Text : Condense[Condense[t]] = Condense[t]
  /\ Condense[""] = ""

Fields == {"name", "description", "url", "email", "logo"}

Entry == [tag : {"mirror", "channel", "other"}, name : Text \cup {NoText},
          children : [Fields -> Text \cup {NoText}]]

MirrorObject == [name : Text, url : Text]

ChannelObject == [Fields -> Text]

\* An empty text has no node, and a missing one leaves the field as it was: empty.
Value(text) == IF text \in {NoText, ""} THEN "" ELSE Condense[text]

ParseMirror(e) == [name |-> Value(e.children["name"]), url |-> Value(e.children["url"])]

\* The name is looked for in an attribute, which is not condensed.
ParseChannel(e) ==
  [f \in Fields |->
     IF f = "name" THEN (IF e.name = NoText THEN "" ELSE e.name) ELSE Value(e.children[f])]

ParseMirrors(entries, mirrors) ==
  LET items == Items(entries, "mirror")
  IN  mirrors \o [i \in DOMAIN items |-> ParseMirror(items[i])]

ParseChannels(entries, channels) ==
  LET items == Items(entries, "channel")
  IN  channels \o [i \in DOMAIN items |-> ParseChannel(items[i])]

WriteChannelWithoutLogo(channel) ==
  [tag |-> "channel", name |-> NoText, children |-> [channel EXCEPT !["logo"] = NoText]]

\* The name is written as a child.
WriteChannel(channel) == [tag |-> "channel", name |-> NoText, children |-> channel]

WriteChannelList(channels) == [i \in DOMAIN channels |-> WriteChannel(channels[i])]
====
