----------------------------- MODULE ClientProofs -----------------------------
(***************************************************************************)
(* What Client says of the blocking calls for all documents, texts,        *)
(* directories and updates: a call that has returned has leaked nothing,   *)
(* one that failed has changed nothing, and had a reason, one that         *)
(* succeeded has done all it had to, the channels that were read can be    *)
(* written and read again, and what was asked for is queued.               *)
(***************************************************************************)
EXTENDS Client, ChannelFormatProofs, FileFormatProofs

-----------------------------------------------------------------------------
(* The inductive invariant.                                                *)

AnyDoc == UNION {Docs(kind) : kind \in Kinds}

CallRecord ==
  [op : Kinds \cup {"none", "download"},
   at : {"idle", "performing", "performed", "making", "missing", "closing"},
   doc : AnyDoc, size : Nat, got : Nat, failed : BOOLEAN, fp : BOOLEAN, dir : 1..(Depth + 1)]

\* A call is somewhere on its way, and a list is not copied to a target.
OnItsWay ==
  /\ call \in CallRecord
  /\ call.op = "none" <=> Idle
  /\ call.at = "idle" <=> Idle
  /\ call.op \in Kinds => call.at \in {"performing", "performed"}
  /\ call.op \in Kinds => call.doc \in Docs(call.op)

\* What a call holds is what the counters count.
Held ==
  /\ easy = IF Idle THEN 0 ELSE 1
  /\ tmpfiles = IF call.fp THEN 1 ELSE 0
  /\ call.op \in Kinds => call.fp

\* What may be at a directory above a target.
Things == {"none", "file"} \cup Directories

\* The lists have the types that their parsers give them.
ListsKept ==
  /\ lists = [kind \in Kinds |-> lists[kind]]
  /\ lists["mirrors"] \in Seq(MirrorObject)
  /\ lists["channels"] \in Seq(Clean)
  /\ Listed(lists["files"])

\* The target is as it was until the copy is made, and the lists until the call returns.
Unchanged ==
  /\ ~Idle => lists = before.lists
  /\ ~Idle /\ (call.at # "closing" \/ call.failed) => target = before.target

\* Unless something has failed, the directories that were found or made are there; one
\* that was missing and is there now could not be opened or was made since; and a call
\* that has failed had a reason.
PathMade ==
  /\ path \in [1..Depth -> Things]
  /\ call.at \in {"making", "missing"} => ~call.failed
  /\ call.at = "missing" => call.dir \in 1..Depth
  /\ "failure" \notin trouble /\ call.at \in {"making", "missing"} =>
       \A d \in 1..Depth : d < call.dir => path[d] = "dir"
  /\ call.at = "missing" /\ path[call.dir] = "dir" => trouble \cap Reasons # {}
  /\ call.failed => trouble \cap Reasons # {}

\* What was copied without a short write is the body.
Copied ==
  /\ ~Idle => before.op = call.op /\ before.doc = call.doc
  /\ call.at = "closing" /\ ~call.failed /\ "short write" \notin trouble => target = "body"

CInv ==
  /\ OnItsWay /\ Held /\ ListsKept /\ Unchanged /\ PathMade /\ Copied
  /\ FailureChangesNothing /\ FailsForAReason /\ SuccessIsComplete

-----------------------------------------------------------------------------
(* The documents and the lists.                                            *)

LEMMA MalformedDoc == \A kind \in Kinds : Malformed \in Docs(kind)
  BY DEF Docs

LEMMA NoCallRecord ==
  /\ NoCall \in CallRecord
  /\ NoCall.op = "none" /\ NoCall.at = "idle"
  /\ NoCall.failed = FALSE /\ NoCall.fp = FALSE
<1>1. Malformed \in AnyDoc
  BY MalformedDoc DEF AnyDoc, Kinds
<1> QED
  BY <1>1, DepthAssumption DEF NoCall, CallRecord

LEMMA DocElements ==
  ASSUME NEW kind \in {"mirrors", "channels"}, NEW doc \in Docs(kind), doc # Malformed
  PROVE  doc[1].elements \in Seq(Entry)
<1>1. PICK d \in MirrorDocs \cup ChannelDocs : doc = <<d>>
  BY DEF Docs
<1>2. d.elements \in Seq(Entry)
  BY ClientDocsAssumption
<1> QED
  BY <1>1, <1>2

LEMMA DocFiles ==
  ASSUME NEW doc \in Docs("files"), doc # Malformed
  PROVE  doc[1] \in Document /\ ~ReadsNull(doc[1])
<1>1. PICK d \in FileDocs : doc = <<d>>
  BY DEF Docs
<1>2. d \in Document /\ ~ReadsNull(d)
  BY ClientDocsAssumption
<1> QED
  BY <1>1, <1>2

LEMMA InitC == Init => CInv
<1> SUFFICES ASSUME Init PROVE CInv
  OBVIOUS
<1> USE DEF Init
<1>1. OnItsWay /\ Held
  BY NoCallRecord DEF OnItsWay, Held, Idle, Kinds
<1>2. ListsKept
  BY EmptyIsListed DEF ListsKept, NoLists, Kinds
<1>3. Unchanged /\ Copied
  BY NoCallRecord DEF Unchanged, Copied, Idle
<1>4. PathMade
  BY NoCallRecord DEF PathMade, Things
<1>5. FailureChangesNothing /\ FailsForAReason /\ SuccessIsComplete
  BY DEF FailureChangesNothing, FailsForAReason, SuccessIsComplete, Failures
<1> QED
  BY <1>1, <1>2, <1>3, <1>4, <1>5 DEF CInv

-----------------------------------------------------------------------------
(* Steps in which no call is in progress.                                  *)

LEMMA QuietC ==
  ASSUME CInv, UNCHANGED <<callVars, lists, diskVars, pastVars>>
  PROVE  CInv'
<1> USE DEF callVars, diskVars, pastVars
<1>1. OnItsWay' /\ Held' /\ ListsKept' /\ Unchanged' /\ PathMade' /\ Copied'
  BY DEF CInv, OnItsWay, Held, ListsKept, Unchanged, PathMade, Copied, Idle
<1>2. FailureChangesNothing' /\ FailsForAReason' /\ SuccessIsComplete'
  <2>1. UNCHANGED AllRead
    BY DEF AllRead
  <2> QED
    BY <2>1 DEF CInv, FailureChangesNothing, FailsForAReason, SuccessIsComplete, Idle
<1> QED
  BY <1>1, <1>2 DEF CInv

LEMMA GetListFailsC ==
  ASSUME CInv, NEW kind \in Kinds, GetListFails(kind)
  PROVE  CInv'
<1> USE DEF GetListFails, callVars, diskVars
<1>1. OnItsWay' /\ Held' /\ ListsKept' /\ Unchanged'
  BY DEF CInv, OnItsWay, Held, ListsKept, Unchanged, Idle
<1>2. PathMade'
  BY NoCallRecord DEF CInv, PathMade, Idle
<1>3. Copied'
  BY NoCallRecord DEF CInv, Copied, Idle
<1>4. FailureChangesNothing'
  BY DEF FailureChangesNothing
<1>5. FailsForAReason' /\ SuccessIsComplete'
  BY DEF FailsForAReason, SuccessIsComplete
<1> QED
  BY <1>1, <1>2, <1>3, <1>4, <1>5 DEF CInv

-----------------------------------------------------------------------------
(* A call begins.                                                          *)

LEMMA BeginsC ==
  ASSUME CInv, NEW op \in Kinds \cup {"download"}, NEW doc \in AnyDoc, NEW size \in Nat,
         op \in Kinds => doc \in Docs(op), NEW tmpfile \in BOOLEAN, Begins(op, doc, size, tmpfile)
  PROVE  /\ OnItsWay' /\ ListsKept' /\ Unchanged' /\ PathMade' /\ Copied' /\ ~Idle'
         /\ call'.op = op /\ call'.fp = tmpfile /\ easy' = 1 /\ tmpfiles = 0
<1> USE DEF Begins, diskVars
<1>1. /\ call' \in CallRecord
      /\ call'.op = op /\ call'.at = "performing" /\ call'.doc = doc
      /\ call'.fp = tmpfile /\ call'.failed = FALSE
  BY NoCallRecord DEF CallRecord
<1>2. op # "none"
  BY DEF Kinds
<1>3. call' # NoCall /\ ~Idle'
  BY <1>1, <1>2, NoCallRecord DEF Idle
<1>4. OnItsWay'
  BY <1>1, <1>2, <1>3 DEF OnItsWay, Idle
<1>5. ListsKept' /\ Unchanged'
  BY DEF CInv, ListsKept, Unchanged
<1>6. PathMade' /\ Copied'
  BY <1>1 DEF CInv, PathMade, Copied
<1>7. easy' = 1 /\ tmpfiles = 0
  BY NoCallRecord DEF CInv, Held, Idle
<1> QED
  BY <1>1, <1>3, <1>4, <1>5, <1>6, <1>7

LEMMA NotIdleNext ==
  ASSUME OnItsWay', Held', ListsKept', Unchanged', PathMade', Copied', ~Idle'
  PROVE  CInv'
<1>1. FailureChangesNothing' /\ FailsForAReason' /\ SuccessIsComplete'
  BY DEF FailureChangesNothing, FailsForAReason, SuccessIsComplete
<1> QED
  BY <1>1 DEF CInv

LEMMA GetListC ==
  ASSUME CInv, NEW kind \in Kinds, NEW doc \in Docs(kind), NEW size \in Nat,
         GetList(kind, doc, size)
  PROVE  CInv'
<1>1. doc \in AnyDoc /\ TRUE \in BOOLEAN
  BY DEF AnyDoc
<1>2. /\ OnItsWay' /\ ListsKept' /\ Unchanged' /\ PathMade' /\ Copied' /\ ~Idle'
      /\ call'.op = kind /\ call'.fp = TRUE /\ easy' = 1 /\ tmpfiles = 0
  BY <1>1, BeginsC DEF GetList
<1>3. Held'
  BY <1>2 DEF Held, GetList
<1> QED
  BY <1>2, <1>3, NotIdleNext

LEMMA DownloadFileC ==
  ASSUME CInv, NEW size \in Nat, DownloadFile(size)
  PROVE  CInv'
<1>1. Malformed \in AnyDoc /\ "download" \notin Kinds
  BY MalformedDoc DEF AnyDoc, Kinds
<1>2. /\ OnItsWay' /\ ListsKept' /\ Unchanged' /\ PathMade' /\ Copied' /\ ~Idle'
      /\ call'.op = "download" /\ call'.fp = FALSE /\ easy' = 1 /\ tmpfiles = 0
  BY <1>1, BeginsC DEF DownloadFile
<1>3. Held'
  BY <1>1, <1>2 DEF Held, DownloadFile
<1> QED
  BY <1>2, <1>3, NotIdleNext

-----------------------------------------------------------------------------
(* curl_easy_perform.                                                      *)

\* What a transfer may do to the call: it stays the same call, and fails for a reason.
LEMMA PerformC ==
  ASSUME CInv, call.at = "performing", CallStays,
         NEW at \in {"performing", "performed"}, NEW got \in Nat, NEW failed \in BOOLEAN,
         NEW fp \in BOOLEAN, call.fp => fp,
         call' = [call EXCEPT !.at = at, !.got = got, !.failed = failed, !.fp = fp],
         tmpfiles' = IF fp THEN 1 ELSE 0,
         trouble \subseteq trouble', failed => trouble' \cap Reasons # {}
  PROVE  CInv'
<1> USE DEF CallStays, diskVars
<1>1. call \in CallRecord /\ call.op # "none" /\ call.op \in Kinds \cup {"download"}
  BY NoCallRecord DEF CInv, OnItsWay, CallRecord, Idle
<1>2. /\ call' \in CallRecord
      /\ call'.op = call.op /\ call'.at = at /\ call'.doc = call.doc
      /\ call'.failed = failed /\ call'.fp = fp
  BY <1>1 DEF CallRecord
<1>3. ~Idle /\ ~Idle'
  BY <1>1, <1>2, NoCallRecord DEF Idle
<1>4. OnItsWay'
  BY <1>1, <1>2, <1>3 DEF CInv, OnItsWay
<1>5. Held'
  BY <1>1, <1>2, <1>3 DEF CInv, Held
<1>6. ListsKept' /\ Unchanged'
  BY <1>3 DEF CInv, ListsKept, Unchanged
<1>7. PathMade'
  BY <1>2 DEF CInv, PathMade
<1>8. Copied'
  BY <1>2, <1>3 DEF CInv, Copied
<1> QED
  BY <1>3, <1>4, <1>5, <1>6, <1>7, <1>8, NotIdleNext

LEMMA WriteDataC ==
  ASSUME CInv, WriteData
  PROVE  CInv'
<1> USE DEF WriteData
<1>1. call \in CallRecord /\ call.failed \in BOOLEAN /\ call.got + 1 \in Nat
  BY DEF CInv, OnItsWay, CallRecord
<1>2. call' = [call EXCEPT !.at = "performing", !.got = call.got + 1, !.failed = call.failed,
                           !.fp = TRUE]
  BY <1>1 DEF CallRecord
<1>3. tmpfiles' = IF TRUE THEN 1 ELSE 0
  BY DEF CInv, Held
<1>4. call.failed => trouble' \cap Reasons # {}
  BY DEF CInv, PathMade
<1> QED
  BY <1>1, <1>2, <1>3, <1>4, PerformC

LEMMA WriteDataFailsC ==
  ASSUME CInv, WriteDataFails
  PROVE  CInv'
<1> USE DEF WriteDataFails
<1>1. PICK made \in BOOLEAN :
        /\ call' = [call EXCEPT !.at = "performed", !.failed = TRUE, !.fp = @ \/ made]
        /\ tmpfiles' = IF made /\ ~call.fp THEN tmpfiles + 1 ELSE tmpfiles
  OBVIOUS
<1>2. call \in CallRecord /\ call.got \in Nat /\ call.fp \in BOOLEAN
  BY DEF CInv, OnItsWay, CallRecord
<1> DEFINE fp == call.fp \/ made
<1>3. call' = [call EXCEPT !.at = "performed", !.got = call.got, !.failed = TRUE, !.fp = fp]
  BY <1>1, <1>2 DEF CallRecord
<1>4. tmpfiles' = IF fp THEN 1 ELSE 0
  BY <1>1, <1>2 DEF CInv, Held
<1>5. fp \in BOOLEAN /\ (call.fp => fp)
  BY <1>2
<1>6. trouble \subseteq trouble' /\ trouble' \cap Reasons # {}
  BY DEF Reasons
<1> HIDE DEF fp
<1> QED
  BY <1>2, <1>3, <1>4, <1>5, <1>6, PerformC

LEMMA PerformEndsC ==
  ASSUME CInv, PerformEnds
  PROVE  CInv'
<1> USE DEF PerformEnds
<1>1. /\ call \in CallRecord /\ call.got \in Nat /\ call.failed \in BOOLEAN
      /\ call.fp \in BOOLEAN
  BY DEF CInv, OnItsWay, CallRecord
<1>2. tmpfiles' = IF call.fp THEN 1 ELSE 0
  BY DEF CInv, Held
<1>3. CASE call' = [call EXCEPT !.at = "performed"] /\ UNCHANGED trouble
  <2>1. call' = [call EXCEPT !.at = "performed", !.got = call.got, !.failed = call.failed,
                             !.fp = call.fp]
    BY <1>1, <1>3 DEF CallRecord
  <2>2. call.failed => trouble' \cap Reasons # {}
    BY <1>3 DEF CInv, PathMade
  <2> QED
    BY <1>1, <1>2, <1>3, <2>1, <2>2, PerformC
<1>4. CASE /\ call' = [call EXCEPT !.at = "performed", !.failed = TRUE]
           /\ trouble' = trouble \cup {"failure"}
  <2>1. call' = [call EXCEPT !.at = "performed", !.got = call.got, !.failed = TRUE,
                             !.fp = call.fp]
    BY <1>1, <1>4 DEF CallRecord
  <2>2. trouble' \cap Reasons # {}
    BY <1>4 DEF Reasons
  <2> QED
    BY <1>1, <1>2, <1>4, <2>1, <2>2, PerformC
<1> QED
  BY <1>3, <1>4

-----------------------------------------------------------------------------
(* A list ends.                                                            *)

\* A call that returns leaves what NoCall has.
LEMMA ReturnsC ==
  ASSUME call' = NoCall, tmpfiles' = 0, easy' = 0, ListsKept', UNCHANGED path, PathMade
  PROVE  OnItsWay' /\ Held' /\ Unchanged' /\ PathMade' /\ Copied' /\ Idle'
<1>1. Idle'
  BY DEF Idle
<1>2. "idle" \notin {"making", "missing", "closing"}
  OBVIOUS
<1>3. OnItsWay'
  BY <1>1, NoCallRecord DEF OnItsWay, Kinds
<1>4. Held'
  BY <1>1, NoCallRecord DEF Held, Kinds
<1>5. Unchanged' /\ Copied'
  BY <1>1, <1>2, NoCallRecord DEF Unchanged, Copied
<1>6. PathMade'
  BY <1>2, NoCallRecord DEF PathMade
<1> QED
  BY <1>1, <1>3, <1>4, <1>5, <1>6

\* What a list in progress holds.
LEMMA ListHolds ==
  ASSUME CInv, call.op \in Kinds
  PROVE  ~Idle /\ tmpfiles = 1 /\ easy = 1 /\ call.doc \in Docs(call.op)
         /\ lists = before.lists /\ target = before.target
         /\ before.op = call.op /\ before.doc = call.doc
<1>1. ~Idle
  BY NoCallRecord DEF Idle, Kinds
<1>2. call.at # "closing"
  BY DEF CInv, OnItsWay
<1> QED
  BY <1>1, <1>2 DEF CInv, Held, OnItsWay, Unchanged, Copied

LEMMA ListFailsC ==
  ASSUME CInv, ListFails
  PROVE  CInv'
<1> USE DEF ListFails, Returns, diskVars
<1>1. /\ ~Idle /\ tmpfiles = 1 /\ easy = 1
      /\ lists = before.lists /\ target = before.target
  BY ListHolds
<1>2. ListsKept'
  BY DEF CInv, ListsKept
<1>3. OnItsWay' /\ Held' /\ Unchanged' /\ PathMade' /\ Copied' /\ Idle'
  <2>1. tmpfiles' = 0 /\ easy' = 0
    <3>1. tmpfiles' = tmpfiles - 1 /\ easy' = easy - 1
      OBVIOUS
    <3> QED
      BY ONLY <1>1, <3>1
  <2>2. call' = NoCall /\ UNCHANGED path /\ PathMade
    BY DEF CInv
  <2> QED
    BY <1>2, <2>1, <2>2, ReturnsC
<1>4. FailureChangesNothing' /\ FailsForAReason' /\ SuccessIsComplete'
  BY <1>1 DEF FailureChangesNothing, FailsForAReason, SuccessIsComplete
<1> QED
  BY <1>2, <1>3, <1>4 DEF CInv

\* A list of files takes what a document says.
LEMMA FilesTaken ==
  ASSUME NEW doc \in Document, ~ReadsNull(doc), NEW l, Listed(l), NEW m \in ParseFiles(doc, l)
  PROVE  Takes(doc, l, m)
<1> DEFINE items == Files(doc)
           es    == doc.elements
           K     == Len(items)
           start == Named(doc, l)
           D(i)  == DecodeString(items[i].filename)
<1>1. es \in Seq(Element) /\ Len(es) \in Nat /\ DOMAIN es = 1..Len(es)
  BY DEF Document
<1>2. items \in Seq(Element) /\ K \in Nat
  BY <1>1, ItemsFrom DEF Files
<1>3. PICK p \in Nat :
        /\ \A i \in 1..K : p + i \in 1..Len(es) /\ items[i] = es[p + i]
        /\ \A j \in 1..Len(es) : es[j].tag = "file" => j - p \in 1..K
  <2> HIDE DEF es
  <2> QED
    BY <1>1, ItemsHave DEF Files, es
<1>4. PICK f : /\ f[0] = {start}
               /\ \A i \in 1..K : f[i] = AddedFrom(f[i - 1], items[i])
               /\ ParseFiles(doc, l) = f[K]
  <2> HIDE DEF items
  <2> QED BY <1>2, Parsing DEF items
<1>5. /\ Listed(start) /\ start.files = l.files
      /\ start.name = IF doc.dir = NoDir THEN l.name ELSE doc.dir
  <2>1. CASE doc.dir = NoDir
    BY <2>1 DEF Named
  <2>2. CASE doc.dir # NoDir
    <3>1. doc.dir \in Dir
      BY <2>2 DEF Document
    <3>2. start = [name |-> doc.dir, files |-> l.files]
      BY <2>2 DEF Named, Listed
    <3>3. start.name = doc.dir /\ start.files = l.files
      BY <3>2
    <3> QED BY <2>2, <3>1, <3>2, <3>3 DEF Listed, IsList
  <2> QED BY <2>1, <2>2
<1>6. \A i \in 1..K :
        /\ items[i] \in Element
        /\ \A n \in D(i), fo \in ParseFile(items[i]) : n \in Seq(Byte) /\ fo \in FileObject
  <2> SUFFICES ASSUME NEW i \in 1..K
               PROVE  /\ items[i] \in Element
                      /\ \A n \in D(i), fo \in ParseFile(items[i]) :
                           n \in Seq(Byte) /\ fo \in FileObject
    OBVIOUS
  <2>1. items[i] \in Element /\ items[i] \in ToSet(items)
    <3> HIDE DEF items
    <3>1. DOMAIN items = 1..K
      BY <1>2, LenProperties
    <3> QED BY <1>2, <3>1, ElementOfSeq DEF ToSet
  <2>2. Absent \notin {items[i].version, items[i].crc32, items[i].size}
    <3> HIDE DEF items
    <3> QED BY <2>1, Zenon DEF ReadsNull, Files, items
  <2>3. items[i].filename \in Seq(Byte)
    BY <2>1 DEF Element
  <2> HIDE DEF items
  <2> QED BY <2>1, <2>2, <2>3, FileRead, DecodedTyped
<1> HIDE DEF items, start, es, K
<1> DEFINE Unsaid(n, i, k) == \A j \in 1..k : j > i => n \notin D(j)
           Good(k, x) ==
             /\ Listed(x) /\ x.name = start.name
             /\ \A n \in DOMAIN l.files : Unsaid(n, 0, k) =>
                  n \in DOMAIN x.files /\ x.files[n] = l.files[n]
             /\ \A i \in 1..k : \E n \in D(i) \cap DOMAIN x.files :
                  Unsaid(n, i, k) => x.files[n] \in ParseFile(items[i])
           T == {k \in Nat : k <= K => \A x \in f[k] : Good(k, x)}
<1>7. ASSUME NEW k \in Nat, \A j \in Nat : j < k => j \in T PROVE k \in T
  <2>1. CASE k = 0
    <3>1. Good(0, start)
      BY <1>5
    <3> HIDE DEF Good
    <3> QED BY <1>4, <2>1, <3>1
  <2>2. CASE k # 0
    <3> SUFFICES ASSUME k <= K, NEW x \in f[k] PROVE Good(k, x)
      OBVIOUS
    <3>1. k - 1 \in Nat /\ k - 1 < k /\ k - 1 <= K /\ k \in 1..K
      BY <1>2, <2>2
    <3>2. \A y \in f[k - 1] : Good(k - 1, y)
      <4> HIDE DEF Good
      <4> QED BY <1>7, <3>1
    <3>3. f[k] = AddedFrom(f[k - 1], items[k])
      BY <1>4, <3>1
    <3>4. PICK y \in f[k - 1], n \in D(k), fo \in ParseFile(items[k]) : x = Added(y, n, fo)
      <4>1. x \in AddedFrom(f[k - 1], items[k])
        BY <3>3
      <4> HIDE DEF Good
      <4> QED BY <4>1, SMT DEF AddedFrom
    <3>5. n \in Seq(Byte) /\ fo \in FileObject
      BY <1>6, <3>1
    <3>6. Good(k - 1, y)
      <4> HIDE DEF Good
      <4> QED BY <3>2
    <3>7. /\ Listed(x) /\ x.name = y.name
          /\ DOMAIN x.files = DOMAIN y.files \cup {n}
          /\ x.files[n] = fo
          /\ \A o \in DOMAIN y.files : o # n => x.files[o] = y.files[o]
      BY <3>4, <3>5, <3>6, AddedFile DEF Puts
    <3>8. \A i \in 1..(k - 1) : i \in 1..k
      BY <3>1
    <3>9. \A o, i : Unsaid(o, i, k) => Unsaid(o, i, k - 1)
      BY <3>8
    <3>10. \A o, i : i < k /\ Unsaid(o, i, k) => o # n
      BY <3>1
    <3> HIDE DEF Unsaid, D
    <3>11. ASSUME NEW o \in DOMAIN l.files, Unsaid(o, 0, k)
           PROVE  o \in DOMAIN x.files /\ x.files[o] = l.files[o]
      <4>1. o # n /\ Unsaid(o, 0, k - 1)
        BY <3>1, <3>9, <3>10, <3>11
      <4> QED BY <3>6, <3>7, <4>1
    <3>12. ASSUME NEW i \in 1..k
           PROVE  \E o \in D(i) \cap DOMAIN x.files :
                    Unsaid(o, i, k) => x.files[o] \in ParseFile(items[i])
      <4>1. CASE i = k
        BY <3>7, <4>1
      <4>2. CASE i # k
        <5>1. i \in 1..(k - 1) /\ i < k
          BY <3>1, <4>2
        <5>2. PICK o \in D(i) \cap DOMAIN y.files :
                Unsaid(o, i, k - 1) => y.files[o] \in ParseFile(items[i])
          BY <3>6, <5>1
        <5>3. o \in D(i) \cap DOMAIN x.files
          BY <3>7, <5>2
        <5>4. Unsaid(o, i, k) => x.files[o] \in ParseFile(items[i])
          BY <3>7, <3>9, <3>10, <5>1, <5>2
        <5> QED BY <5>3, <5>4
      <4> QED BY <4>1, <4>2
    <3> QED BY <3>6, <3>7, <3>11, <3>12
  <2> QED BY <2>1, <2>2
<1>8. K \in T
  <2> HIDE DEF T
  <2> QED BY <1>2, <1>7, Induction
<1>9. Good(K, m)
  <2> HIDE DEF Good
  <2> QED BY <1>2, <1>4, <1>8
<1> DEFINE names == [j \in DOMAIN es |-> DecodeString(es[j].filename)]
           unsaid(n, i) == \A j \in DOMAIN names : j > i => n \notin names[j]
<1>10. DOMAIN names = 1..Len(es) /\ \A j \in 1..Len(es) : names[j] = DecodeString(es[j].filename)
  BY <1>1
<1>11. ASSUME NEW i \in 1..K PROVE p + i \in 1..Len(es) /\ D(i) = names[p + i]
  BY <1>3, <1>10
<1>12. ASSUME NEW n, NEW i \in Nat, unsaid(n, p + i) PROVE Unsaid(n, i, K)
  <2> SUFFICES ASSUME NEW j \in 1..K, j > i PROVE n \notin D(j)
    OBVIOUS
  <2>1. p + j \in DOMAIN names
    <3> HIDE DEF names, D
    <3> QED BY <1>10, <1>11
  <2>2. p + j > p + i
    BY <1>2
  <2> HIDE DEF names
  <2> QED BY <1>11, <1>12, <2>1, <2>2
<1>13. ASSUME NEW n, unsaid(n, 0) PROVE Unsaid(n, 0, K)
  <2> SUFFICES ASSUME NEW j \in 1..K PROVE n \notin D(j)
    OBVIOUS
  <2>1. p + j \in DOMAIN names
    <3> HIDE DEF names, D
    <3> QED BY <1>10, <1>11
  <2>2. p + j > 0
    BY <1>2
  <2> HIDE DEF names
  <2> QED BY <1>11, <1>13, <2>1, <2>2
<1>14. ASSUME NEW j \in DOMAIN names, es[j].tag = "file"
       PROVE  \E n \in names[j] \cap DOMAIN m.files :
                unsaid(n, j) => m.files[n] \in ParseFile(es[j])
  <2> DEFINE i == j - p
  <2>1. i \in 1..K /\ i \in Nat /\ p + i = j
    BY <1>3, <1>10, <1>14
  <2> HIDE DEF i, names, Unsaid, unsaid
  <2>2. items[i] = es[j] /\ D(i) = names[j]
    BY <1>3, <1>11, <2>1
  <2> HIDE DEF D
  <2>3. PICK n \in D(i) \cap DOMAIN m.files :
          Unsaid(n, i, K) => m.files[n] \in ParseFile(items[i])
    BY <1>9, <2>1
  <2>4. unsaid(n, j) => Unsaid(n, i, K)
    BY <1>12, <2>1
  <2> QED BY <2>2, <2>3, <2>4
<1>15. \A n \in DOMAIN l.files : unsaid(n, 0) => n \in DOMAIN m.files /\ m.files[n] = l.files[n]
  <2> HIDE DEF unsaid, Unsaid
  <2> QED BY <1>9, <1>13
<1>16. m.name = IF doc.dir = NoDir THEN l.name ELSE doc.dir
  BY <1>5, <1>9
<1> QED BY <1>14, <1>15, <1>16 DEF Takes, es

\* What a parser leaves has the type of a list, and what the document has.
Complete(kind, doc, old, new) ==
  CASE kind = "mirrors"  -> GoesOnWith({ParseMirror(e) : e \in Tagged(doc, "mirror")},
                                       old.mirrors, new.mirrors)
    [] kind = "channels" -> GoesOnWith({ParseChannel(e) : e \in Tagged(doc, "channel")},
                                       old.channels, new.channels)
    [] kind = "files"    -> Takes(doc, old.files, new.files)

LEMMA ParsedLists ==
  ASSUME ListsKept, NEW kind \in Kinds, NEW doc \in Docs(kind), doc # Malformed,
         NEW l \in Parsed(kind, doc[1]), lists' = [lists EXCEPT ![kind] = l]
  PROVE  ListsKept' /\ Complete(kind, doc[1], lists, lists')
<1> DEFINE elements == doc[1].elements
<1>1. kind # "files" => elements \in Seq(Entry)
  BY DocElements DEF Kinds
<1>2. DOMAIN lists = Kinds
  BY DEF ListsKept
<1>3. lists' = [k \in Kinds |-> IF k = kind THEN l ELSE lists[k]]
  BY <1>2 DEF ListsKept
<1> HIDE DEF elements
<1>4. CASE kind = "mirrors"
  <2>1. l = ParseMirrors(elements, lists["mirrors"])
    BY <1>4 DEF Parsed, elements
  <2>2. /\ l \in Seq(MirrorObject) /\ IsPrefix(lists["mirrors"], l)
        /\ \A j \in 1..Len(elements) : elements[j].tag = "mirror" =>
             \E i \in DOMAIN l : i > Len(lists["mirrors"]) /\ l[i] = ParseMirror(elements[j])
    BY <1>1, <1>4, <2>1, MirrorsParsed DEF ListsKept
  <2>3. ListsKept' /\ lists'["mirrors"] = l
    BY <1>3, <1>4, <2>2 DEF ListsKept, Kinds
  <2>4. \A e \in Tagged(doc[1], "mirror") :
          \E j \in 1..Len(elements) : elements[j].tag = "mirror" /\ e = elements[j]
    <3>1. DOMAIN elements = 1..Len(elements)
      BY <1>1, <1>4
    <3> QED BY <3>1 DEF Tagged, ToSet, elements
  <2> QED
    BY <1>4, <2>2, <2>3, <2>4 DEF Complete, GoesOnWith
<1>5. CASE kind = "channels"
  <2>1. l = ParseChannels(elements, lists["channels"])
    BY <1>5 DEF Parsed, elements
  <2>2. /\ l \in Seq(Clean) /\ IsPrefix(lists["channels"], l)
        /\ \A j \in 1..Len(elements) : elements[j].tag = "channel" =>
             \E i \in DOMAIN l : i > Len(lists["channels"]) /\ l[i] = ParseChannel(elements[j])
    BY <1>1, <1>5, <2>1, ChannelsParsed DEF ListsKept
  <2>3. ListsKept' /\ lists'["channels"] = l
    BY <1>3, <1>5, <2>2 DEF ListsKept, Kinds
  <2>4. \A e \in Tagged(doc[1], "channel") :
          \E j \in 1..Len(elements) : elements[j].tag = "channel" /\ e = elements[j]
    <3>1. DOMAIN elements = 1..Len(elements)
      BY <1>1, <1>5
    <3> QED BY <3>1 DEF Tagged, ToSet, elements
  <2> QED
    BY <1>5, <2>2, <2>3, <2>4 DEF Complete, GoesOnWith
<1>6. CASE kind = "files"
  <2>1. doc[1] \in Document /\ ~ReadsNull(doc[1])
    BY <1>6, DocFiles
  <2>2. l \in ParseFiles(doc[1], lists["files"])
    BY <1>6 DEF Parsed
  <2>3. Listed(l) /\ Takes(doc[1], lists["files"], l)
    BY <2>1, <2>2, ParsedIsListed, FilesTaken DEF ListsKept
  <2>4. ListsKept' /\ lists'["files"] = l
    BY <1>3, <1>6, <2>3 DEF ListsKept, Kinds
  <2> QED BY <1>6, <2>3, <2>4 DEF Complete
<1> QED
  BY <1>4, <1>5, <1>6 DEF Kinds

LEMMA ListArrivesC ==
  ASSUME CInv, ListArrives
  PROVE  CInv'
<1> USE DEF ListArrives, Returns, diskVars
<1>1. /\ ~Idle /\ tmpfiles = 1 /\ easy = 1 /\ call.doc \in Docs(call.op)
      /\ lists = before.lists /\ target = before.target
      /\ before.op = call.op /\ before.doc = call.doc
  BY ListHolds
<1>2. call' = NoCall /\ tmpfiles' = 0 /\ easy' = 0 /\ UNCHANGED path /\ PathMade
  <2>1. tmpfiles' = 0 /\ easy' = 0
    <3>1. tmpfiles' = tmpfiles - 1 /\ easy' = easy - 1
      OBVIOUS
    <3> QED
      BY ONLY <1>1, <3>1
  <2>2. call' = NoCall /\ UNCHANGED path /\ PathMade
    BY DEF CInv
  <2> QED
    BY <2>1, <2>2
<1>3. CASE returned' = "parse error" /\ UNCHANGED lists
  <2>1. ListsKept'
    BY <1>3 DEF CInv, ListsKept
  <2>2. OnItsWay' /\ Held' /\ Unchanged' /\ PathMade' /\ Copied' /\ Idle'
    BY <1>2, <2>1, ReturnsC
  <2>3. FailureChangesNothing' /\ FailsForAReason' /\ SuccessIsComplete'
    BY <1>1, <1>3 DEF FailureChangesNothing, FailsForAReason, SuccessIsComplete
  <2> QED
    BY <2>1, <2>2, <2>3 DEF CInv
<1>4. CASE /\ call.doc # Malformed /\ returned' = "no error"
           /\ \E l \in Parsed(call.op, call.doc[1]) : lists' = [lists EXCEPT ![call.op] = l]
  <2>1. PICK l \in Parsed(call.op, call.doc[1]) : lists' = [lists EXCEPT ![call.op] = l]
    BY <1>4
  <2>2. ListsKept /\ call.op \in Kinds
    BY DEF CInv
  <2>3. ListsKept' /\ Complete(call.op, call.doc[1], lists, lists')
    BY <1>1, <1>4, <2>1, <2>2, ParsedLists
  <2>4. OnItsWay' /\ Held' /\ Unchanged' /\ PathMade' /\ Copied' /\ Idle'
    BY <1>2, <2>3, ReturnsC
  <2>5. FailureChangesNothing' /\ FailsForAReason'
    BY <1>4 DEF FailureChangesNothing, FailsForAReason, Failures
  <2>6. SuccessIsComplete'
    BY <1>1, <1>4, <2>2, <2>3 DEF SuccessIsComplete, AllRead, Complete, Kinds
  <2> QED
    BY <2>3, <2>4, <2>5, <2>6 DEF CInv
<1> QED
  BY <1>3, <1>4

-----------------------------------------------------------------------------
(* A file is copied.                                                       *)

LEMMA Downloading ==
  ASSUME CInv, call.at \in {"making", "missing", "closing"} \/ Transferred
  PROVE  call.op = "download" /\ call.op \notin Kinds /\ ~Idle
<1>1. call.op \in Kinds \cup {"none", "download"}
  BY DEF CInv, OnItsWay, CallRecord
<1>2. "download" \notin Kinds /\ "download" # "none"
  BY DEF Kinds
<1> QED
  BY <1>1, <1>2 DEF CInv, OnItsWay, Transferred

\* What a step of the copy may do.
LEMMA CopyC ==
  ASSUME CInv, call.at \in {"making", "missing"} \/ Transferred, CopyStays,
         NEW at \in {"making", "missing", "closing"}, NEW dir \in 1..(Depth + 1),
         NEW failed \in BOOLEAN,
         call' = [call EXCEPT !.at = at, !.dir = dir, !.failed = failed],
         at # "closing" \/ failed => target' = target,
         at = "closing" /\ ~failed /\ "short write" \notin trouble' => target' = "body",
         PathMade'
  PROVE  CInv'
<1> USE DEF CopyStays
<1>1. call \in CallRecord /\ call.op = "download" /\ call.op \notin Kinds /\ ~Idle
  BY Downloading DEF CInv, OnItsWay
<1>2. /\ call' \in CallRecord
      /\ call'.op = call.op /\ call'.at = at /\ call'.doc = call.doc
      /\ call'.failed = failed /\ call'.fp = call.fp
  BY <1>1 DEF CallRecord
<1>3. ~Idle'
  BY <1>1, <1>2, NoCallRecord DEF Idle
<1>4. OnItsWay'
  BY <1>1, <1>2, <1>3 DEF OnItsWay
<1>5. Held'
  BY <1>1, <1>2, <1>3 DEF CInv, Held
<1>6. ListsKept'
  BY DEF CInv, ListsKept
<1>7. lists = before.lists /\ target = before.target
  BY <1>1 DEF CInv, Unchanged, Transferred
<1>8. Unchanged'
  BY <1>2, <1>7 DEF Unchanged
<1>9. Copied'
  BY <1>1, <1>2 DEF CInv, Copied
<1> QED
  BY <1>3, <1>4, <1>5, <1>6, <1>8, <1>9, NotIdleNext

\* A failure that is told keeps PathMade.
LEMMA FailsC ==
  ASSUME CInv, call.at \in {"making", "missing"} \/ Transferred, CopyStays, Fails,
         UNCHANGED diskVars, trouble' \cap Reasons # {}
  PROVE  CInv'
<1> USE DEF Fails, diskVars
<1>1. call \in CallRecord /\ call.dir \in 1..(Depth + 1)
  BY DEF CInv, OnItsWay, CallRecord
<1>2. call' = [call EXCEPT !.at = "closing", !.dir = call.dir, !.failed = TRUE]
  BY <1>1 DEF CallRecord
<1>3. call'.at = "closing"
  BY <1>1 DEF CallRecord
<1>4. PathMade'
  BY <1>3 DEF CInv, PathMade
<1> QED
  BY <1>1, <1>2, <1>4, CopyC

LEMMA TransferC ==
  ASSUME CInv, Transfer
  PROVE  CInv'
<1> USE DEF Transfer, diskVars
<1>1. CASE call.failed
  <2>1. trouble' \cap Reasons # {}
    BY <1>1 DEF CInv, PathMade
  <2>2. Fails /\ CopyStays /\ UNCHANGED diskVars /\ Transferred
    BY <1>1
  <2> QED
    BY <2>1, <2>2, FailsC
<1>2. CASE ~call.failed
  <2>1. call \in CallRecord /\ call.failed = FALSE
    BY <1>2 DEF CInv, OnItsWay, CallRecord
  <2>2. 1 \in 1..(Depth + 1)
    BY DepthAssumption
  <2>3. call' = [call EXCEPT !.at = "making", !.dir = 1, !.failed = FALSE]
    BY <1>2, <2>1 DEF CallRecord, FirstDir
  <2>4. call'.at = "making" /\ call'.dir = 1 /\ ~call'.failed
    BY <2>1, <2>3 DEF CallRecord
  <2>5. PathMade'
    BY <2>4 DEF CInv, PathMade
  <2>6. CopyStays /\ Transferred /\ target' = target
    OBVIOUS
  <2> QED
    BY <2>2, <2>3, <2>5, <2>6, CopyC
<1> QED
  BY <1>1, <1>2

LEMMA LookForDirC ==
  ASSUME CInv, LookForDir
  PROVE  CInv'
<1> USE DEF LookForDir, diskVars
<1>1. /\ call \in CallRecord /\ call.failed = FALSE
      /\ call.dir \in 1..Depth /\ call.at = "making"
  BY DEF CInv, OnItsWay, CallRecord, PathMade
<1>2. call.dir + 1 \in 1..(Depth + 1) /\ call.dir \in 1..(Depth + 1)
  BY <1>1, DepthAssumption
<1>3. CopyStays /\ target' = target
  OBVIOUS
<1>4. CASE /\ path[call.dir] = "dir"
           /\ call' = [call EXCEPT !.dir = @ + 1]
           /\ UNCHANGED trouble
  <2>1. call' = [call EXCEPT !.at = "making", !.dir = call.dir + 1, !.failed = FALSE]
    BY <1>1, <1>4 DEF CallRecord
  <2>2. call'.at = "making" /\ call'.dir = call.dir + 1 /\ ~call'.failed
    BY <1>1, <2>1 DEF CallRecord
  <2>3. \A d \in 1..Depth : d < call.dir + 1 => d < call.dir \/ d = call.dir
    BY <1>1, DepthAssumption
  <2>4. PathMade'
    BY <1>1, <1>4, <2>2, <2>3 DEF CInv, PathMade
  <2> QED
    BY <1>1, <1>2, <1>3, <2>1, <2>4, CopyC
<1>5. CASE /\ call' = [call EXCEPT !.at = "missing"]
           /\ trouble' = IF path[call.dir] = "dir" THEN trouble \cup {"failure"} ELSE trouble
  <2>1. call' = [call EXCEPT !.at = "missing", !.dir = call.dir, !.failed = FALSE]
    BY <1>1, <1>5 DEF CallRecord
  <2>2. call'.at = "missing" /\ call'.dir = call.dir /\ ~call'.failed
    BY <1>1, <2>1 DEF CallRecord
  <2>3. path[call.dir] = "dir" => trouble' \cap Reasons # {}
    BY <1>5 DEF Reasons
  <2>4. trouble \subseteq trouble'
    BY <1>5
  <2>5. PathMade'
    BY <1>1, <2>2, <2>3, <2>4 DEF CInv, PathMade
  <2> QED
    BY <1>1, <1>2, <1>3, <2>1, <2>5, CopyC
<1> QED
  BY <1>4, <1>5

\* mkdir fails for a reason: unless something has failed, the directory above is there.
LEMMA MakeDirC ==
  ASSUME CInv, MakeDir
  PROVE  CInv'
<1> USE DEF MakeDir
<1>1. /\ call \in CallRecord /\ call.failed = FALSE
      /\ call.dir \in 1..Depth /\ call.at = "missing"
  BY DEF CInv, OnItsWay, CallRecord, PathMade
<1>2. call.dir + 1 \in 1..(Depth + 1)
  BY <1>1, DepthAssumption
<1>3. CASE MadeDir
  <2> USE DEF MadeDir
  <2>1. call' = [call EXCEPT !.at = "making", !.dir = call.dir + 1, !.failed = FALSE]
    BY <1>1, <1>3 DEF CallRecord
  <2>2. call'.at = "making" /\ call'.dir = call.dir + 1 /\ ~call'.failed
    BY <1>1, <2>1 DEF CallRecord
  <2>3. \A d \in 1..Depth : d < call.dir + 1 => d < call.dir \/ d = call.dir
    BY <1>1, DepthAssumption
  <2>4. path' \in [1..Depth -> Things]
    BY <1>3 DEF CInv, PathMade, Things, Directories
  <2>5. \A d \in 1..Depth : path[d] = "dir" \/ d = call.dir => path'[d] = "dir"
    BY <1>3 DEF CInv, PathMade
  <2>6. trouble' = trouble
    BY <1>3
  <2>7. PathMade'
    BY <1>1, <2>2, <2>3, <2>4, <2>5, <2>6 DEF CInv, PathMade
  <2> QED
    BY <1>1, <1>2, <2>1, <2>7, CopyC
<1>4. CASE trouble' = trouble \cup MakeDirFailure /\ Fails /\ UNCHANGED path
  <2>1. trouble \cap Reasons # {} \/ MakeDirFailure \cap Reasons # {}
    <3> SUFFICES ASSUME trouble \cap Reasons = {} PROVE MakeDirFailure \cap Reasons # {}
      OBVIOUS
    <3>1. /\ path[call.dir] \in Things /\ path[call.dir] # "dir"
          /\ \A d \in 1..Depth : d < call.dir => path[d] = "dir"
      BY <1>1 DEF CInv, PathMade, Reasons
    <3>2. call.dir > 1 => call.dir - 1 \in 1..Depth /\ call.dir - 1 < call.dir
      BY <1>1, DepthAssumption
    <3>3. ParentExists(call.dir)
      BY <3>1, <3>2 DEF ParentExists, Directories
    <3> QED
      BY <3>1, <3>3 DEF CanMakeDir, MakeDirFailure, Things, Directories, Reasons
  <2>2. trouble' \cap Reasons # {}
    BY <1>4, <2>1
  <2> QED
    BY <1>1, <1>4, <2>2, FailsC DEF diskVars
<1> QED
  BY <1>3, <1>4

LEMMA CopyFileC ==
  ASSUME CInv, CopyFile
  PROVE  CInv'
<1> USE DEF CopyFile
<1>1. /\ call \in CallRecord /\ call.failed = FALSE
      /\ call.dir = Depth + 1 /\ call.at = "making"
  BY DEF CInv, OnItsWay, CallRecord, PathMade
<1>2. call.dir \in 1..(Depth + 1)
  BY <1>1 DEF CallRecord
<1>3. CASE /\ call' = [call EXCEPT !.at = "closing"]
           /\ \/ target' = "body" /\ UNCHANGED trouble
              \/ target' = "part" /\ trouble' = trouble \cup {"short write"}
  <2>1. call' = [call EXCEPT !.at = "closing", !.dir = call.dir, !.failed = FALSE]
    BY <1>1, <1>3 DEF CallRecord
  <2>2. call'.at = "closing" /\ ~call'.failed
    BY <1>1, <2>1 DEF CallRecord
  <2>3. PathMade'
    BY <2>2 DEF CInv, PathMade
  <2>4. "short write" \notin trouble' => target' = "body"
    BY <1>3
  <2> QED
    BY <1>1, <1>2, <2>1, <2>3, <2>4, CopyC
<1>4. CASE /\ trouble' = IF ParentExists(call.dir) THEN trouble \cup {"failure"} ELSE trouble
           /\ Fails /\ UNCHANGED target
  <2>1. "failure" \notin trouble => ParentExists(call.dir)
    <3> SUFFICES ASSUME "failure" \notin trouble, call.dir > 1
                 PROVE  path[call.dir - 1] = "dir"
      BY DEF ParentExists, Directories
    <3>1. call.dir > 1 /\ call.dir \in 1..(Depth + 1)
      BY <1>2
    <3>2. call.dir - 1 \in 1..Depth /\ call.dir - 1 < call.dir
      BY ONLY <3>1, DepthAssumption
    <3> QED
      BY <1>1, <3>2 DEF CInv, PathMade
  <2>2. trouble' \cap Reasons # {}
    BY <1>4, <2>1 DEF Reasons
  <2> QED
    BY <1>1, <1>4, <2>2, FailsC DEF diskVars
<1> QED
  BY <1>3, <1>4

LEMMA CloseC ==
  ASSUME CInv, Close
  PROVE  CInv'
<1> USE DEF Close, Returns, diskVars
<1>1. /\ call \in CallRecord /\ ~Idle
      /\ call.op = "download" /\ call.op \notin Kinds /\ call.at = "closing"
  BY Downloading DEF CInv, OnItsWay
<1>2. /\ tmpfiles = IF call.fp THEN 1 ELSE 0
      /\ easy = 1
  BY <1>1 DEF CInv, Held
<1>3. tmpfiles' = 0 /\ easy' = 0
  <2>1. tmpfiles' = (IF call.fp THEN tmpfiles - 1 ELSE tmpfiles) /\ easy' = easy - 1
    OBVIOUS
  <2> QED
    BY ONLY <1>2, <2>1
<1>4. ListsKept'
  BY DEF CInv, ListsKept
<1>5. call' = NoCall /\ UNCHANGED path /\ PathMade
  BY DEF CInv
<1>6. OnItsWay' /\ Held' /\ Unchanged' /\ PathMade' /\ Copied' /\ Idle'
  BY <1>3, <1>4, <1>5, ReturnsC
<1>7. FailureChangesNothing'
  BY <1>1 DEF CInv, Unchanged, FailureChangesNothing, Failures
<1>8. FailsForAReason'
  BY DEF CInv, PathMade, FailsForAReason
<1>9. SuccessIsComplete'
  BY <1>1 DEF CInv, Copied, SuccessIsComplete
<1> QED
  BY <1>4, <1>6, <1>7, <1>8, <1>9 DEF CInv

-----------------------------------------------------------------------------
(* Other processes, and all steps.                                         *)

LEMMA OtherProcessC ==
  ASSUME CInv, NEW d \in 1..Depth, OtherProcess(d)
  PROVE  CInv'
<1> USE DEF OtherProcess, callVars
<1>1. path' \in [1..Depth -> Things] /\ trouble \subseteq trouble'
  BY DEF CInv, PathMade, Makes, Removes, Things, Directories
<1>2. OnItsWay' /\ Held' /\ ListsKept' /\ Unchanged' /\ Copied'
  <2>1. OnItsWay' /\ Held' /\ ListsKept' /\ Unchanged'
    BY DEF CInv, OnItsWay, Held, ListsKept, Unchanged, Idle
  <2>2. Copied'
    BY <1>1 DEF CInv, Copied, Idle
  <2> QED BY <2>1, <2>2
<1>3. PathMade'
  <2>1. CASE Makes(d)
    <3>1. path[d] = "none" /\ \A e \in 1..Depth : e # d => path'[e] = path[e]
      BY <2>1 DEF CInv, PathMade, Makes
    <3>2. call.at = "missing" /\ d = call.dir => "race" \in trouble'
      BY <2>1 DEF Makes
    <3> QED BY <1>1, <3>1, <3>2 DEF CInv, PathMade, Reasons
  <2>2. CASE Removes(d)
    <3>1. path'[d] = "none" /\ \A e \in 1..Depth : e # d => path'[e] = path[e]
      BY <2>2 DEF CInv, PathMade, Removes
    <3>2. call.at \in {"making", "missing"} /\ d < call.dir => "failure" \in trouble'
      BY <2>2 DEF Removes
    <3> QED BY <1>1, <3>1, <3>2 DEF CInv, PathMade, Reasons
  <2> QED BY <2>1, <2>2
<1>4. FailureChangesNothing' /\ FailsForAReason' /\ SuccessIsComplete'
  <2>1. FailureChangesNothing'
    BY DEF CInv, FailureChangesNothing, Idle
  <2>2. FailsForAReason'
    BY <1>1 DEF CInv, FailsForAReason, Idle
  <2>3. SuccessIsComplete'
    <3>1. UNCHANGED AllRead
      BY DEF AllRead
    <3> QED BY <1>1, <3>1 DEF CInv, SuccessIsComplete, Idle
  <2> QED BY <2>1, <2>2, <2>3
<1> QED
  BY <1>2, <1>3, <1>4 DEF CInv

LEMMA NextC == CInv /\ [Next]_vars => CInv'
<1> SUFFICES ASSUME CInv, [Next]_vars PROVE CInv'
  OBVIOUS
<1>1. CASE InitClient \/ Shutdown
  BY <1>1, QuietC DEF InitClient, Shutdown
<1>2. CASE \E updates \in SUBSET Update : QueueUpdates(updates)
  BY <1>2, QuietC DEF QueueUpdates
<1>3. CASE \E i \in DOMAIN queue : Answer(i)
  BY <1>3, QuietC DEF Answer
<1>4. CASE \E kind \in Kinds : GetListFails(kind)
  BY <1>4, GetListFailsC
<1>5. CASE \E kind \in Kinds, size \in 0..MaxChunks : \E doc \in Docs(kind) :
             GetList(kind, doc, size)
  <2>1. 0..MaxChunks \subseteq Nat
    BY BoundsAssumption
  <2> QED
    BY <1>5, <2>1, GetListC
<1>6. CASE \E size \in 0..MaxChunks : DownloadFile(size)
  <2>1. 0..MaxChunks \subseteq Nat
    BY BoundsAssumption
  <2> QED
    BY <1>6, <2>1, DownloadFileC
<1>7. CASE WriteData \/ WriteDataFails \/ PerformEnds
  BY <1>7, WriteDataC, WriteDataFailsC, PerformEndsC
<1>8. CASE ListFails \/ ListArrives
  BY <1>8, ListFailsC, ListArrivesC
<1>9. CASE Transfer \/ LookForDir \/ MakeDir \/ CopyFile \/ Close
  BY <1>9, TransferC, LookForDirC, MakeDirC, CopyFileC, CloseC
<1>10. CASE \E d \in 1..Depth : OtherProcess(d)
  BY <1>10, OtherProcessC
<1>11. CASE UNCHANGED vars
  BY <1>11, QuietC DEF vars
<1> QED
  BY <1>1, <1>2, <1>3, <1>4, <1>5, <1>6, <1>7, <1>8, <1>9, <1>10, <1>11 DEF Next, Calls, Step

LEMMA InvariantC == Spec => []CInv
<1> QED
  BY InitC, NextC, PTL DEF Spec

-----------------------------------------------------------------------------
(* The queue.                                                              *)

One(s) == CHOOSE u \in s : TRUE

\* The function by which the updates of a set are queued one by one.
Queues(S, q, f) ==
  f = [s \in SUBSET S |-> IF s = {} THEN q ELSE Queued(f[s \ {One(s)}], One(s))]

LEMMA QueuesExists ==
  ASSUME NEW S, IsFiniteSet(S), NEW q
  PROVE  \E f : Queues(S, q, f)
<1> DEFINE Sets(n) == {s \in SUBSET S : Cardinality(s) <= n}
           At(s, g) == IF s = {} THEN q ELSE Queued(g[s \ {One(s)}], One(s))
           Upto(n, g) == g = [s \in Sets(n) |-> At(s, g)]
           T == {n \in Nat : \E g : Upto(n, g)}
<1>1. \A s \in SUBSET S : IsFiniteSet(s) /\ Cardinality(s) \in Nat /\ Cardinality(s) <= Cardinality(S)
  BY FS_Subset, FS_CardinalityType
<1>2. \A s \in SUBSET S : s # {} => One(s) \in s /\ s \ {One(s)} \in SUBSET S
                                    /\ Cardinality(s \ {One(s)}) = Cardinality(s) - 1
  <2> SUFFICES ASSUME NEW s \in SUBSET S, s # {}
               PROVE  One(s) \in s /\ Cardinality(s \ {One(s)}) = Cardinality(s) - 1
    OBVIOUS
  <2>1. One(s) \in s
    BY DEF One
  <2> QED BY <1>1, <2>1, FS_RemoveElement
<1>3. ASSUME NEW n \in Nat, \A m \in Nat : m < n => m \in T PROVE n \in T
  <2>1. CASE n = 0
    <3> DEFINE g == [s \in Sets(0) |-> q]
    <3>1. \A s \in Sets(0) : s = {}
      BY <1>1, FS_EmptySet
    <3>2. \A s \in Sets(0) : g[s] = At(s, g)
      BY <3>1
    <3>3. Upto(0, g)
      BY <3>2
    <3> QED BY <2>1, <3>3
  <2>2. CASE n # 0
    <3>1. n - 1 \in Nat /\ n - 1 < n
      BY <2>2
    <3>2. n - 1 \in T
      <4> HIDE DEF T
      <4> QED BY <1>3, <3>1
    <3>3. PICK g : Upto(n - 1, g)
      BY <3>2
    <3> DEFINE h == [s \in Sets(n) |-> At(s, g)]
    <3>4. \A s \in Sets(n) : s # {} => s \ {One(s)} \in Sets(n - 1)
      BY <1>1, <1>2, <3>1
    <3>5. \A s \in Sets(n - 1) : s \in Sets(n)
      BY <1>1, <3>1
    <3> HIDE DEF At, Sets
    <3>6. \A s \in Sets(n) : h[s] = At(s, g)
      OBVIOUS
    <3>7. \A s \in Sets(n - 1) : g[s] = At(s, g)
      BY <3>3, Zenon
    <3>8. \A s \in Sets(n - 1) : h[s] = g[s]
      <4> HIDE DEF h
      <4> QED BY <3>5, <3>6, <3>7, Zenon
    <3>9. ASSUME NEW s \in Sets(n) PROVE At(s, g) = At(s, h)
      <4> HIDE DEF h
      <4>1. s # {} => h[s \ {One(s)}] = g[s \ {One(s)}]
        BY <3>4, <3>8
      <4> QED BY <4>1 DEF At
    <3>10. Upto(n, h)
      <4> DEFINE hh == [s \in Sets(n) |-> At(s, h)]
      <4>1. \A s \in Sets(n) : hh[s] = h[s]
        BY <3>6, <3>9, Zenon
      <4>2. h = hh
        BY <4>1
      <4> QED BY <4>2
    <3> QED BY <3>10
  <2> QED BY <2>1, <2>2
<1>4. Cardinality(S) \in T
  <2>1. Cardinality(S) \in Nat
    BY FS_CardinalityType
  <2> HIDE DEF T
  <2> QED BY <1>3, <2>1, Induction
<1>5. PICK f : Upto(Cardinality(S), f)
  BY <1>4
<1>6. Sets(Cardinality(S)) = SUBSET S
  BY <1>1
<1>7. f = [s \in SUBSET S |-> At(s, f)]
  <2> HIDE DEF Sets, At
  <2> QED BY <1>5, <1>6
<1> QED BY <1>7, Zenon DEF Queues

\* Updates are queued one by one.
LEMMA Queueing ==
  ASSUME NEW S, IsFiniteSet(S), NEW q
  PROVE  \E f : /\ f[{}] = q
                /\ \A s \in SUBSET S : s # {} => f[s] = Queued(f[s \ {One(s)}], One(s))
                /\ FoldSet(LAMBDA u, x : Queued(x, u), q, S) = f[S]
<1> DEFINE f == CHOOSE f : Queues(S, q, f)
<1>1. Queues(S, q, f)
  BY QueuesExists
<1>2. FoldSet(LAMBDA u, x : Queued(x, u), q, S) = f[S]
  BY DEF FoldSet, MapThenFoldSet, Queues, One
<1> HIDE DEF f
<1>3. \A s \in SUBSET S : f[s] = IF s = {} THEN q ELSE Queued(f[s \ {One(s)}], One(s))
  BY <1>1, Zenon DEF Queues
<1>4. {} \in SUBSET S
  OBVIOUS
<1> QED BY <1>2, <1>3, <1>4, Zenon

\* The names that are the url of no other name.
PlainName == Seq(Byte \ {Percent})

\* Every url on record is that of a transfer in the queue.
Backed(q) ==
  /\ q.structs \in Seq(Update)
  /\ \A u \in q.files : \E i \in DOMAIN q.structs : u = EncodeURL(q.structs[i].name)

Pending(q, n) == \E i \in DOMAIN q.structs : q.structs[i].name = n

LEMMA PlainNames == \A n \in PlainName : Percent \notin ToSet(n)
<1> SUFFICES ASSUME NEW n \in PlainName PROVE Percent \notin ToSet(n)
  OBVIOUS
<1>1. \A i \in DOMAIN n : n[i] \in Byte \ {Percent}
  BY LenProperties, ElementOfSeq DEF PlainName
<1> QED BY <1>1 DEF ToSet

LEMMA UpdateNames == \A w \in Update : w.name \in Seq(Byte)
  BY UpdateAssumption

LEMMA UrlTyped ==
  ASSUME NEW w \in Update
  PROVE  EncodeURL(w.name) \in Seq(Byte)
<1>1. w.name \in Seq(Byte)
  BY UpdateNames
<1>2. PICK codes, pos : Placed(Byte, codes, Len(w.name), pos, EncodeURL(w.name))
  BY <1>1, UrlPieces
<1> QED BY <1>2 DEF Placed

\* queueFile queues the update, or has it queued, and forgets no transfer.
LEMMA QueuedOne ==
  ASSUME NEW q, Backed(q), NEW w \in Update
  PROVE  /\ Backed(Queued(q, w))
         /\ \A n \in PlainName : Pending(q, n) \/ n = w.name => Pending(Queued(q, w), n)
<1>1. CASE w.name \in q.files
  <2>1. Queued(q, w) = q
    BY <1>1 DEF Queued
  <2>2. ASSUME w.name \in PlainName PROVE Pending(q, w.name)
    <3>1. PICK i \in DOMAIN q.structs : w.name = EncodeURL(q.structs[i].name)
      BY <1>1 DEF Backed
    <3>2. q.structs[i] \in Update
      BY DEF Backed
    <3>3. EncodeURL(q.structs[i].name) = q.structs[i].name
      BY <2>2, <3>1, <3>2, PlainNames, UpdateNames, UnescapedUrl
    <3> QED BY <3>1, <3>3 DEF Pending
  <2> QED BY <2>1, <2>2
<1>2. CASE w.name \notin q.files
  <2> DEFINE url == EncodeURL(w.name)
             s == q.structs
             t == Append(s, w)
             r == [files |-> q.files \cup {url}, structs |-> t]
  <2>1. Queued(q, w) = r
    BY <1>2 DEF Queued
  <2>2. r.files = q.files \cup {url} /\ r.structs = t
    OBVIOUS
  <2>3. s \in Seq(Update)
    BY DEF Backed
  <2> HIDE DEF s
  <2>4. /\ t \in Seq(Update) /\ Len(t) = Len(s) + 1 /\ Len(s) \in Nat
        /\ \A i \in 1..Len(s) : t[i] = s[i]
        /\ t[Len(s) + 1] = w
    BY <2>3, AppendProperties
  <2>5. DOMAIN s = 1..Len(s) /\ DOMAIN t = 1..(Len(s) + 1)
    BY <2>3, <2>4
  <2> HIDE DEF t, r, url
  <2>6. \A i \in DOMAIN s : i \in DOMAIN t /\ t[i] = s[i]
    BY <2>4, <2>5
  <2>7. Len(s) + 1 \in DOMAIN t
    BY <2>4, <2>5
  <2>8. Backed(r)
    BY <2>2, <2>4, <2>6, <2>7 DEF Backed, s, url
  <2>9. \A n : Pending(q, n) \/ n = w.name => Pending(r, n)
    BY <2>2, <2>4, <2>6, <2>7 DEF Pending, s
  <2> QED BY <2>1, <2>8, <2>9
<1> QED BY <1>1, <1>2

\* updateChannel does so with each of the updates.
LEMMA AllQueued ==
  ASSUME NEW q, Backed(q), NEW S \in SUBSET Update, IsFiniteSet(S)
  PROVE  LET r == FoldSet(LAMBDA u, x : Queued(x, u), q, S)
         IN  /\ Backed(r)
             /\ \A n \in PlainName : Pending(q, n) \/ (\E w \in S : n = w.name) => Pending(r, n)
<1>1. PICK f : /\ f[{}] = q
               /\ \A s \in SUBSET S : s # {} => f[s] = Queued(f[s \ {One(s)}], One(s))
               /\ FoldSet(LAMBDA u, x : Queued(x, u), q, S) = f[S]
  BY Queueing
<1> DEFINE Good(s, r) ==
             /\ Backed(r)
             /\ \A n \in PlainName : Pending(q, n) \/ (\E w \in s : n = w.name) => Pending(r, n)
           T == {n \in Nat : \A s \in SUBSET S : Cardinality(s) = n => Good(s, f[s])}
<1>2. ASSUME NEW n \in Nat, \A m \in Nat : m < n => m \in T PROVE n \in T
  <2> SUFFICES ASSUME NEW s \in SUBSET S, Cardinality(s) = n PROVE Good(s, f[s])
    OBVIOUS
  <2>1. CASE s = {}
    BY <1>1, <2>1
  <2>2. CASE s # {}
    <3> DEFINE w == One(s)
               t == s \ {w}
    <3>1. IsFiniteSet(s) /\ w \in s /\ w \in Update
      BY <2>2, FS_Subset DEF One
    <3>2. t \in SUBSET S /\ Cardinality(t) \in Nat /\ Cardinality(t) < n
      <4>1. IsFiniteSet(t) /\ Cardinality(t) = Cardinality(s) - 1
        BY <3>1, FS_RemoveElement
      <4>2. Cardinality(t) \in Nat
        BY <4>1, FS_CardinalityType
      <4> QED BY <4>1, <4>2
    <3>3. Good(t, f[t])
      <4> HIDE DEF Good, t
      <4> QED BY <1>2, <3>2
    <3>4. f[s] = Queued(f[t], w)
      BY <1>1, <2>2
    <3>5. \A x \in s : x = w \/ x \in t
      OBVIOUS
    <3> HIDE DEF t, w
    <3> QED BY <3>1, <3>3, <3>4, <3>5, QueuedOne
  <2> QED BY <2>1, <2>2
<1>3. Cardinality(S) \in T
  <2>1. Cardinality(S) \in Nat
    BY FS_CardinalityType
  <2> HIDE DEF T
  <2> QED BY <1>2, <2>1, Induction
<1>4. Good(S, f[S])
  <2> HIDE DEF Good
  <2> QED BY <1>3
<1> QED BY <1>1, <1>4

Queue == [files |-> m_files, structs |-> queue]

QueueInv ==
  /\ Backed(Queue) /\ m_files \subseteq Seq(Byte) /\ undefined \in BOOLEAN
  /\ \A n \in asked : n \in PlainName => Pending(Queue, n)

LEMMA InitQ == Init => QueueInv
<1> SUFFICES ASSUME Init PROVE QueueInv
  OBVIOUS
<1>1. m_files = {} /\ queue = <<>> /\ undefined = FALSE /\ asked = {}
  BY DEF Init
<1>2. <<>> \in Seq(Update)
  OBVIOUS
<1> QED BY <1>1, <1>2 DEF QueueInv, Queue, Backed

\* What queueFile records is a string of bytes.
LEMMA UrlsTyped ==
  ASSUME NEW q, Backed(q)
  PROVE  q.files \subseteq Seq(Byte)
<1> SUFFICES ASSUME NEW u \in q.files PROVE u \in Seq(Byte)
  OBVIOUS
<1>1. PICK i \in DOMAIN q.structs : u = EncodeURL(q.structs[i].name)
  BY DEF Backed
<1>2. q.structs[i] \in Update
  BY DEF Backed
<1> QED BY <1>1, <1>2, UrlTyped

LEMMA QueueUpdatesQ ==
  ASSUME QueueInv, NEW updates \in SUBSET Update, IsFiniteSet(updates), QueueUpdates(updates)
  PROVE  QueueInv'
<1> DEFINE wanted == Wanted(updates)
           r == QueuedAll(wanted)
<1>1. wanted \in SUBSET Update /\ IsFiniteSet(wanted)
  BY FS_Subset DEF Wanted
<1>2. /\ m_files' = r.files /\ queue' = r.structs /\ undefined' = undefined
      /\ asked' = asked \cup {u.name : u \in wanted}
  BY DEF QueueUpdates
<1>3. r = FoldSet(LAMBDA u, q : Queued(q, u), Queue, wanted)
  BY DEF QueuedAll, Queue
<1> HIDE DEF wanted, r
<1>4. /\ Backed(r)
      /\ \A n \in PlainName : Pending(Queue, n) \/ (\E w \in wanted : n = w.name) => Pending(r, n)
  BY <1>1, <1>3, AllQueued DEF QueueInv
<1>5. Backed(Queue') /\ \A n : Pending(r, n) => Pending(Queue', n)
  BY <1>2, <1>4 DEF Backed, Pending, Queue
<1>6. m_files' \subseteq Seq(Byte)
  BY <1>2, <1>4, UrlsTyped
<1>7. \A n \in asked' : n \in asked \/ \E w \in wanted : n = w.name
  BY <1>2
<1> QED BY <1>2, <1>4, <1>5, <1>6, <1>7 DEF QueueInv

\* All but one element are left when it is removed.
LEMMA RemovedOne ==
  ASSUME NEW S, NEW s \in Seq(S), NEW k \in 1..Len(s)
  PROVE  /\ RemoveAt(s, k) \in Seq(S)
         /\ \A i \in 1..Len(s) : i # k => \E j \in DOMAIN RemoveAt(s, k) : RemoveAt(s, k)[j] = s[i]
<1> DEFINE a == SubSeq(s, 1, k - 1)
           b == SubSeq(s, k + 1, Len(s))
           c == a \o b
<1>1. Len(s) \in Nat /\ k \in Nat /\ k >= 1 /\ k <= Len(s)
  OBVIOUS
<1>2. \A i \in 1..Len(s) : s[i] \in S
  OBVIOUS
<1>3. a \in Seq(S) /\ Len(a) = k - 1 /\ \A i \in 1..(k - 1) : a[i] = s[i]
  <2>1. \A i \in 1..(k - 1) : s[i] \in S
    BY <1>1, <1>2
  <2>2. /\ a \in Seq(S) /\ Len(a) = IF 1 <= k - 1 THEN k - 1 - 1 + 1 ELSE 0
        /\ \A i \in 1..(k - 1 - 1 + 1) : a[i] = s[1 + i - 1]
    BY <1>1, <2>1, SubSeqProperties
  <2> HIDE DEF a
  <2> QED BY <1>1, <2>2
<1>4. b \in Seq(S) /\ Len(b) = Len(s) - k /\ \A i \in 1..(Len(s) - k) : b[i] = s[k + i]
  <2>1. \A i \in (k + 1)..Len(s) : s[i] \in S
    BY <1>1, <1>2
  <2>2. /\ b \in Seq(S) /\ Len(b) = IF k + 1 <= Len(s) THEN Len(s) - (k + 1) + 1 ELSE 0
        /\ \A i \in 1..(Len(s) - (k + 1) + 1) : b[i] = s[k + 1 + i - 1]
    BY <1>1, <2>1, SubSeqProperties
  <2> HIDE DEF b
  <2> QED BY <1>1, <2>2
<1> HIDE DEF a, b
<1>5. /\ c \in Seq(S) /\ Len(c) = Len(a) + Len(b)
      /\ \A i \in 1..(Len(a) + Len(b)) : c[i] = IF i <= Len(a) THEN a[i] ELSE b[i - Len(a)]
  BY <1>3, <1>4, ConcatProperties
<1>6. DOMAIN c = 1..(Len(s) - 1) /\ Len(a) + Len(b) = Len(s) - 1
  BY <1>1, <1>3, <1>4, <1>5
<1> HIDE DEF c
<1>7. ASSUME NEW i \in 1..Len(s), i # k PROVE \E j \in DOMAIN c : c[j] = s[i]
  <2>1. CASE i < k
    <3>1. i \in 1..(Len(a) + Len(b)) /\ i <= Len(a) /\ i \in 1..(k - 1)
      BY <1>1, <1>3, <1>6, <2>1
    <3>2. c[i] = s[i]
      BY <1>3, <1>5, <3>1
    <3> QED BY <1>6, <3>1, <3>2
  <2>2. CASE i > k
    <3> DEFINE j == i - 1
    <3>1. /\ j \in 1..(Len(a) + Len(b)) /\ ~(j <= Len(a))
          /\ j - Len(a) = i - k /\ i - k \in 1..(Len(s) - k) /\ k + (i - k) = i
      BY <1>1, <1>3, <1>6, <2>2
    <3> HIDE DEF j
    <3>2. c[j] = b[i - k] /\ b[i - k] = s[k + (i - k)]
      BY <1>4, <1>5, <3>1
    <3>3. c[j] = s[i]
      BY <3>1, <3>2
    <3> QED BY <1>6, <3>1, <3>3
  <2> QED BY <1>1, <1>7, <2>1, <2>2
<1> QED BY <1>5, <1>7 DEF c, a, b, RemoveAt

LEMMA AnswerQ ==
  ASSUME QueueInv, NEW k \in DOMAIN queue, Answer(k)
  PROVE  QueueInv'
<1> DEFINE url == EncodeURL(queue[k].name)
<1>1. /\ m_files' = m_files \ {url} /\ queue' = RemoveAt(queue, k)
      /\ undefined' \in BOOLEAN /\ asked' = asked \ {queue[k].name}
  BY DEF Answer
<1>2. queue \in Seq(Update) /\ DOMAIN queue = 1..Len(queue)
  BY DEF QueueInv, Backed, Queue
<1>3. /\ queue' \in Seq(Update)
      /\ \A i \in DOMAIN queue : i # k => \E j \in DOMAIN queue' : queue'[j] = queue[i]
  BY <1>1, <1>2, RemovedOne
<1>4. ASSUME NEW u \in m_files' PROVE \E j \in DOMAIN queue' : u = EncodeURL(queue'[j].name)
  <2>1. PICK i \in DOMAIN queue : u = EncodeURL(queue[i].name)
    BY <1>1 DEF QueueInv, Backed, Queue
  <2>2. i # k
    BY <1>1, <2>1
  <2> QED BY <1>3, <2>1, <2>2
<1>5. ASSUME NEW n \in asked', n \in PlainName PROVE \E j \in DOMAIN queue' : queue'[j].name = n
  <2>1. PICK i \in DOMAIN queue : queue[i].name = n
    BY <1>1, <1>5 DEF QueueInv, Pending, Queue
  <2>2. i # k
    BY <1>1, <2>1
  <2> QED BY <1>3, <2>1, <2>2
<1>6. m_files' \subseteq Seq(Byte)
  BY <1>1 DEF QueueInv
<1> QED BY <1>1, <1>3, <1>4, <1>5, <1>6 DEF QueueInv, Backed, Pending, Queue

LEMMA NextQ == QueueInv /\ [Next]_vars => QueueInv'
<1> SUFFICES ASSUME QueueInv, [Next]_vars PROVE QueueInv'
  OBVIOUS
<1>1. ASSUME NEW updates \in SUBSET Update, IsFiniteSet(updates), QueueUpdates(updates)
      PROVE  QueueInv'
  BY <1>1, QueueUpdatesQ
<1>2. ASSUME NEW i \in DOMAIN queue, Answer(i) PROVE QueueInv'
  BY <1>2, AnswerQ
<1>3. CASE Shutdown
  <2>1. m_files' = {} /\ queue' = <<>> /\ asked' = {} /\ undefined' = undefined
    BY <1>3 DEF Shutdown
  <2>2. <<>> \in Seq(Update)
    OBVIOUS
  <2> QED BY <2>1, <2>2 DEF QueueInv, Backed, Queue
<1>4. CASE UNCHANGED queueVars
  BY <1>4 DEF queueVars, QueueInv, Backed, Pending, Queue
<1>5. InitClient => UNCHANGED queueVars
  BY DEF InitClient
<1>6. \A kind \in Kinds : GetListFails(kind) => UNCHANGED queueVars
  BY DEF GetListFails
<1>7. \A kind \in Kinds, size \in 0..MaxChunks : \A doc \in Docs(kind) :
        GetList(kind, doc, size) => UNCHANGED queueVars
  BY DEF GetList, Begins
<1>8. \A size \in 0..MaxChunks : DownloadFile(size) => UNCHANGED queueVars
  BY DEF DownloadFile, Begins
<1>9. WriteData \/ WriteDataFails \/ PerformEnds => UNCHANGED queueVars
  BY DEF WriteData, WriteDataFails, PerformEnds, CallStays
<1>10. ListFails \/ ListArrives \/ Close => UNCHANGED queueVars
  BY DEF ListFails, ListArrives, Close
<1>11. Transfer \/ LookForDir \/ MakeDir \/ CopyFile => UNCHANGED queueVars
  BY DEF Transfer, LookForDir, MakeDir, CopyFile, CopyStays
<1>12. \A d \in 1..Depth : OtherProcess(d) => UNCHANGED queueVars
  BY DEF OtherProcess
<1>13. UNCHANGED vars => UNCHANGED queueVars
  BY DEF vars
<1> QED
  BY <1>1, <1>2, <1>3, <1>4, <1>5, <1>6, <1>7, <1>8, <1>9, <1>10, <1>11, <1>12, <1>13
     DEF Next, Calls, Step

-----------------------------------------------------------------------------
(* Types.                                                                  *)

Targets == {"none", "part", "body"}

Codes == {"nothing", "no error", "error", "general error", "download error", "parse error"}

Troubles == Reasons \cup {"short write"}

\* What CInv leaves open.
TInv ==
  /\ up \in BOOLEAN
  /\ call.size \in 0..MaxChunks /\ call.got \in 0..call.size
  /\ target \in Targets /\ returned \in Codes /\ trouble \subseteq Troubles
  /\ others \in 0..MaxOthers

LEMMA NoCallSizes == NoCall.size \in 0..MaxChunks /\ NoCall.got \in 0..NoCall.size
<1>1. NoCall.size = 0 /\ NoCall.got = 0
  BY DEF NoCall
<1>2. 0 \in 0..MaxChunks /\ 0 \in 0..0
  BY BoundsAssumption
<1> QED BY <1>1, <1>2

LEMMA InitT == Init => TInv
<1> SUFFICES ASSUME Init PROVE TInv
  OBVIOUS
<1> USE DEF Init
<1>1. others \in 0..MaxOthers
  BY BoundsAssumption
<1>2. call.size \in 0..MaxChunks /\ call.got \in 0..call.size
  BY NoCallSizes
<1> QED BY <1>1, <1>2 DEF TInv, Targets, Codes, Troubles

LEMMA CallTyped == CInv => call \in CallRecord
  BY DEF CInv, OnItsWay

LEMMA BeginsT ==
  ASSUME CInv, TInv, NEW op, NEW doc, NEW size \in 0..MaxChunks, NEW tmpfile, Begins(op, doc, size, tmpfile)
  PROVE  TInv'
<1> USE DEF Begins, diskVars
<1>1. call'.size = size /\ call'.got = 0
  BY DEF NoCall
<1>2. 0 \in 0..size
  BY BoundsAssumption
<1> QED BY <1>1, <1>2 DEF TInv, Targets, Codes, Troubles

LEMMA PerformT ==
  ASSUME CInv, TInv, WriteData \/ WriteDataFails \/ PerformEnds
  PROVE  TInv'
<1>1. call'.size = call.size /\ call'.got \in 0..call.size
  <2>1. call \in CallRecord /\ call.got \in 0..call.size /\ call.size \in Nat
    BY CallTyped, BoundsAssumption DEF TInv
  <2>2. CASE WriteData
    <3>1. call'.size = call.size /\ call'.got = call.got + 1 /\ call.got < call.size
      BY <2>1, <2>2 DEF WriteData, CallRecord
    <3> QED BY <2>1, <3>1
  <2>3. CASE WriteDataFails \/ PerformEnds
    BY <2>1, <2>3 DEF WriteDataFails, PerformEnds, CallRecord
  <2> QED BY <2>2, <2>3
<1>2. UNCHANGED <<up, lists, target, returned, others>>
  BY DEF WriteData, WriteDataFails, PerformEnds, CallStays, diskVars
<1>3. trouble' \subseteq Troubles
  BY DEF WriteData, WriteDataFails, PerformEnds, TInv, Troubles, Reasons
<1> QED BY <1>1, <1>2, <1>3 DEF TInv

LEMMA ListArrivesT ==
  ASSUME CInv, TInv, ListArrives
  PROVE  TInv'
<1> USE DEF ListArrives, Returns, diskVars
<1>1. call' = NoCall /\ call'.size \in 0..MaxChunks /\ call'.got \in 0..call'.size
  BY NoCallSizes
<1>2. returned' \in Codes /\ trouble' \subseteq Troubles
  BY DEF TInv, Codes, Troubles, Reasons
<1> QED BY <1>1, <1>2 DEF TInv

LEMMA CopyT ==
  ASSUME CInv, TInv, Transfer \/ LookForDir \/ MakeDir \/ CopyFile
  PROVE  TInv'
<1>1. call'.size = call.size /\ call'.got = call.got
  <2>1. call \in CallRecord
    BY CallTyped
  <2> QED BY <2>1 DEF CallRecord, Transfer, LookForDir, MakeDir, MadeDir, CopyFile, Fails
<1>2. UNCHANGED <<up, lists, returned, others>>
  BY DEF Transfer, LookForDir, MakeDir, CopyFile, CopyStays
<1>3. target' \in Targets
  BY DEF Transfer, LookForDir, MakeDir, CopyFile, diskVars, TInv, Targets
<1>4. trouble' \subseteq Troubles
  <2>1. MakeDirFailure \subseteq Troubles
    BY DEF MakeDirFailure, Troubles, Reasons
  <2> QED
    BY <2>1 DEF Transfer, LookForDir, MakeDir, MadeDir, CopyFile, TInv, Troubles, Reasons
<1> QED BY <1>1, <1>2, <1>3, <1>4 DEF TInv

LEMMA NextT == CInv /\ TInv /\ [Next]_vars => TInv'
<1> SUFFICES ASSUME CInv, TInv, [Next]_vars PROVE TInv'
  OBVIOUS
<1>1. ASSUME InitClient \/ Shutdown \/ \E updates \in SUBSET Update : QueueUpdates(updates) PROVE TInv'
  BY <1>1 DEF InitClient, Shutdown, QueueUpdates, callVars, diskVars, pastVars, TInv
<1>2. ASSUME NEW i \in DOMAIN queue, Answer(i) PROVE TInv'
  BY <1>2 DEF Answer, callVars, diskVars, pastVars, TInv
<1>3. ASSUME NEW kind \in Kinds, GetListFails(kind) PROVE TInv'
  BY <1>3 DEF GetListFails, callVars, diskVars, TInv, Codes, Troubles, Reasons
<1>4. ASSUME NEW kind \in Kinds, NEW size \in 0..MaxChunks, NEW doc \in Docs(kind),
             GetList(kind, doc, size)
      PROVE  TInv'
  BY <1>4, BeginsT DEF GetList
<1>5. ASSUME NEW size \in 0..MaxChunks, DownloadFile(size) PROVE TInv'
  BY <1>5, BeginsT DEF DownloadFile
<1>6. CASE ListFails \/ Close
  BY <1>6, NoCallSizes DEF ListFails, Close, Returns, diskVars, TInv, Codes
<1>7. ASSUME NEW d \in 1..Depth, OtherProcess(d) PROVE TInv'
  <2>1. others' \in 0..MaxOthers
    BY <1>7, BoundsAssumption DEF OtherProcess, TInv
  <2> QED BY <1>7, <2>1 DEF OtherProcess, Makes, Removes, callVars, TInv, Troubles, Reasons
<1>8. CASE UNCHANGED vars
  BY <1>8 DEF vars, callVars, diskVars, pastVars, TInv
<1> QED
  BY <1>1, <1>2, <1>3, <1>4, <1>5, <1>6, <1>7, <1>8, PerformT, ListArrivesT, CopyT DEF Next, Calls, Step

LEMMA TypedSoFar == CInv /\ TInv /\ QueueInv => TypeOK
<1> SUFFICES ASSUME CInv, TInv, QueueInv PROVE TypeOK
  OBVIOUS
<1>1. call \in CallRecord /\ (call.op \in Kinds => call.doc \in Docs(call.op))
  BY DEF CInv, OnItsWay
<1>2. IsCall(call)
  BY <1>1 DEF CallRecord, TInv, IsCall
<1>3. tmpfiles \in 0..1 /\ easy \in 0..1
  BY DEF CInv, Held
<1>4. Clean \subseteq ChannelObject
  BY DEF Clean
<1>5. /\ lists.mirrors \in Seq(MirrorObject) /\ lists.channels \in Seq(ChannelObject)
      /\ IsList(lists.files)
  BY <1>4 DEF CInv, ListsKept, Listed
<1>6. path \in [1..Depth -> {"none", "file"} \cup Directories]
  BY DEF CInv, PathMade, Things
<1>7. m_files \subseteq Seq(Byte) /\ queue \in Seq(Update) /\ undefined \in BOOLEAN
  BY DEF QueueInv, Backed, Queue
<1> QED BY <1>2, <1>3, <1>5, <1>6, <1>7 DEF TInv, TypeOK, Targets, Codes, Troubles

-----------------------------------------------------------------------------
(* The properties.                                                         *)

\* Every blocking call that has returned has closed its tmpfile and cleaned up its easy
\* handle, on every path through its code.
THEOREM NothingIsLeaked == Spec => []NothingLeaked
<1>1. CInv => NothingLeaked
  BY NoCallRecord DEF CInv, Held, NothingLeaked, Idle
<1> QED
  BY <1>1, InvariantC, PTL

\* A blocking call that returned an error has changed neither a list nor the target.
THEOREM FailuresChangeNothing == Spec => []FailureChangesNothing
<1>1. CInv => FailureChangesNothing
  BY DEF CInv
<1> QED
  BY <1>1, InvariantC, PTL

\* A blocking call that returned success has put every mirror, channel or file of the
\* document on the list, and kept the rest of the list, or it has put the body at the
\* target, unless a short write there went unnoticed.
THEOREM SuccessesAreComplete == Spec => []SuccessIsComplete
<1>1. CInv => SuccessIsComplete
  BY DEF CInv
<1> QED
  BY <1>1, InvariantC, PTL

\* However many directories are missing above a target, createParentDirs makes them, and it
\* bears that others make them before it looks: a download to a name fails only if a
\* transfer or a call of the file system failed, a file was in the way or what was found
\* was removed, a directory could not be opened, or one was made between opendir and mkdir.
THEOREM FailuresHaveReasons == Spec => []FailsForAReason
<1>1. CInv => FailsForAReason
  BY DEF CInv
<1> QED
  BY <1>1, InvariantC, PTL

\* A list of channels that was downloaded can be written by writeChannelList and read by
\* parseChannelList again, and all but the names is as it was.
THEOREM ChannelsAreReread == Spec => []ChannelsReread
<1>1. CInv => ChannelsReread
  <2> SUFFICES ASSUME CInv PROVE ChannelsReread
    OBVIOUS
  <2>1. lists["channels"] \in Seq(Clean)
    BY DEF CInv, ListsKept
  <2> DEFINE reread == ParseChannels(WriteChannelList(lists["channels"]), <<>>)
  <2>2. /\ Len(reread) = Len(lists["channels"])
        /\ \A i \in 1..Len(lists["channels"]), f \in Fields \ {"name"} :
             reread[i][f] = lists["channels"][i][f]
    BY <2>1, ChannelsSurvive
  <2>3. DOMAIN reread = 1..Len(lists["channels"])
    <3>1. \A s \in Seq(Entry) : ParseChannels(s, <<>>) \in Seq(Clean)
      <4>1. <<>> \in Seq(Clean)
        OBVIOUS
      <4> QED
        BY <4>1, ChannelsParsed
    <3>2. WriteChannelList(lists["channels"]) \in Seq(Entry)
      <4>1. \A i \in DOMAIN lists["channels"] : WriteChannel(lists["channels"][i]) \in Entry
        BY <2>1, WrittenEntry
      <4> QED
        BY <2>1, <4>1 DEF WriteChannelList
    <3>3. reread \in Seq(Clean)
      BY <3>1, <3>2
    <3> HIDE DEF reread
    <3> QED
      BY <2>2, <3>3
  <2> QED
    BY <2>2, <2>3 DEF ChannelsReread
<1> QED
  BY <1>1, InvariantC, PTL

\* updateChannel and updateFile: whatever queueFile refused, and whatever transfer it
\* forgot when another took its url, every name without a percent sign that was asked for
\* and not answered has a transfer queued.
THEOREM AskedUpdatesArePending == Spec => []AskedIsPending
<1>1. QueueInv => AskedIsPending
  BY DEF QueueInv, AskedIsPending, Pending, PlainName, Queue
<1> QED BY <1>1, InitQ, NextQ, PTL DEF Spec

\* Every variable of Client always holds a value of its type: in whatever order calls are
\* made, fail and are interfered with, the lists stay lists.
THEOREM TypeCorrect == Spec => []TypeOK
<1> QED BY TypedSoFar, InitQ, NextQ, InitT, NextT, InvariantC, PTL DEF Spec
====
