--------------------------- MODULE UpdateToolProofs ---------------------------
(***************************************************************************)
(* What UpdateTool says of the wfut command for every set of files and     *)
(* mirrors and all faults: TypeOK, RecordSurvives and the three properties *)
(* of the files on disk,                                                   *)
(* and that calculateUpdates finds nothing left to do after its updates.   *)
(***************************************************************************)
EXTENDS UpdateTool, FiniteSetTheorems, TLAPS

-----------------------------------------------------------------------------
(* The lists.  Every entry of any list is one a mirror has published.      *)

Published(f) == {Version(f, v, deleted) : v \in 1..MaxVersion, deleted \in BOOLEAN}

Channel == {l \in FileList : \A f \in Listed(l) : l[f] \in Published(f)}

\* What a mirror publishes: every file, in some version.
Served == {l \in FileList : \A f \in File : l[f] \in Published(f)}

LEMMA PublishedFields ==
  ASSUME NEW f, NEW o \in Published(f)
  PROVE  /\ o.version \in 1..MaxVersion /\ o.crc32 = Crc(f, o.version)
         /\ o.crc32 \in {0, o.version} /\ o.crc32 \in 0..MaxVersion
         /\ o \in FileObject /\ o # NotListed
<1>1. PICK v \in 1..MaxVersion, deleted \in BOOLEAN : o = Version(f, v, deleted)
  BY DEF Published
<1>2. o = [version |-> v, crc32 |-> Crc(f, v), deleted |-> deleted]
  BY <1>1 DEF Version
<1>3. Crc(f, v) \in {0, v}
  BY DEF Crc
<1> QED
  BY <1>2, <1>3, VersionAssumption DEF FileObject, NotListed

LEMMA VersionPublished ==
  ASSUME NEW f, NEW v \in 1..MaxVersion, NEW deleted \in BOOLEAN
  PROVE  Version(f, v, deleted) \in Published(f)
  BY DEF Published

LEMMA ChannelIsFileList == Channel \subseteq FileList
  BY DEF Channel

LEMMA EmptyChannel == EmptyList \in Channel
  BY DEF EmptyList, Channel, Listed, FileList

LEMMA ServedChannel == Served \subseteq Channel
  BY DEF Served, Channel, Listed

LEMMA MergedChannel ==
  ASSUME NEW old \in Channel, NEW new \in Channel, NEW changed
  PROVE  /\ Merged(old, new, changed) \in Channel
         /\ \A f \in File : Merged(old, new, changed)[f] = IF f \in changed THEN new[f] ELSE old[f]
<1> DEFINE l == Merged(old, new, changed)
<1>1. \A f \in File : l[f] = IF f \in changed THEN new[f] ELSE old[f]
  BY DEF Merged
<1>2. l \in FileList
  BY DEF Merged, Channel, FileList
<1>3. \A f \in Listed(l) : l[f] \in Published(f)
  <2> SUFFICES ASSUME NEW f \in File, l[f] # NotListed PROVE l[f] \in Published(f)
    BY DEF Listed
  <2>1. l[f] \in {old[f], new[f]}
    BY <1>1
  <2> QED
    BY <2>1 DEF Channel, Listed
<1> QED
  BY <1>1, <1>2, <1>3 DEF Channel

LEMMA UpdatesListed ==
  ASSUME NEW srv, NEW sys, NEW loc, NEW dsk
  PROVE  Updates(srv, sys, loc, dsk) \subseteq Listed(srv)
  BY DEF Updates

-----------------------------------------------------------------------------
(* Type correctness.                                                       *)

\* Every list is made of published entries.
Channels ==
  /\ server \in [Mirror -> Served]
  /\ local \in Channel /\ list \in Channel /\ completed \in Channel
  /\ wfut_xml \in [state : XmlStates, files : Channel]
  /\ temp_xml \in [exists : BOOLEAN, files : Channel]

\* The queue is a part of the list, and there is one while a run polls.
Queued ==
  /\ queue \subseteq Listed(list)
  /\ copying \subseteq queue
  /\ pc \in {"off", "started", "fetched"} => queue = {}
  /\ pc \notin {"copying", "copied"} => copying = {}

\* The mirror has at least the versions it had when its list was fetched.
Behind == \A f \in File : list[f].version <= server[mirror][f].version

\* A file fails once.
Counted ==
  /\ failures \in Nat
  /\ failures + Cardinality(queue) <= Cardinality(File)
  /\ pc \in {"started", "fetched"} => failures = 0

Simple ==
  /\ disk \in [File -> Contents]
  /\ pc \in {"off", "started", "fetched", "polling", "copying", "copied", "saving", "saved"}
  /\ mirror \in Mirror
  /\ status \in {0, 1, Killed}
  /\ body \in 0..MaxVersion
  /\ fresh \subseteq File /\ absent \subseteq File
  /\ faults \in 0..MaxFaults
  /\ happened \subseteq FaultKinds

TInv == Channels /\ Queued /\ Behind /\ Counted /\ Simple

LEMMA TInvTypeOK == TInv => TypeOK
<1> SUFFICES ASSUME TInv PROVE TypeOK
  OBVIOUS
<1>1. queue \subseteq File /\ copying \subseteq File
  BY DEF TInv, Queued, Listed
<1>2. Cardinality(File) \in Nat /\ Cardinality(queue) \in Nat
  BY <1>1, FileAssumption, FS_CardinalityType, FS_Subset
<1>3. failures \in 0..Cardinality(File)
  BY <1>2 DEF TInv, Counted
<1>4. server \in [Mirror -> FileList]
  BY DEF TInv, Channels, Served
<1>5. /\ local \in FileList /\ list \in FileList /\ completed \in FileList
      /\ wfut_xml \in [state : XmlStates, files : FileList]
      /\ temp_xml \in [exists : BOOLEAN, files : FileList]
  BY ChannelIsFileList DEF TInv, Channels
<1> QED
  BY <1>1, <1>3, <1>4, <1>5 DEF TInv, Simple, TypeOK

LEMMA InitTInv == Init => TInv
<1> SUFFICES ASSUME Init PROVE TInv
  OBVIOUS
<1>1. \A f \in File : Version(f, 1, FALSE) \in Published(f)
  <2>1. 1 \in 1..MaxVersion /\ FALSE \in BOOLEAN
    BY VersionAssumption
  <2> QED
    BY <2>1, VersionPublished
<1>o. \A f \in File : Version(f, 1, FALSE) \in FileObject /\ Version(f, 1, FALSE).version = 1
  BY <1>1, PublishedFields DEF Version
<1>v. [f \in File |-> Version(f, 1, FALSE)] \in Served
  BY <1>1, <1>o DEF Served, FileList
<1>2. Channels
  BY <1>v, EmptyChannel DEF Init, Channels, XmlStates
<1>b. Behind
  <2>1. \A f \in File : list[f].version = -1
    BY DEF Init, EmptyList, NotListed
  <2>2. \A f \in File : server[mirror][f].version = 1
    BY <1>o DEF Init
  <2>3. -1 <= 1
    OBVIOUS
  <2> QED
    BY <2>1, <2>2, <2>3, Zenon DEF Behind
<1>3. Queued
  BY DEF Init, Queued
<1>4. Counted
  BY FS_EmptySet, FS_CardinalityType, FileAssumption DEF Init, Counted
<1>5. Simple
  BY FaultAssumption, VersionAssumption DEF Init, Simple, Contents, Killed
<1> QED
  BY <1>2, <1>b, <1>3, <1>4, <1>5 DEF TInv

\* A queue that shrinks keeps the count.
LEMMA SmallerQueue ==
  ASSUME queue \subseteq File, queue' \subseteq queue
  PROVE  /\ Cardinality(queue) \in Nat /\ Cardinality(queue') \in Nat
         /\ Cardinality(queue') <= Cardinality(queue)
         /\ Cardinality(File) \in Nat
<1>1. IsFiniteSet(queue)
  BY FS_Subset, FileAssumption
<1>2. IsFiniteSet(queue') /\ Cardinality(queue') <= Cardinality(queue)
  BY <1>1, FS_Subset
<1> QED
  BY <1>1, <1>2, FS_CardinalityType, FileAssumption

LEMMA QueueInFile == TInv => queue \subseteq File /\ copying \subseteq File
  BY DEF TInv, Queued, Listed

\* Mirrors only go forward.
LEMMA NextBehind == TInv /\ [Next]_vars => Behind'
<1> SUFFICES ASSUME TInv, [Next]_vars PROVE Behind'
  OBVIOUS
<1>t. /\ \A m \in Mirror, f \in File : server[m][f].version \in Nat
      /\ mirror \in Mirror
      /\ \A f \in File : list[f].version \in Int
  <2>1. \A m \in Mirror, f \in File : server[m][f] \in Published(f)
    BY DEF TInv, Channels, Served
  <2>2. list \in FileList
    BY ChannelIsFileList DEF TInv, Channels
  <2> QED
    BY <2>1, <2>2, PublishedFields DEF FileList, FileObject, NotListed, TInv, Simple
<1>1. CASE UNCHANGED <<server, list, mirror>>
  BY <1>1 DEF TInv, Behind
<1>2. ASSUME NEW m \in Mirror, FetchList(m) PROVE Behind'
  BY <1>2, <1>t DEF FetchList, Behind
<1>3. ASSUME NEW m \in Mirror, NEW f \in File, NEW deleted \in BOOLEAN, Publish(m, f, deleted)
      PROVE  Behind'
  <2>1. PICK v \in 1..(MaxVersion - 1) :
          IsNewest(f, v) /\ server' = [server EXCEPT ![m][f] = Version(f, v + 1, deleted)]
    BY <1>3 DEF Publish
  <2>2. \A n \in Mirror, g \in File :
          server'[n][g] = IF n = m /\ g = f THEN Version(f, v + 1, deleted) ELSE server[n][g]
    BY <2>1 DEF TInv, Channels, Served, FileList
  <2>3. Version(f, v + 1, deleted).version = v + 1
    BY DEF Version
  <2>4. \A n \in Mirror, g \in File : server[n][g].version <= server'[n][g].version
    BY <1>t, <2>1, <2>2, <2>3, VersionAssumption DEF IsNewest
  <2>5. \A n \in Mirror, g \in File : server'[n][g].version \in Nat
    BY <1>t, <2>2, <2>3, VersionAssumption
  <2>6. UNCHANGED <<list, mirror>>
    BY <1>3 DEF Publish, runVars
  <2> QED
    BY <1>t, <2>4, <2>5, <2>6 DEF TInv, Behind
<1>4. ASSUME NEW m \in Mirror, NEW n \in Mirror, NEW f \in File, Sync(m, n, f)
      PROVE  Behind'
  <2>1. \A o \in Mirror, g \in File :
          server'[o][g] = IF o = m /\ g = f THEN server[n][f] ELSE server[o][g]
    BY <1>4 DEF Sync, TInv, Channels, Served, FileList
  <2>2. \A o \in Mirror, g \in File :
          server[o][g].version <= server'[o][g].version /\ server'[o][g].version \in Nat
    BY <1>4, <1>t, <2>1 DEF Sync
  <2>3. UNCHANGED <<list, mirror>>
    BY <1>4 DEF Sync, runVars
  <2> QED
    BY <1>t, <2>2, <2>3 DEF TInv, Behind
<1> QED
  BY <1>1, <1>2, <1>3, <1>4
  DEF Next, Run, Start, StartFails, FetchFails, QueueUpdates, DownloadFails, CopyStarts,
      CopyEnds, RecordUpdate, SaveStarts, SaveEnds, Finish, Kill, UserEdits, UserDeletes,
      UserRemovesTemp, vars, runVars

LEMMA NextTInv == TInv /\ [Next]_vars => TInv'
<1> SUFFICES ASSUME TInv, [Next]_vars PROVE TInv'
  OBVIOUS
<1> USE FaultAssumption, NextBehind DEF TInv, faultVars, reports
<1>f. ASSUME NEW kind, Fault(kind) PROVE faults' \in 0..MaxFaults /\ happened' \subseteq FaultKinds
  BY <1>f DEF Fault, Simple
<1>q. queue \subseteq File /\ copying \subseteq File
  BY QueueInFile
<1>e. ASSUME NEW code \in {0, 1, Killed}, Exit(code), UNCHANGED <<list, failures>>
      PROVE  /\ Queued' /\ Counted' /\ pc' = "off" /\ status' = code
             /\ body' \in 0..MaxVersion /\ absent' \subseteq File
  <2>1. queue' \subseteq queue
    BY <1>e DEF Exit
  <2> QED
    BY <1>e, <1>q, <2>1, SmallerQueue, VersionAssumption DEF Exit, Queued, Counted
<1>1. CASE Start
  <2>1. Counted'
    BY <1>1, <1>q, SmallerQueue DEF Start, Counted, Queued
  <2> QED
    BY <1>1, <2>1 DEF Start, Channels, Queued, Simple, storeVars
<1>2. CASE StartFails
  BY <1>2, <1>e DEF StartFails, Exit, Channels, Simple, storeVars
<1>3. ASSUME NEW m \in Mirror, FetchList(m) PROVE TInv'
  <2>1. server[m] \in Channel
    BY ServedChannel DEF Channels
  <2> QED
    BY <1>3, <2>1 DEF FetchList, Channels, Queued, Counted, Simple, storeVars
<1>4. CASE QueueUpdates
  <2>1. queue' \subseteq Listed(list) /\ Listed(list) \subseteq File
    BY <1>4, UpdatesListed DEF QueueUpdates, Listed
  <2>2. Cardinality(queue') <= Cardinality(File) /\ Cardinality(queue') \in Nat
    BY <2>1, FS_Subset, FS_CardinalityType, FileAssumption
  <2> QED
    BY <1>4, <2>1, <2>2 DEF QueueUpdates, Channels, Queued, Counted, Simple, storeVars
<1>5. ASSUME NEW f \in File, DownloadFails(f) PROVE TInv'
  <2>1. queue' = queue \ {f} /\ f \in queue /\ failures' = failures + 1
    BY <1>5 DEF DownloadFails
  <2>2. IsFiniteSet(queue)
    BY <1>q, FS_Subset, FileAssumption
  <2>3. Cardinality(queue') = Cardinality(queue) - 1 /\ Cardinality(queue) \in Nat
    BY <2>1, <2>2, FS_RemoveElement, FS_CardinalityType
  <2>4. faults' \in 0..MaxFaults /\ happened' \subseteq FaultKinds
    BY <1>5, <1>f DEF DownloadFails, Simple
  <2>5. Counted'
    BY <1>5, <2>1, <2>3, FS_CardinalityType, FileAssumption DEF DownloadFails, Counted
  <2> QED
    BY <1>5, <2>4, <2>5 DEF DownloadFails, Channels, Queued, Simple, storeVars
<1>6. ASSUME NEW f \in File, CopyStarts(f) PROVE TInv'
  <2>1. disk' \in [File -> Contents]
    BY <1>6, VersionAssumption DEF CopyStarts, Simple, Contents, Partial
  <2>2. server[mirror][f] \in Published(f)
    BY DEF Channels, Simple, Served
  <2>3. body' \in 0..MaxVersion
    BY <1>6, <2>2, PublishedFields DEF CopyStarts
  <2> QED
    BY <1>6, <2>1, <2>3 DEF CopyStarts, Channels, Queued, Counted, Simple, storeVars
<1>7. CASE CopyEnds
  <2>2. body \in Contents /\ body' \in 0..MaxVersion
    BY <1>7, VersionAssumption DEF CopyEnds, Simple, Contents, Partial
  <2>3. disk' \in [File -> Contents]
    BY <1>7, <2>2 DEF CopyEnds, Simple
  <2>4. faults' \in 0..MaxFaults /\ happened' \subseteq FaultKinds
    BY <1>7, <1>f DEF CopyEnds, Simple
  <2> QED
    BY <1>7, <2>2, <2>3, <2>4 DEF CopyEnds, Channels, Queued, Counted, Simple
<1>8. CASE RecordUpdate
  <2>1. /\ local' \in Channel /\ completed' \in Channel
        /\ temp_xml' \in [exists : BOOLEAN, files : Channel]
    <3>1. /\ Merged(local, list, copying) \in Channel
          /\ Merged(completed, list, copying) \in Channel
          /\ Merged(temp_xml.files, list, copying) \in Channel
      BY MergedChannel DEF Channels
    <3>2. temp_xml' = temp_xml
          \/ temp_xml' = [exists |-> TRUE, files |-> Merged(temp_xml.files, list, copying)]
      BY <1>8 DEF RecordUpdate, AppendTemp
    <3>3. ASSUME NEW m \in Channel
          PROVE  [exists |-> TRUE, files |-> m] \in [exists : BOOLEAN, files : Channel]
      OBVIOUS
    <3>4. temp_xml \in [exists : BOOLEAN, files : Channel]
      BY DEF Channels
    <3>5. temp_xml' \in [exists : BOOLEAN, files : Channel]
      BY <3>1, <3>2, <3>3, <3>4, Zenon
    <3>6. /\ local' = Merged(local, list, copying)
          /\ completed' = Merged(completed, list, copying)
      BY <1>8 DEF RecordUpdate
    <3> QED
      BY <3>1, <3>5, <3>6
  <2>2. queue' \subseteq queue
    BY <1>8 DEF RecordUpdate
  <2>3. Counted'
    BY <1>8, <1>q, <2>2, SmallerQueue DEF RecordUpdate, Counted
  <2>4. faults' \in 0..MaxFaults /\ happened' \subseteq FaultKinds
    BY <1>8, <1>f DEF RecordUpdate, Simple
  <2> QED
    BY <1>8, <1>q, <2>1, <2>3, <2>4 DEF RecordUpdate, Channels, Queued, Simple
<1>9. CASE SaveStarts
  <2>1. wfut_xml' \in [state : XmlStates, files : Channel]
    BY <1>9 DEF SaveStarts, Channels, XmlStates
  <2>2. faults' \in 0..MaxFaults /\ happened' \subseteq FaultKinds
    BY <1>9, <1>f DEF SaveStarts, Simple
  <2> QED
    BY <1>9, <2>1, <2>2 DEF SaveStarts, Channels, Queued, Counted, Simple, runVars
<1>10. CASE SaveEnds
  <2>1. wfut_xml' \in [state : XmlStates, files : Channel]
    BY <1>10 DEF SaveEnds, Channels, XmlStates
  <2>2. faults' \in 0..MaxFaults /\ happened' \subseteq FaultKinds
    BY <1>10, <1>f DEF SaveEnds, Simple
  <2> QED
    BY <1>10, <2>1, <2>2 DEF SaveEnds, Channels, Queued, Counted, Simple, runVars
<1>11. CASE Finish
  <2>1. temp_xml' \in [exists : BOOLEAN, files : Channel]
    BY <1>11, EmptyChannel DEF Finish, RemoveTemp
  <2> QED
    BY <1>11, <1>e, <2>1 DEF Finish, Exit, Channels, Simple
<1>12. CASE FetchFails
  BY <1>12, <1>e, <1>f DEF FetchFails, Exit, Channels, Simple, storeVars
<1>13. ASSUME NEW kind, NEW at, Kill(kind, at) PROVE TInv'
  BY <1>13, <1>e, <1>f DEF Kill, Exit, Channels, Simple, storeVars
<1>14. ASSUME NEW m \in Mirror, NEW f \in File, NEW deleted \in BOOLEAN, Publish(m, f, deleted)
       PROVE  TInv'
  <2>1. PICK v \in 1..(MaxVersion - 1) :
          server' = [server EXCEPT ![m][f] = Version(f, v + 1, deleted)]
    BY <1>14 DEF Publish
  <2>2. Version(f, v + 1, deleted) \in Published(f)
    BY VersionPublished, VersionAssumption
  <2>s. [server[m] EXCEPT ![f] = Version(f, v + 1, deleted)] \in Served
    BY <2>2, PublishedFields DEF Channels, Served, FileList
  <2>3. server' \in [Mirror -> Served]
    BY <2>1, <2>s DEF Channels
  <2> QED
    BY <1>14, <2>3 DEF Publish, Channels, Queued, Counted, Simple, storeVars, runVars
<1>15. ASSUME NEW m \in Mirror, NEW n \in Mirror, NEW f \in File, Sync(m, n, f)
       PROVE  TInv'
  <2>s. [server[m] EXCEPT ![f] = server[n][f]] \in Served
    BY DEF Channels, Served, FileList
  <2>1. server' \in [Mirror -> Served]
    BY <1>15, <2>s DEF Sync, Channels
  <2> QED
    BY <1>15, <2>1 DEF Sync, Channels, Queued, Counted, Simple, storeVars, runVars
<1>16. ASSUME NEW f \in File, UserEdits(f) \/ UserDeletes(f) PROVE TInv'
  <2>1. disk' \in [File -> Contents]
    BY <1>16, VersionAssumption
    DEF UserEdits, UserDeletes, Simple, Contents, Partial, Edited
  <2>2. faults' \in 0..MaxFaults /\ happened' \subseteq FaultKinds
    BY <1>16, <1>f DEF UserEdits, UserDeletes
  <2> QED
    BY <1>16, <2>1, <2>2
    DEF UserEdits, UserDeletes, Channels, Queued, Counted, Simple, runVars
<1>17. CASE UserRemovesTemp
  <2>1. temp_xml' \in [exists : BOOLEAN, files : Channel]
    BY <1>17, EmptyChannel DEF UserRemovesTemp
  <2> QED
    BY <1>17, <2>1 DEF UserRemovesTemp, Channels, Queued, Counted, Simple, runVars, FaultKinds
<1>18. CASE UNCHANGED vars
  BY <1>18 DEF vars, storeVars, runVars, Channels, Queued, Counted, Simple
<1> QED
  BY <1>1, <1>2, <1>3, <1>4, <1>5, <1>6, <1>7, <1>8, <1>9, <1>10, <1>11, <1>12, <1>13,
     <1>14, <1>15, <1>16, <1>17, <1>18 DEF Next, Run

\* What has happened stays so.
LEMMA HappenedGrows == [Next]_vars => happened \subseteq happened'
<1>1. ASSUME NEW kind, Fault(kind) PROVE happened \subseteq happened'
  BY <1>1 DEF Fault
<1> QED
  BY <1>1
  DEF Next, Run, Start, StartFails, FetchFails, FetchList, QueueUpdates, DownloadFails,
      CopyStarts, CopyEnds, RecordUpdate, SaveStarts, SaveEnds, Finish, Kill, Publish, Sync,
      UserEdits, UserDeletes, UserRemovesTemp, vars, faultVars

LEMMA Typed == Spec => []TInv
  BY InitTInv, NextTInv, PTL DEF Spec

\* Type correctness of the wfut command, whatever fails and however often.
THEOREM ToolTypeCorrect == Spec => []TypeOK
  BY Typed, TInvTypeOK, PTL

-----------------------------------------------------------------------------
(* RecordSurvives.                                                         *)

\* What RecordSurvives asks of a file.
Remembered(f) == OnRecord(f) \/ (f \notin fresh /\ "killSaving" \in happened)

\* The record is on disk except while wfut.xml is rewritten, when the run has it, and
\* tempwfut.xml that of its own downloads.  No run starts with half a wfut.xml.
RInv ==
  /\ pc # "saving" => \A f \in Listed(completed) : Remembered(f)
  /\ pc # "off" =>
       /\ \A f \in Listed(completed) : local[f] = completed[f]
       /\ \A f \in fresh : temp_xml.exists /\ temp_xml.files[f] = completed[f]
  /\ pc = "saving" => wfut_xml.state = "broken"
  /\ pc = "saved" => wfut_xml = [state |-> "good", files |-> local]
  /\ "killSaving" \in happened => pc = "off" /\ wfut_xml.state = "broken"

\* After recordUpdate of the files in changed, an entry of any of the three lists
\* is the server's, or is what it was.
LEMMA RecordEntries ==
  ASSUME TInv, RecordUpdate, NEW f \in File
  PROVE  /\ completed'[f] = IF f \in copying THEN list[f] ELSE completed[f]
         /\ local'[f] = IF f \in copying THEN list[f] ELSE local[f]
         /\ AppendTemp => /\ temp_xml'.exists
                          /\ temp_xml'.files[f] = IF f \in copying THEN list[f]
                                                  ELSE temp_xml.files[f]
<1>1. completed' = Merged(completed, list, copying) /\ local' = Merged(local, list, copying)
  BY DEF RecordUpdate
<1>2. \A old : Merged(old, list, copying)[f] = IF f \in copying THEN list[f] ELSE old[f]
  BY DEF Merged
<1> QED
  BY <1>1, <1>2 DEF AppendTemp

LEMMA NextRInv ==
  ASSUME ListsWritten', TInv, RInv, [Next]_vars
  PROVE  RInv'
<1> USE DEF reports, faultVars
<1>n. \A kind \in {"record", "save", "removeTemp"} : ~Fault(kind)
  BY DEF ListsWritten, Fault
<1>f. ASSUME NEW kind, Fault(kind), kind # "killSaving"
      PROVE  "killSaving" \in happened' => "killSaving" \in happened
  BY <1>f DEF Fault
<1>k. ASSUME UNCHANGED <<wfut_xml, temp_xml, completed, fresh>>, pc # "saving"
      PROVE  \A f \in Listed(completed)' : Remembered(f)'
  BY <1>k, HappenedGrows DEF RInv, Remembered, OnRecord, Listed
<1>l. ASSUME UNCHANGED <<temp_xml, local, completed, fresh>>, pc # "off"
      PROVE  /\ \A f \in Listed(completed)' : local'[f] = completed'[f]
             /\ \A f \in fresh' : temp_xml'.exists /\ temp_xml'.files[f] = completed'[f]
  BY <1>l DEF RInv, Listed
<1>1. CASE Start
  <2>1. wfut_xml.state # "broken" /\ ~temp_xml.exists /\ UNCHANGED happened
    BY <1>1 DEF Start, Readable
  <2>2. "killSaving" \notin happened
    BY <2>1 DEF RInv
  <2>3. pc = "off" /\ \A f \in Listed(completed) : OnRecord(f)
    BY <1>1, <2>2 DEF Start, RInv, Remembered
  <2>4. \A f \in Listed(completed) : wfut_xml.files[f] = completed[f]
    BY <2>1, <2>3 DEF OnRecord
  <2>5. fresh' = {} /\ UNCHANGED <<completed, wfut_xml, temp_xml>> /\ local' = wfut_xml.files
        /\ pc' = "started"
    BY <1>1 DEF Start, storeVars
  <2>6. \A f \in Listed(completed)' : Remembered(f)'
    BY <2>3, <2>5 DEF Remembered, OnRecord, Listed
  <2> QED
    BY <2>1, <2>2, <2>4, <2>5, <2>6 DEF RInv, Listed
<1>2. CASE StartFails \/ FetchFails
  <2>1. UNCHANGED <<wfut_xml, temp_xml, completed, fresh>> /\ pc \in {"off", "started"} /\ pc' = "off"
    BY <1>2 DEF StartFails, FetchFails, Exit, storeVars
  <2>2. "killSaving" \in happened' => "killSaving" \in happened
    BY <1>2, <1>f DEF StartFails, FetchFails
  <2> QED
    BY <1>k, <2>1, <2>2 DEF RInv
<1>3. ASSUME NEW m \in Mirror, FetchList(m) PROVE RInv'
  BY <1>3, <1>k, <1>l DEF FetchList, RInv, storeVars
<1>4. CASE QueueUpdates
  BY <1>4, <1>k, <1>l DEF QueueUpdates, RInv, storeVars
<1>5. ASSUME NEW f \in File, DownloadFails(f) PROVE RInv'
  <2>1. "killSaving" \in happened' => "killSaving" \in happened
    BY <1>5, <1>f DEF DownloadFails
  <2> QED
    BY <1>5, <1>k, <1>l, <2>1 DEF DownloadFails, RInv, storeVars
<1>6. ASSUME NEW f \in File, CopyStarts(f) PROVE RInv'
  BY <1>6, <1>k, <1>l DEF CopyStarts, RInv
<1>7. CASE CopyEnds
  <2>1. "killSaving" \in happened' => "killSaving" \in happened
    BY <1>7, <1>f DEF CopyEnds
  <2> QED
    BY <1>7, <1>k, <1>l, <2>1 DEF CopyEnds, RInv
<1>8. CASE RecordUpdate
  <2>1. /\ pc = "copied" /\ pc' = "polling" /\ UNCHANGED wfut_xml /\ AppendTemp
        /\ fresh' = fresh \cup copying /\ UNCHANGED happened
    BY <1>8, <1>n DEF RecordUpdate, Fault
  <2>2. fresh \subseteq File /\ copying \subseteq File
    BY QueueInFile DEF TInv, Simple
  <2>3. ASSUME NEW f \in Listed(completed)' PROVE Remembered(f)' /\ local'[f] = completed'[f]
    <3>1. f \in File
      BY DEF Listed
    <3>2. CASE f \in copying
      BY <1>8, <2>1, <3>1, <3>2, RecordEntries DEF Remembered, OnRecord
    <3>3. CASE f \notin copying
      <4>1. completed'[f] = completed[f] /\ f \in Listed(completed)
        BY <1>8, <3>1, <3>3, RecordEntries DEF Listed
      <4>2. Remembered(f) /\ local[f] = completed[f]
        BY <2>1, <4>1 DEF RInv
      <4> QED
        BY <1>8, <2>1, <3>1, <3>3, <4>1, <4>2, RecordEntries DEF Remembered, OnRecord
    <3> QED
      BY <3>2, <3>3
  <2>4. ASSUME NEW f \in fresh' PROVE temp_xml'.exists /\ temp_xml'.files[f] = completed'[f]
    <3>1. f \in File /\ (f \in fresh \/ f \in copying)
      BY <2>1, <2>2
    <3>2. f \in fresh => temp_xml.files[f] = completed[f]
      BY <2>1 DEF RInv
    <3> QED
      BY <1>8, <2>1, <3>1, <3>2, RecordEntries
  <2> QED
    BY <2>1, <2>3, <2>4 DEF RInv
<1>9. CASE SaveStarts
  <2>1. /\ pc' = "saving" /\ pc = "polling" /\ UNCHANGED <<temp_xml, local, completed, fresh>>
        /\ wfut_xml'.state = "broken" /\ UNCHANGED happened
    BY <1>9, <1>n DEF SaveStarts, Fault, runVars, TInv, Channels
  <2> QED
    BY <2>1, <1>l DEF RInv
<1>10. CASE SaveEnds
  <2>1. /\ pc = "saving" /\ pc' = "saved" /\ UNCHANGED <<temp_xml, local, completed, fresh>>
        /\ wfut_xml' = [state |-> "good", files |-> local] /\ UNCHANGED happened
    BY <1>10, <1>n DEF SaveEnds, Fault, runVars
  <2>2. \A f \in Listed(completed)' : local'[f] = completed'[f]
    BY <2>1, <1>l
  <2> QED
    BY <2>1, <2>2, <1>l DEF RInv, Remembered, OnRecord
<1>11. CASE Finish
  <2>1. /\ pc = "saved" /\ pc' = "off" /\ UNCHANGED <<wfut_xml, completed, fresh, happened>>
        /\ wfut_xml = [state |-> "good", files |-> local]
    BY <1>11 DEF Finish, Exit, RInv
  <2>2. \A f \in Listed(completed) : local[f] = completed[f]
    BY <2>1 DEF RInv
  <2>3. "killSaving" \notin happened
    BY <2>1 DEF RInv
  <2> QED
    BY <2>1, <2>2, <2>3 DEF RInv, Remembered, OnRecord, Listed
<1>12. ASSUME NEW kind \in FaultKinds, NEW at, Kill(kind, at), "saving" \notin at,
              "off" \notin at, kind # "killSaving"
       PROVE  RInv'
  <2>1. UNCHANGED <<wfut_xml, temp_xml, completed, fresh>> /\ pc # "saving" /\ pc # "off"
        /\ pc' = "off"
    BY <1>12 DEF Kill, Exit, storeVars
  <2>2. "killSaving" \notin happened'
    BY <1>12, <1>f, <2>1 DEF Kill, RInv
  <2> QED
    BY <1>k, <2>1, <2>2 DEF RInv
<1>13. CASE Kill("killSaving", {"saving"})
  <2>1. /\ pc = "saving" /\ pc' = "off" /\ UNCHANGED <<wfut_xml, temp_xml, completed, fresh>>
        /\ "killSaving" \in happened'
    BY <1>13 DEF Kill, Exit, Fault, storeVars
  <2>2. wfut_xml'.state = "broken" /\ \A f \in fresh : OnRecord(f)'
    BY <2>1 DEF RInv, OnRecord
  <2> QED
    BY <2>1, <2>2 DEF RInv, Remembered
<1>14. ASSUME UNCHANGED <<wfut_xml, temp_xml, pc, local, completed, fresh>>,
              "killSaving" \in happened' => "killSaving" \in happened
       PROVE  RInv'
  BY <1>14, <1>k, <1>l DEF RInv
<1>15. ASSUME NEW m \in Mirror, NEW f \in File, NEW deleted \in BOOLEAN, Publish(m, f, deleted)
       PROVE  RInv'
  BY <1>15, <1>14 DEF Publish, storeVars, runVars
<1>16. ASSUME NEW m \in Mirror, NEW n \in Mirror, NEW f \in File, Sync(m, n, f)
       PROVE  RInv'
  BY <1>16, <1>14 DEF Sync, storeVars, runVars
<1>17. ASSUME NEW f \in File, UserEdits(f) \/ UserDeletes(f) PROVE RInv'
  <2>1. "killSaving" \in happened' => "killSaving" \in happened
    BY <1>17, <1>f DEF UserEdits, UserDeletes
  <2> QED
    BY <1>17, <1>14, <2>1 DEF UserEdits, UserDeletes, runVars
<1>18. ~UserRemovesTemp
  BY DEF UserRemovesTemp, ListsWritten
<1>19. CASE UNCHANGED vars
  BY <1>19, <1>14 DEF vars, storeVars, runVars
<1> QED
  BY <1>1, <1>2, <1>3, <1>4, <1>5, <1>6, <1>7, <1>8, <1>9, <1>10, <1>11, <1>12, <1>13,
     <1>15, <1>16, <1>17, <1>18, <1>19 DEF Next, Run, FaultKinds

\* However a run ends, killed ones included, the completed downloads of all runs are
\* in wfut.xml or tempwfut.xml, up to the first write of one of the two that fails or
\* is undone; after a kill while wfut.xml is written, those of the last run are.
THEOREM CompletedOnRecord == Spec => []RecordSurvives
<1>1. Init => RInv
  BY DEF Init, RInv, Listed, EmptyList
<1>2. TInv /\ (ListsWritten => RInv) /\ [Next]_vars => (ListsWritten' => RInv')
  <2> SUFFICES ASSUME TInv, ListsWritten => RInv, [Next]_vars, ListsWritten'
               PROVE  RInv'
    OBVIOUS
  <2>1. ListsWritten
    BY HappenedGrows DEF ListsWritten
  <2> QED
    BY <2>1, NextRInv
<1>3. (ListsWritten => RInv) => RecordSurvives
  BY DEF RInv, RecordSurvives, Remembered
<1> QED
  BY <1>1, <1>2, <1>3, Typed, PTL DEF Spec

-----------------------------------------------------------------------------
(* The files on disk, as long as every run reaches the end of its polling  *)
(* and what it writes is written in full: by any mirror, with failing      *)
(* downloads, edits and deletions at any time.                             *)

\* The run, or wfut.xml between runs, knows of exactly the completed downloads.
Knows ==
  /\ pc # "off" => completed = local
  /\ pc = "off" /\ wfut_xml.state # "broken" => completed = wfut_xml.files
  /\ pc \in {"started", "fetched"} => wfut_xml.state # "broken" /\ local = wfut_xml.files
  /\ pc = "saving" => wfut_xml.state = "broken"
  /\ pc = "saved" => wfut_xml = [state |-> "good", files |-> local]

\* What is on disk is what was last completed, but for what the user did to it.
OnDisk ==
  \A f \in File \ copying :
    disk[f] \in {Edited, NoFile} \cup
                IF completed[f] = NotListed THEN {} ELSE BodyOf(f, completed[f])

Copied ==
  /\ pc = "copying" => \A f \in copying : body \in BodyOf(f, list[f])
  /\ pc = "copied" => \A f \in copying : disk[f] \in BodyOf(f, list[f])

\* What is queued was missing, and at most the user has put it back, or is out of
\* date, now and not only when it was queued.
QueuedOld ==
  \A f \in queue \ copying :
    \/ completed[f].version < list[f].version
    \/ f \in absent /\ disk[f] \in {Edited, NoFile}

DInv == Knows /\ OnDisk /\ Copied /\ QueuedOld

\* A download is wanted of a file that is missing or older than the server's.
LEMMA WantedFiles ==
  ASSUME NEW srv, NEW sys, NEW loc \in Channel, NEW dsk, NEW f \in Updates(srv, sys, loc, dsk),
         srv[f] \in Published(f)
  PROVE  dsk[f] = NoFile \/ loc[f].version < srv[f].version
<1>1. CASE loc[f] = NotListed
  <2>1. loc[f].version = -1 /\ srv[f].version \in 1..MaxVersion
    BY <1>1, PublishedFields DEF NotListed
  <2> QED
    BY <2>1, VersionAssumption
<1>2. CASE loc[f] # NotListed
  <2>1. f \in File /\ loc[f] \in Published(f)
    BY <1>2 DEF Updates, Listed, Channel
  <2>2. ReasonWithLocal(srv[f], loc[f], dsk[f]) \in Downloads
    BY <1>2, PublishedFields DEF Updates, Reason, Downloads
  <2> QED
    BY <2>1, <2>2, PublishedFields DEF ReasonWithLocal, Downloads
<1> QED
  BY <1>1, <1>2

\* What a mirror sends is the file listed or, for an empty one, a newer one.
LEMMA AcceptedBody ==
  ASSUME TInv, NEW f \in queue, Accepted(f)
  PROVE  server[mirror][f].crc32 \in BodyOf(f, list[f])
<1> DEFINE o == server[mirror][f]
<1>1. f \in File /\ list[f] \in Published(f) /\ o \in Published(f)
  BY DEF TInv, Queued, Listed, Channels, Channel, Served, Simple
<1>2. /\ o.crc32 = Crc(f, o.version) /\ o.version \in 1..MaxVersion
      /\ list[f].version \in 1..MaxVersion
  BY <1>1, PublishedFields
<1>3. list[f].version <= o.version
  BY <1>1 DEF TInv, Behind
<1>4. CASE list[f].crc32 = 0
  <2>1. o.version \in list[f].version..MaxVersion
    BY <1>2, <1>3, VersionAssumption
  <2> QED
    BY <1>2, <1>4, <2>1 DEF BodyOf
<1>5. CASE list[f].crc32 # 0
  BY <1>5 DEF Accepted, BodyOf
<1> QED
  BY <1>4, <1>5

LEMMA NextDInv ==
  ASSUME RunsFinished', TInv, DInv, [Next]_vars
  PROVE  DInv'
<1> USE DEF DInv, reports
<1>n. \A kind \in {"killPolling", "killCopying", "shortCopy", "save"} : ~Fault(kind)
  BY DEF RunsFinished, Fault
<1>d. ASSUME UNCHANGED <<disk, completed, copying>> PROVE OnDisk'
  BY <1>d DEF OnDisk
<1>q. ASSUME UNCHANGED <<disk, completed, copying, list, absent>>, queue' \subseteq queue
      PROVE  QueuedOld'
  BY <1>q DEF QueuedOld
<1>i. pc \in {"off", "started", "fetched"} => queue = {} /\ copying = {}
  BY DEF TInv, Queued
<1>c. pc \notin {"copying", "copied"} => copying = {}
  BY DEF TInv, Queued
<1>x. ASSUME NEW code, Exit(code), UNCHANGED <<disk, completed>>, copying = {}
      PROVE  OnDisk' /\ Copied' /\ QueuedOld'
  BY <1>x DEF Exit, OnDisk, Copied, QueuedOld
<1>1. CASE Start
  BY <1>1, <1>d, <1>q DEF Start, Readable, Knows, Copied, storeVars
<1>2. CASE StartFails \/ FetchFails
  <2>1. Knows'
    BY <1>2 DEF StartFails, FetchFails, Exit, Knows, storeVars
  <2> QED
    BY <1>2, <1>i, <1>x, <2>1 DEF StartFails, FetchFails, storeVars
<1>3. ASSUME NEW m \in Mirror, FetchList(m) PROVE DInv'
  BY <1>3, <1>d, <1>i DEF FetchList, Knows, Copied, QueuedOld, storeVars
<1>4. CASE QueueUpdates
  <2>1. /\ queue' = Updates(list, System, local, disk) /\ completed = local
        /\ absent' = {f \in File : disk[f] = NoFile}
        /\ local \in Channel /\ list \in Channel
        /\ UNCHANGED <<disk, completed, list, copying>> /\ copying = {}
    BY <1>4, <1>c DEF QueueUpdates, Knows, TInv, Channels, storeVars
  <2>2. \A f \in queue' : f \in File /\ list[f] \in Published(f)
    BY <2>1, UpdatesListed DEF Listed, Channel
  <2>3. QueuedOld'
    BY <2>1, <2>2, WantedFiles DEF QueuedOld
  <2> QED
    BY <1>4, <1>d, <2>3 DEF QueueUpdates, Knows, Copied, storeVars
<1>5. ASSUME NEW f \in File, DownloadFails(f) PROVE DInv'
  <2>1. QueuedOld'
    BY <1>5, <1>q DEF DownloadFails, storeVars
  <2> QED
    BY <1>5, <1>d, <2>1 DEF DownloadFails, Knows, Copied, storeVars
<1>6. ASSUME NEW f \in File, CopyStarts(f) PROVE DInv'
  <2>1. /\ copying' = {f} /\ copying = {} /\ body' = server[mirror][f].crc32
        /\ UNCHANGED <<completed, list, queue, wfut_xml, local, absent>>
        /\ pc = "polling" /\ pc' = "copying"
    BY <1>6, <1>c DEF CopyStarts
  <2>2. \A g \in File \ {f} : disk'[g] = disk[g]
    BY <1>6 DEF CopyStarts, TInv, Simple
  <2>c. body' \in BodyOf(f, list[f])
    BY <1>6, <2>1, AcceptedBody DEF CopyStarts
  <2>3. queue \subseteq File
    BY QueueInFile
  <2>4. OnDisk'
    BY <2>1, <2>2 DEF OnDisk
  <2>5. QueuedOld'
    BY <2>1, <2>2, <2>3 DEF QueuedOld
  <2> QED
    BY <2>1, <2>4, <2>5, <2>c DEF Knows, Copied, BodyOf, Crc
<1>7. CASE CopyEnds
  <2>1. /\ disk' = [f \in File |-> IF f \in copying THEN body ELSE disk[f]]
        /\ UNCHANGED <<completed, list, queue, copying, wfut_xml, local, absent>>
        /\ pc = "copying" /\ pc' = "copied"
    BY <1>7, <1>n DEF CopyEnds, Fault
  <2>2. queue \subseteq File /\ copying \subseteq File
    BY QueueInFile
  <2>3. \A f \in File : disk'[f] = IF f \in copying THEN body ELSE disk[f]
    BY <2>1
  <2>4. Copied'
    BY <2>1, <2>2, <2>3 DEF Copied, BodyOf, Crc
  <2>5. OnDisk'
    BY <2>1, <2>3 DEF OnDisk
  <2>6. QueuedOld'
    BY <2>1, <2>2, <2>3 DEF QueuedOld
  <2> QED
    BY <2>1, <2>4, <2>5, <2>6 DEF Knows
<1>8. CASE RecordUpdate
  <2>1. /\ pc = "copied" /\ pc' = "polling" /\ copying' = {} /\ queue' = queue \ copying
        /\ UNCHANGED <<disk, list, wfut_xml, absent>>
        /\ local' = Merged(local, list, copying) /\ completed' = Merged(completed, list, copying)
    BY <1>8 DEF RecordUpdate
  <2>2. queue \subseteq File /\ copying \subseteq File /\ copying \subseteq Listed(list)
    BY QueueInFile DEF TInv, Queued
  <2>3. \A f \in File : completed'[f] = IF f \in copying THEN list[f] ELSE completed[f]
    BY <1>8, RecordEntries
  <2>4. OnDisk'
    BY <2>1, <2>2, <2>3 DEF OnDisk, Copied, Listed
  <2>5. QueuedOld'
    BY <2>1, <2>2, <2>3 DEF QueuedOld
  <2>6. Knows'
    BY <2>1 DEF Knows
  <2> QED
    BY <2>1, <2>4, <2>5, <2>6 DEF Copied
<1>9. CASE SaveStarts
  <2>1. /\ pc' = "saving" /\ pc = "polling" /\ UNCHANGED <<disk, runVars, completed>>
        /\ wfut_xml'.state = "broken"
    BY <1>9, <1>n DEF SaveStarts, Fault, TInv, Channels
  <2> QED
    BY <2>1, <1>d, <1>q DEF Knows, Copied, runVars
<1>10. CASE SaveEnds
  <2>1. /\ pc = "saving" /\ pc' = "saved" /\ UNCHANGED <<disk, runVars, completed>>
        /\ wfut_xml' = [state |-> "good", files |-> local]
    BY <1>10, <1>n DEF SaveEnds, Fault
  <2> QED
    BY <2>1, <1>d, <1>q DEF Knows, Copied, runVars
<1>11. CASE Finish
  <2>1. Knows'
    BY <1>11 DEF Finish, Exit, Knows
  <2> QED
    BY <1>11, <1>c, <1>x, <2>1 DEF Finish
<1>12. ASSUME NEW kind, NEW at, Kill(kind, at), at \subseteq {"started", "fetched", "saving", "saved"}
       PROVE  DInv'
  <2>1. pc \in {"started", "fetched", "saving", "saved"} /\ Exit(Killed)
        /\ UNCHANGED <<disk, wfut_xml, completed>>
    BY <1>12 DEF Kill, storeVars
  <2>2. Knows'
    BY <2>1 DEF Exit, Knows
  <2>3. copying = {}
    BY <2>1, <1>c
  <2> QED
    BY <2>1, <2>2, <2>3, <1>x
<1>13. ~Kill("killPolling", {"polling", "copied"}) /\ ~Kill("killCopying", {"copying"})
  BY <1>n DEF Kill, Fault
<1>14. ASSUME UNCHANGED <<disk, wfut_xml, pc, runVars, completed>> PROVE DInv'
  BY <1>14, <1>d, <1>q DEF Knows, Copied, runVars
<1>15. ASSUME NEW m \in Mirror, NEW f \in File, NEW deleted \in BOOLEAN, Publish(m, f, deleted)
       PROVE  DInv'
  BY <1>15, <1>14 DEF Publish, storeVars
<1>16. ASSUME NEW m \in Mirror, NEW n \in Mirror, NEW f \in File, Sync(m, n, f)
       PROVE  DInv'
  BY <1>16, <1>14 DEF Sync, storeVars
<1>17. ASSUME NEW f \in File, UserEdits(f) \/ UserDeletes(f) PROVE DInv'
  <2>1. /\ f \notin copying
        /\ disk' = [disk EXCEPT ![f] = Edited] \/ disk' = [disk EXCEPT ![f] = NoFile]
        /\ UNCHANGED <<wfut_xml, pc, local, list, queue, copying, body, completed, absent>>
    BY <1>17 DEF UserEdits, UserDeletes, runVars
  <2>2. \A g \in File \ {f} : disk'[g] = disk[g]
    BY <2>1 DEF TInv, Simple
  <2>3. disk'[f] \in {Edited, NoFile}
    BY <2>1 DEF TInv, Simple
  <2>4. queue \subseteq File /\ copying \subseteq File
    BY QueueInFile
  <2> QED
    BY <2>1, <2>2, <2>3, <2>4 DEF Knows, OnDisk, Copied, QueuedOld
<1>18. CASE UserRemovesTemp
  BY <1>18, <1>14 DEF UserRemovesTemp
<1>19. CASE UNCHANGED vars
  BY <1>19, <1>14 DEF vars, storeVars
<1> QED
  BY <1>1, <1>2, <1>3, <1>4, <1>5, <1>6, <1>7, <1>8, <1>9, <1>10, <1>11, <1>12, <1>13,
     <1>15, <1>16, <1>17, <1>18, <1>19 DEF Next, Run

\* Only CopyStarts overwrites a file.
LEMMA OnlyCopyOverwrites ==
  ASSUME [Next]_vars, NEW f \in Overwritten
  PROVE  f \in File /\ CopyStarts(f)
<1>1. ASSUME NEW g \in File, CopyStarts(g) PROVE f = g
  BY <1>1 DEF CopyStarts, Overwritten
<1>2. ASSUME copying' = copying \/ copying' = {} PROVE FALSE
  BY <1>2 DEF Overwritten
<1> QED
  BY <1>1, <1>2
  DEF Next, Run, Start, StartFails, FetchFails, FetchList, QueueUpdates, DownloadFails,
      CopyEnds, RecordUpdate, SaveStarts, SaveEnds, Finish, Kill, Exit, Publish, Sync, UserEdits,
      UserDeletes, UserRemovesTemp, vars, runVars

LEMMA OverwrittenIsOld ==
  ASSUME TInv, DInv, [Next]_vars, NEW f \in Overwritten
  PROVE  /\ f \in File \ copying
         /\ \/ completed[f].version < list[f].version
            \/ f \in absent /\ disk[f] \in {Edited, NoFile}
  BY OnlyCopyOverwrites DEF CopyStarts, DInv, QueuedOld, TInv, Queued, Overwritten

LEMMA StepEditsKept ==
  ASSUME TInv, DInv, [Next]_vars, NEW f \in Overwritten
  PROVE  completed[f].version < list[f].version \/ f \in absent
  BY OverwrittenIsOld

LEMMA StepNoDowngrade ==
  ASSUME TInv, DInv, [Next]_vars, NEW f \in Overwritten, disk[f] \in 1..MaxVersion
  PROVE  disk[f] < list[f].version \/ (f \in Listed(completed) /\ completed[f].crc32 = 0)
<1>1. disk[f] # NoFile /\ disk[f] # Edited
  BY VersionAssumption DEF NoFile, Edited
<1>2. completed[f].version < list[f].version /\ f \in File \ copying
  BY <1>1, OverwrittenIsOld
<1>3. completed[f] # NotListed /\ disk[f] \in BodyOf(f, completed[f])
  BY <1>1, <1>2 DEF DInv, OnDisk
<1>4. f \in Listed(completed) /\ completed[f].crc32 \in {0, completed[f].version}
  BY <1>2, <1>3, PublishedFields DEF TInv, Channels, Channel, Listed
<1>5. CASE completed[f].crc32 # 0
  <2>1. disk[f] = completed[f].version
    BY <1>3, <1>4, <1>5 DEF BodyOf
  <2> QED
    BY <1>2, <2>1
<1> QED
  BY <1>4, <1>5

LEMMA DInvTruthful ==
  ASSUME TInv, DInv
  PROVE  ListTruthful
<1> SUFFICES ASSUME pc = "off", wfut_xml.state = "good", NEW f \in Listed(wfut_xml.files)
             PROVE  disk[f] \in BodyOf(f, wfut_xml.files[f]) \cup {Edited, NoFile}
  BY DEF ListTruthful
<1>1. completed = wfut_xml.files /\ copying = {}
  BY DEF TInv, Queued, DInv, Knows
<1> QED
  BY <1>1 DEF DInv, OnDisk, Listed

LEMMA FilesInv == Spec => [](RunsFinished => DInv)
<1>1. Init => DInv
  BY DEF Init, DInv, Knows, OnDisk, Copied, QueuedOld, EmptyList
<1>2. TInv /\ (RunsFinished => DInv) /\ [Next]_vars => (RunsFinished' => DInv')
  <2> SUFFICES ASSUME TInv, RunsFinished => DInv, [Next]_vars, RunsFinished'
               PROVE  DInv'
    OBVIOUS
  <2>1. RunsFinished
    BY HappenedGrows DEF RunsFinished
  <2> QED
    BY <2>1, NextDInv
<1> QED
  BY <1>1, <1>2, Typed, PTL DEF Spec

\* wfut.xml tells the truth about the files, for any number of mirrors, but for a
\* file it lists as empty, of which it cannot.
THEOREM ListIsTruthful == Spec => []ListTruthful
<1>1. TInv /\ (RunsFinished => DInv) => ListTruthful
  BY DInvTruthful DEF ListTruthful
<1> QED
  BY <1>1, FilesInv, Typed, PTL

\* A modified file survives every run that has no newer version of it, also when it
\* was modified while the run was going on, unless the run had found it missing.
THEOREM ModifiedFilesKept == Spec => EditsKept
<1>1. TInv /\ (RunsFinished => DInv) /\ [Next]_vars =>
        [RunsFinished => \A f \in Overwritten :
           disk[f] = Edited => completed[f].version < list[f].version \/ f \in absent]_vars
  BY StepEditsKept
<1> QED
  BY <1>1, FilesInv, Typed, PTL DEF Spec, EditsKept

\* No mirror, however stale, makes a run replace a file by an older version, unless
\* the file is one that was taken for an empty one.
THEOREM NeverDowngraded == Spec => NoDowngrade
<1>1. TInv /\ (RunsFinished => DInv) /\ [Next]_vars =>
        [RunsFinished => \A f \in Overwritten :
           disk[f] \in 1..MaxVersion =>
             disk[f] < list[f].version \/ (f \in Listed(completed) /\ completed[f].crc32 = 0)]_vars
  BY StepNoDowngrade
<1> QED
  BY <1>1, FilesInv, Typed, PTL DEF Spec, NoDowngrade

-----------------------------------------------------------------------------
(* calculateUpdates itself.                                                *)

\* Once every file it asked for has been downloaded and put on the local list,
\* calculateUpdates asks for nothing more, whatever the three lists and the disk were.
THEOREM NothingLeft ==
  ASSUME NEW srv \in FileList, NEW sys, NEW loc, NEW dsk, NEW updates,
         updates = Updates(srv, sys, loc, dsk)
  PROVE  Updates(srv, sys, Merged(loc, srv, updates),
                 [f \in File |-> IF f \in updates THEN srv[f].crc32 ELSE dsk[f]]) = {}
<1> DEFINE loc2 == Merged(loc, srv, updates)
           dsk2 == [f \in File |-> IF f \in updates THEN srv[f].crc32 ELSE dsk[f]]
<1>1. SUFFICES ASSUME NEW f \in Listed(srv),
                      Reason(srv[f], sys[f], loc2[f], dsk2[f]) \in Downloads
               PROVE  FALSE
  BY DEF Updates
<1>2. f \in File /\ srv[f] \in FileObject
  BY DEF Listed, FileList
<1>3. CASE f \in updates
  <2>1. loc2[f] = srv[f] /\ dsk2[f] = srv[f].crc32
    BY <1>2, <1>3 DEF Merged
  <2>2. ~(srv[f].version > srv[f].version) /\ srv[f].crc32 # NoFile
    BY <1>2 DEF FileObject, NoFile
  <2>3. srv[f] # NotListed
    BY DEF Listed
  <2> QED
    BY <1>1, <2>1, <2>2, <2>3 DEF Reason, ReasonWithLocal, Downloads
<1>4. CASE f \notin updates
  <2>1. loc2[f] = loc[f] /\ dsk2[f] = dsk[f]
    BY <1>2, <1>4 DEF Merged
  <2> QED
    BY <1>1, <1>4, <2>1 DEF Updates
<1> QED
  BY <1>3, <1>4
====
