------------------------------ MODULE UpdateTool ------------------------------
(***************************************************************************)
(* The wfut command (src/src/wfut.cpp): one run after another on one       *)
(* channel directory, with what they leave on disk - the files,            *)
(* wfut.xml and tempwfut.xml - and the server's mirrors, which publish     *)
(* new versions meanwhile.                                                 *)
(*                                                                         *)
(* A run may be killed, downloads may fail, writes may fail and the user   *)
(* may edit and delete files: each is a fault, of the kinds in Faults and  *)
(* at most MaxFaults of them.  Version v of a file has the crc32 v, or 0   *)
(* if the file is empty in that version; Edited and Partial are the crc32  *)
(* of a file with content of the user's own and of one that was written in *)
(* part.                                                                   *)
(*                                                                         *)
(* Of the download queue this module uses what DownloadQueue establishes   *)
(* (OneSignal, TargetVerified, EverySignalled): a queued file completes,   *)
(* with a body of the crc32 listed or, if that is 0, with any body, or it  *)
(* fails, once.                                                            *)
(***************************************************************************)
EXTENDS CalculateUpdates, FiniteSets

CONSTANTS
  Mirror,      \* the servers a run may choose among
  MaxVersion,  \* bound on the versions published
  Empty,       \* <<f, v>>: f is an empty file in its version v
  System,      \* the list of the system location
  Faults,      \* the kinds of fault that happen
  MaxFaults    \* bound on how many happen

FaultKinds ==
  {"killStarting", "killPolling", "killCopying", "killSaving", "killSaved",
   "fetch", "download", "shortCopy", "record", "save", "edit", "delete", "removeTemp"}

ASSUME FileAssumption == IsFiniteSet(File)

ASSUME VersionAssumption == MaxVersion \in Nat \ {0}

ASSUME EmptyAssumption == Empty \subseteq File \X Nat

ASSUME SystemAssumption == System \in FileList

ASSUME FaultAssumption == Faults \subseteq FaultKinds /\ MaxFaults \in Nat

VARIABLES
  server,     \* what each mirror publishes
  disk,       \* the files of the channel directory
  wfut_xml,   \* wfut.xml: its list, or whether it is absent or broken
  temp_xml,   \* tempwfut.xml: what was appended to it, and whether it exists
  pc,         \* where the run is, "off" between runs
  local,      \* the run's list of local files
  list,       \* the server's list the run works from
  mirror,     \* the mirror it came from
  queue,      \* the files queued and not yet answered
  copying,    \* the file being copied to its target
  body,       \* the crc32 of what is copied there, 0 if nothing is
  failures,   \* how many of the run's downloads have failed
  status,     \* how the last run ended: its exit status, or Killed
  completed,  \* history: the version last reported complete of each file
  fresh,      \* history: the files the last run reported complete
  absent,     \* history: the files the run found missing when it determined updates
  faults,     \* how many faults have happened
  happened    \* history: the kinds they were of

storeVars == <<disk, wfut_xml, temp_xml>>
runVars   == <<local, list, mirror, queue, copying, body, failures, absent>>
reports   == <<completed, fresh>>
faultVars == <<faults, happened>>
vars      == <<server, storeVars, pc, runVars, status, reports, faultVars>>

Edited  == MaxVersion + 1
Partial == MaxVersion + 2

Killed == -1

Crc(f, v) == IF <<f, v>> \in Empty THEN 0 ELSE v

Version(f, v, deleted) == [version |-> v, crc32 |-> Crc(f, v), deleted |-> deleted]

Init ==
  /\ server = [m \in Mirror |-> [f \in File |-> Version(f, 1, FALSE)]]
  /\ disk = [f \in File |-> NoFile]
  /\ wfut_xml = [state |-> "absent", files |-> EmptyList]
  /\ temp_xml = [exists |-> FALSE, files |-> EmptyList]
  /\ pc = "off"
  /\ local = EmptyList
  /\ list = EmptyList
  /\ mirror \in Mirror
  /\ queue = {}
  /\ copying = {}
  /\ body = 0
  /\ failures = 0
  /\ status = 0
  /\ completed = EmptyList
  /\ fresh = {}
  /\ absent = {}
  /\ faults = 0
  /\ happened = {}

Fault(kind) ==
  /\ kind \in Faults
  /\ faults < MaxFaults
  /\ faults' = faults + 1
  /\ happened' = happened \cup {kind}

-----------------------------------------------------------------------------
(* The world around the command.                                           *)

IsNewest(f, v) ==
  /\ \E m \in Mirror : server[m][f].version = v
  /\ \A m \in Mirror : server[m][f].version <= v

\* A new version appears on one mirror; the others copy it later.
Publish(m, f, deleted) ==
  /\ \E v \in 1..(MaxVersion - 1) :
       /\ IsNewest(f, v)
       /\ server' = [server EXCEPT ![m][f] = Version(f, v + 1, deleted)]
  /\ UNCHANGED <<storeVars, pc, runVars, status, reports, faultVars>>

Sync(m, n, f) ==
  /\ server[m][f].version < server[n][f].version
  /\ server' = [server EXCEPT ![m][f] = server[n][f]]
  /\ UNCHANGED <<storeVars, pc, runVars, status, reports, faultVars>>

\* The user changes a file, or puts one where there is none.
UserEdits(f) ==
  /\ f \notin copying
  /\ disk[f] # Edited
  /\ Fault("edit")
  /\ disk' = [disk EXCEPT ![f] = Edited]
  /\ UNCHANGED <<server, wfut_xml, temp_xml, pc, runVars, status, reports>>

UserDeletes(f) ==
  /\ f \notin copying
  /\ disk[f] # NoFile
  /\ Fault("delete")
  /\ disk' = [disk EXCEPT ![f] = NoFile]
  /\ UNCHANGED <<server, wfut_xml, temp_xml, pc, runVars, status, reports>>

\* Told "Error reading tmpwfut.xml file", the user removes it.
UserRemovesTemp ==
  /\ pc = "off" /\ status = 1
  /\ temp_xml.exists
  /\ "removeTemp" \in Faults
  /\ temp_xml' = [exists |-> FALSE, files |-> EmptyList]
  /\ happened' = happened \cup {"removeTemp"}
  /\ UNCHANGED <<server, disk, wfut_xml, pc, runVars, status, reports, faults>>

-----------------------------------------------------------------------------
(* A run, in the order of main.                                            *)

Exit(code) ==
  /\ pc' = "off"
  /\ status' = code
  /\ queue' = {} /\ copying' = {}
  /\ body' = 0
  /\ absent' = {}

\* recordUpdate never writes the end tag of fileList, so parseFileList fails on
\* any tempwfut.xml there is.
Readable == wfut_xml.state # "broken" /\ ~temp_xml.exists

\* The local lists are read; a parse error ends the run.
Start ==
  /\ pc = "off"
  /\ Readable
  /\ local' = wfut_xml.files
  /\ failures' = 0
  /\ fresh' = {}
  /\ pc' = "started"
  /\ UNCHANGED <<server, storeVars, list, mirror, queue, copying, body, status, completed,
                 absent, faultVars>>

StartFails ==
  /\ pc = "off"
  /\ ~Readable
  /\ Exit(1)
  /\ UNCHANGED <<server, storeVars, local, list, mirror, failures, reports, faultVars>>

\* A mirror is picked at random, and its list downloaded.
FetchList(m) ==
  /\ pc = "started"
  /\ mirror' = m
  /\ list' = server[m]
  /\ pc' = "fetched"
  /\ UNCHANGED <<server, storeVars, local, queue, copying, body, failures, status, reports,
                 absent, faultVars>>

FetchFails ==
  /\ pc = "started"
  /\ Fault("fetch")
  /\ Exit(1)
  /\ UNCHANGED <<server, storeVars, local, list, mirror, failures, reports>>

\* calculateUpdates, then updateChannel.
QueueUpdates ==
  /\ pc = "fetched"
  /\ queue' = Updates(list, System, local, disk)
  /\ absent' = {f \in File : disk[f] = NoFile}
  /\ pc' = "polling"
  /\ UNCHANGED <<server, storeVars, local, list, mirror, copying, body, failures, status,
                 reports, faultVars>>

\* poll takes any body for a file whose listed crc32 is 0, and curl makes an error
\* of a file that is not on the server.
Accepted(f) ==
  /\ ~server[mirror][f].deleted
  /\ list[f].crc32 \in {0, server[mirror][f].crc32}

DownloadFailsByFaultOnly(f) ==
  /\ pc = "polling" /\ f \in queue
  /\ Fault("download")
  /\ queue' = queue \ {f}
  /\ failures' = failures + 1
  /\ UNCHANGED <<server, storeVars, pc, local, list, mirror, copying, body, status, reports,
                 absent>>

DownloadFailsAgain(f) ==
  /\ pc = "polling" /\ f \in queue
  /\ ~Accepted(f)
  /\ failures' = failures + 1
  /\ UNCHANGED <<server, storeVars, pc, local, list, mirror, queue, copying, body, status,
                 reports, absent, faultVars>>

\* A mirror that has moved on since the list was fetched has another body than
\* the one listed, or none.  The signal handler increments its copy of the pointer to error.
DownloadFails(f) ==
  /\ pc = "polling" /\ f \in queue
  /\ \/ ~Accepted(f) /\ UNCHANGED faultVars
     \/ Fault("download")
  /\ queue' = queue \ {f}
  /\ failures' = failures + 1
  /\ UNCHANGED <<server, storeVars, pc, local, list, mirror, copying, body, status, reports,
                 absent>>

\* The body has arrived and is accepted.  Its target is truncated, and until the
\* copy ends it is empty or holds a part of the body.
CopyStarts(f) ==
  /\ pc = "polling" /\ f \in queue
  /\ Accepted(f)
  /\ body' = server[mirror][f].crc32
  /\ \E part \in IF body' = 0 THEN {0} ELSE {0, Partial} : disk' = [disk EXCEPT ![f] = part]
  /\ copying' = {f}
  /\ pc' = "copying"
  /\ UNCHANGED <<server, wfut_xml, temp_xml, local, list, mirror, queue, failures,
                 status, reports, absent, faultVars>>

CopyEnds ==
  /\ pc = "copying"
  /\ \/ disk' = [f \in File |-> IF f \in copying THEN body ELSE disk[f]]
        /\ UNCHANGED faultVars
     \/ body # 0 /\ Fault("shortCopy") /\ UNCHANGED disk
  /\ body' = 0
  /\ pc' = "copied"
  /\ UNCHANGED <<server, wfut_xml, temp_xml, local, list, mirror, queue, copying, failures,
                 status, reports, absent>>

\* The entries of the files in changed come from new, the others from old.
Merged(old, new, changed) == [f \in File |-> IF f \in changed THEN new[f] ELSE old[f]]

AppendTemp == temp_xml' = [exists |-> TRUE, files |-> Merged(temp_xml.files, list, copying)]

RecordUpdateOfQueue ==
  /\ pc = "copied"
  /\ local' = Merged(local, list, queue)
  /\ AppendTemp
  /\ completed' = Merged(completed, list, copying)
  /\ fresh' = fresh \cup copying
  /\ queue' = queue \ copying
  /\ copying' = {}
  /\ pc' = "polling"
  /\ UNCHANGED <<server, disk, wfut_xml, list, mirror, body, failures, status, absent,
                 faultVars>>

RecordUpdateInLocalOnly ==
  /\ pc = "copied"
  /\ local' = Merged(local, list, copying)
  /\ completed' = Merged(completed, list, copying)
  /\ fresh' = fresh \cup copying
  /\ queue' = queue \ copying
  /\ copying' = {}
  /\ pc' = "polling"
  /\ UNCHANGED <<server, disk, wfut_xml, temp_xml, list, mirror, body, failures, status,
                 absent, faultVars>>

\* onDownloadComplete: the local list, then recordUpdate, which gives up when
\* it cannot open tempwfut.xml.
RecordUpdate ==
  /\ pc = "copied"
  /\ local' = Merged(local, list, copying)
  /\ \/ AppendTemp /\ UNCHANGED faultVars
     \/ Fault("record") /\ UNCHANGED temp_xml
  /\ completed' = Merged(completed, list, copying)
  /\ fresh' = fresh \cup copying
  /\ queue' = queue \ copying
  /\ copying' = {}
  /\ pc' = "polling"
  /\ UNCHANGED <<server, disk, wfut_xml, list, mirror, body, failures, status, absent>>

\* poll has returned 0: saveLocalList opens wfut.xml, which empties it, or cannot
\* open it.
SaveStarts ==
  /\ pc = "polling" /\ queue = {}
  /\ \/ wfut_xml' = [wfut_xml EXCEPT !.state = "broken"] /\ pc' = "saving"
        /\ UNCHANGED faultVars
     \/ Fault("save") /\ pc' = "saved" /\ UNCHANGED wfut_xml
  /\ UNCHANGED <<server, disk, temp_xml, runVars, status, reports>>

\* What saveLocalList returns is not looked at.
SaveEnds ==
  /\ pc = "saving"
  /\ \/ wfut_xml' = [state |-> "good", files |-> local] /\ UNCHANGED faultVars
     \/ Fault("save") /\ UNCHANGED wfut_xml
  /\ pc' = "saved"
  /\ UNCHANGED <<server, disk, temp_xml, runVars, status, reports>>

RemoveTemp == temp_xml' = [exists |-> FALSE, files |-> EmptyList]

\* The exit status is error, which is still 0.
Finish ==
  /\ pc = "saved"
  /\ RemoveTemp
  /\ Exit(0)
  /\ UNCHANGED <<server, disk, wfut_xml, local, list, mirror, failures, reports, faultVars>>

\* The process dies at a point of its run.
Kill(kind, at) ==
  /\ pc \in at
  /\ Fault(kind)
  /\ Exit(Killed)
  /\ UNCHANGED <<server, storeVars, local, list, mirror, failures, reports>>

Run ==
  \/ Start
  \/ StartFails
  \/ \E m \in Mirror : FetchList(m)
  \/ QueueUpdates
  \/ \E f \in File : DownloadFails(f) \/ CopyStarts(f)
  \/ CopyEnds
  \/ RecordUpdate
  \/ SaveStarts
  \/ SaveEnds
  \/ Finish

Next ==
  \/ Run
  \/ FetchFails
  \/ Kill("killStarting", {"started", "fetched"})
  \/ Kill("killPolling", {"polling", "copied"})
  \/ Kill("killCopying", {"copying"})
  \/ Kill("killSaving", {"saving"})
  \/ Kill("killSaved", {"saved"})
  \/ \E m \in Mirror, f \in File, deleted \in BOOLEAN : Publish(m, f, deleted)
  \/ \E m, n \in Mirror, f \in File : Sync(m, n, f)
  \/ \E f \in File : UserEdits(f) \/ UserDeletes(f)
  \/ UserRemovesTemp

Spec == Init /\ [][Next]_vars

-----------------------------------------------------------------------------
(* Safety.                                                                 *)

XmlStates == {"absent", "good", "broken"}

Contents == 0..Partial \cup {NoFile}

\* Every variable holds a value of its type.
TypeOK ==
  /\ server \in [Mirror -> FileList]
  /\ disk \in [File -> Contents]
  /\ wfut_xml \in [state : XmlStates, files : FileList]
  /\ temp_xml \in [exists : BOOLEAN, files : FileList]
  /\ pc \in {"off", "started", "fetched", "polling", "copying", "copied", "saving", "saved"}
  /\ local \in FileList /\ list \in FileList /\ completed \in FileList
  /\ mirror \in Mirror
  /\ queue \subseteq File /\ copying \subseteq File
  /\ fresh \subseteq File /\ absent \subseteq File
  /\ body \in 0..MaxVersion
  /\ failures \in 0..Cardinality(File)
  /\ status \in {0, 1, Killed}
  /\ faults \in 0..MaxFaults
  /\ happened \subseteq FaultKinds

\* What has not gone wrong so far.
ListsWritten == happened \cap {"record", "save", "removeTemp"} = {}

RunsFinished == happened \cap {"killPolling", "killCopying", "shortCopy", "save"} = {}

OnRecord(f) ==
  \/ wfut_xml.state = "good" /\ wfut_xml.files[f] = completed[f]
  \/ temp_xml.exists /\ temp_xml.files[f] = completed[f]

\* "We only keep it around in case of an abnormal exit and the real wfut.xml has
\* not been saved" (wfut.cpp): between runs, however the last one ended, the last
\* version reported complete of each file is in wfut.xml or in tempwfut.xml, as
\* long as no write of the two failed and tempwfut.xml was not removed by hand.  A
\* kill while wfut.xml is written leaves the files of that run on record, in
\* tempwfut.xml, but not those of runs before it.
RecordSurvives ==
  pc = "off" /\ ListsWritten =>
    \A f \in Listed(completed) :
      OnRecord(f) \/ (f \notin fresh /\ "killSaving" \in happened)

\* What poll takes for the entry f has in a list: its version of the file or, when
\* that one is empty, any newer one that a mirror has by then.
BodyOf(f, entry) ==
  {entry.crc32} \cup IF entry.crc32 = 0 THEN {Crc(f, v) : v \in entry.version..MaxVersion} ELSE {}

\* Between runs a file that wfut.xml lists has the content it is listed with (a
\* newer one, if it is listed as empty), or the user has changed or removed it, as
\* long as no run was killed before it had recorded what it copied, and what was
\* written was written in full.
ListTruthful ==
  pc = "off" /\ wfut_xml.state = "good" /\ RunsFinished =>
    \A f \in Listed(wfut_xml.files) :
      disk[f] \in BodyOf(f, wfut_xml.files[f]) \cup {Edited, NoFile}

\* The files whose content goes in a step, to make place for a download.
Overwritten == copying' \ copying

\* "%s has been modified, will not update" (wfut.cpp): a file with content of the
\* user's own is only overwritten by a version newer than any it was ever reported
\* complete in, even if the user changed it after the updates were determined; but
\* one that was missing then, and that the user has put back since, is lost.
EditsKept ==
  [][RunsFinished => \A f \in Overwritten :
       disk[f] = Edited => completed[f].version < list[f].version \/ f \in absent]_vars

\* Whichever mirrors are picked, and however far behind they are, a file is only
\* overwritten by a newer version than the one on disk, unless that one came in
\* place of the empty file its entry speaks of.
NoDowngrade ==
  [][RunsFinished => \A f \in Overwritten :
       disk[f] \in 1..MaxVersion =>
         disk[f] < list[f].version \/ (f \in Listed(completed) /\ completed[f].crc32 = 0)]_vars

\* "Return error. Will be 0 on success" (wfut.cpp), where "error counts the number
\* of download failures": the exit status tells whether downloads failed.
ExitStatus == pc = "off" /\ status = 0 => failures = 0

-----------------------------------------------------------------------------
(* Liveness: a run takes its next step as long as it is not killed, its    *)
(* downloads end (EverySignalled of DownloadQueue), the command is run     *)
(* again after it ended, mirrors catch up, and a user who is told that     *)
(* tempwfut.xml cannot be read removes it if "removeTemp" is in Faults.    *)

Fairness ==
  /\ WF_vars(Run)
  /\ \A m, n \in Mirror, f \in File : WF_vars(Sync(m, n, f))
  /\ WF_vars(UserRemovesTemp)

FairSpec == Spec /\ Fairness

\* Whatever fails in it, a run comes to its end.
RunEnds == pc # "off" ~> pc = "off"

Settled(f) ==
  \A m \in Mirror :
    \/ server[m][f].deleted
    \/ disk[f] = server[m][f].crc32
    \/ disk[f] = Edited /\ local[f].version = server[m][f].version
    \/ local[f] = NotListed /\ System[f].version >= server[m][f].version

\* What later runs do not make up for: wfut.xml broken or behind the files, a copy
\* that was short, and an interruption of the download of a file that was MISSING,
\* since the record of that one is up to date and what was copied of it counts as
\* MODIFIED.
Repairable ==
  /\ happened \cap {"shortCopy", "save", "killSaving"} = {}
  /\ "delete" \in happened => happened \cap {"killPolling", "killCopying"} = {}

\* Once publishing and faults stop, running the command again brings every file to
\* its newest version, but for files the user changed in that version and files
\* the system location has.
Converges == <>[](Repairable => \A f \in File : Settled(f))
====
