-------------------------------- MODULE Client --------------------------------
(***************************************************************************)
(* WFUTClient (WFUT.cpp) and the blocking calls of the class IO under it   *)
(* (IO.cpp): init and shutdown, the lists of mirrors, channels and files   *)
(* that are downloaded to a tmpfile and parsed, a file that is downloaded  *)
(* to a tmpfile and copied to its target, whose directories are made on    *)
(* the way, and the files queued for poll.                                 *)
(*                                                                         *)
(* A blocking call is one step for each thing that can fail in it.  The    *)
(* server ends a transfer when and how it likes, files cannot be opened or *)
(* written, and other processes make and remove directories.               *)
(***************************************************************************)
EXTENDS FileFormat, ChannelFormat

CONSTANTS
  MirrorDocs, ChannelDocs, FileDocs,  \* the documents a server has
  Depth,     \* the directories above the target of a download
  Update,    \* the updates that are queued: name, crc32 and deleted
  MaxChunks, \* bound on the chunks a body comes in
  MaxHeld,   \* bound on what is on the lists and queued when more is asked for
  MaxOthers  \* bound on what other processes do

\* What a server sends is a document, or not one that has the root it should have.
Malformed == <<>>

Kinds == {"mirrors", "channels", "files"}

Docs(kind) ==
  {Malformed} \cup {<<doc>> : doc \in CASE kind = "mirrors"  -> MirrorDocs
                                        [] kind = "channels" -> ChannelDocs
                                        [] kind = "files"    -> FileDocs}

ASSUME ClientDocsAssumption ==
  /\ MirrorDocs \cup ChannelDocs \subseteq [elements : Seq(Entry)]
  /\ FileDocs \subseteq Document /\ \A doc \in FileDocs : ~ReadsNull(doc)

ASSUME DepthAssumption == Depth \in Nat

ASSUME UpdateAssumption ==
  Update \subseteq [name : Seq(Byte), crc32 : Number, deleted : BOOLEAN]

ASSUME BoundsAssumption == MaxChunks \in Nat /\ MaxOthers \in Nat /\ MaxHeld \in Nat

VARIABLES
  up,        \* m_initialised, and whether there is an IO object
  call,      \* the blocking call in progress, or NoCall
  tmpfiles,  \* how many tmpfiles blocking calls have open
  easy,      \* how many easy handles they have
  lists,     \* the application's lists
  path,      \* what is at each directory above the target, from the root down: a directory,
             \* one that may be entered but not opened, or a file
  target,    \* what is at the target
  m_files,   \* the encoded urls that have a transfer on record
  queue,     \* the transfers that are queued, those whose record was replaced included
  undefined, \* the program has done what C++ leaves undefined
  returned,  \* what the last blocking call returned
  before,    \* history: the last blocking call, and the lists and the target before it
  trouble,   \* history: what has failed or was in the way since then
  asked,     \* history: the names of updates asked for and not yet answered
  others     \* how much other processes have done

callVars  == <<call, tmpfiles, easy>>
diskVars  == <<path, target>>
pastVars  == <<returned, before, trouble>>
queueVars == <<m_files, queue, undefined, asked>>
vars      == <<up, callVars, lists, diskVars, queueVars, pastVars, others>>

NoCall ==
  [op |-> "none", at |-> "idle", doc |-> Malformed, size |-> 0, got |-> 0,
   failed |-> FALSE, fp |-> FALSE, dir |-> 1]

Directories == {"dir", "closed"}

\* Why a download to a name may fail.
Reasons == {"failure", "unreadable", "race"}

NoLists == [mirrors |-> <<>>, channels |-> <<>>, files |-> EmptyList]

Idle == call = NoCall

Init ==
  /\ up = FALSE
  /\ call = NoCall /\ tmpfiles = 0 /\ easy = 0
  /\ lists = NoLists
  /\ path \in [1..Depth -> {"none", "file"} \cup Directories]
  /\ \A d \in 2..Depth : path[d] # "none" => path[d - 1] \in Directories
  /\ target = "none"
  /\ m_files = {} /\ queue = <<>> /\ undefined = FALSE /\ asked = {}
  /\ returned = "nothing"
  /\ before = [op |-> "none", doc |-> Malformed, lists |-> NoLists, target |-> "none"]
  /\ trouble = {}
  /\ others = 0

-----------------------------------------------------------------------------
(* Life cycle and queue.                                                   *)

InitClient ==
  /\ ~up /\ Idle
  /\ up' = TRUE
  /\ UNCHANGED <<callVars, lists, diskVars, queueVars, pastVars, others>>

\* The IO object is deleted, and the files still queued with it.
Shutdown ==
  /\ up /\ Idle
  /\ up' = FALSE
  /\ m_files' = {} /\ queue' = <<>> /\ asked' = {}
  /\ UNCHANGED <<undefined, callVars, lists, diskVars, pastVars, others>>

\* queueFile looks for the raw url and records the transfer under the encoded one, in the
\* place of what was recorded there, whose handle stays in m_handles.
Queued(q, update) ==
  IF update.name \in q.files THEN q
  ELSE [files |-> q.files \cup {EncodeURL(update.name)}, structs |-> Append(q.structs, update)]

QueuedAll(updates) ==
  FoldSet(LAMBDA u, q : Queued(q, u), [files |-> m_files, structs |-> queue], updates)

Wanted(updates) == {u \in updates : ~u.deleted}

QueueUpdatesUntilRefused(updates) ==
  /\ up /\ Idle
  /\ LET refused == {u \in Wanted(updates) : u.name \in m_files}
         q == QueuedAll(IF refused = {} THEN Wanted(updates) ELSE {})
     IN  m_files' = q.files /\ queue' = q.structs
  /\ asked' = asked \cup {u.name : u \in Wanted(updates)}
  /\ UNCHANGED <<up, undefined, callVars, lists, diskVars, pastVars, others>>

\* updateChannel queues the updates of a list, and updateFile one of them, both by a
\* url that ends in the name; what queueFile returns is not looked at.  The order of
\* the names makes no difference: any other order is that of several calls.
QueueUpdates(updates) ==
  /\ up /\ Idle
  /\ LET q == QueuedAll(Wanted(updates)) IN m_files' = q.files /\ queue' = q.structs
  /\ asked' = asked \cup {u.name : u \in Wanted(updates)}
  /\ UNCHANGED <<up, undefined, callVars, lists, diskVars, pastVars, others>>

\* A poll ends a transfer, and DownloadComplete or DownloadFailed tells its name.  Then
\* its url is erased, whichever transfer is on record for it, or the end of m_files if
\* none is.
Answer(i) ==
  /\ up /\ Idle
  /\ i \in DOMAIN queue
  /\ LET url == EncodeURL(queue[i].name)
     IN  /\ m_files' = m_files \ {url}
         /\ undefined' = (url \notin m_files)
  /\ queue' = RemoveAt(queue, i)
  /\ asked' = asked \ {queue[i].name}
  /\ UNCHANGED <<up, callVars, lists, diskVars, pastVars, others>>

-----------------------------------------------------------------------------
(* A blocking call begins, ...                                             *)

Begins(op, doc, size, tmpfile) ==
  /\ Idle
  /\ before' = [op |-> op, doc |-> doc, lists |-> lists, target |-> target]
  /\ call' = [NoCall EXCEPT !.op = op, !.at = "performing", !.doc = doc, !.size = size,
                            !.fp = tmpfile]
  /\ easy' = easy + 1
  /\ trouble' = {}
  /\ UNCHANGED <<up, lists, diskVars, queueVars, returned, others>>

\* getMirrorList, getChannelList and getFileList: a tmpfile, then downloadFile.
GetList(kind, doc, size) ==
  /\ up
  /\ Begins(kind, doc, size, TRUE)
  /\ tmpfiles' = tmpfiles + 1

GetListFails(kind) ==
  /\ up /\ Idle
  /\ before' = [op |-> kind, doc |-> Malformed, lists |-> lists, target |-> target]
  /\ returned' = "general error"
  /\ trouble' = {"failure"}
  /\ UNCHANGED <<up, callVars, lists, diskVars, queueVars, others>>

\* IO::downloadFile to a name.
DownloadFile(size) == Begins("download", Malformed, size, FALSE) /\ UNCHANGED tmpfiles

-----------------------------------------------------------------------------
(* ... curl_easy_perform calls write_data and comes to an end, ...         *)

CallStays == UNCHANGED <<up, easy, lists, diskVars, queueVars, returned, before, others>>

WriteData ==
  /\ call.at = "performing" /\ call.got < call.size
  /\ call' = [call EXCEPT !.got = @ + 1, !.fp = TRUE]
  /\ tmpfiles' = IF call.fp THEN tmpfiles ELSE tmpfiles + 1
  /\ UNCHANGED trouble
  /\ CallStays

\* There is no tmpfile, or it cannot be written: curl is told and ends the transfer.
WriteDataFails ==
  /\ call.at = "performing" /\ call.got < call.size
  /\ \E made \in BOOLEAN :
       /\ call' = [call EXCEPT !.at = "performed", !.failed = TRUE, !.fp = @ \/ made]
       /\ tmpfiles' = IF made /\ ~call.fp THEN tmpfiles + 1 ELSE tmpfiles
  /\ trouble' = trouble \cup {"failure"}
  /\ CallStays

PerformEnds ==
  /\ call.at = "performing"
  /\ \/ call.got = call.size /\ call' = [call EXCEPT !.at = "performed"] /\ UNCHANGED trouble
     \/ /\ call' = [call EXCEPT !.at = "performed", !.failed = TRUE]
        /\ trouble' = trouble \cup {"failure"}
  /\ UNCHANGED tmpfiles
  /\ CallStays

Returns(code) ==
  /\ call' = NoCall
  /\ returned' = code

-----------------------------------------------------------------------------
(* ... and a list is read from the tmpfile and parsed, ...                 *)

Parsed(kind, doc) ==
  CASE kind = "mirrors"  -> {ParseMirrors(doc.elements, lists.mirrors)}
    [] kind = "channels" -> {ParseChannels(doc.elements, lists.channels)}
    [] kind = "files"    -> ParseFiles(doc, lists.files)

ListFailsLeakingTmpfile ==
  /\ call.op \in Kinds /\ call.at = "performed" /\ call.failed
  /\ easy' = easy - 1
  /\ UNCHANGED tmpfiles
  /\ Returns("download error")
  /\ UNCHANGED <<up, lists, diskVars, queueVars, before, trouble, others>>

ListFails ==
  /\ call.op \in Kinds /\ call.at = "performed" /\ call.failed
  /\ easy' = easy - 1
  /\ tmpfiles' = tmpfiles - 1
  /\ Returns("download error")
  /\ UNCHANGED <<up, lists, diskVars, queueVars, before, trouble, others>>

\* The last bytes of the body may be lost on their way to the tmpfile, which nothing
\* notices but the parser: what is left has no end tag.
ListArrives ==
  /\ call.op \in Kinds /\ call.at = "performed" /\ ~call.failed
  /\ easy' = easy - 1
  /\ tmpfiles' = tmpfiles - 1
  /\ \/ /\ call.doc = Malformed /\ Returns("parse error")
        /\ UNCHANGED <<lists, trouble>>
     \/ /\ call.size > 0 /\ Returns("parse error")
        /\ trouble' = trouble \cup {"failure"}
        /\ UNCHANGED lists
     \/ /\ call.doc # Malformed /\ Returns("no error")
        /\ \E l \in Parsed(call.op, call.doc[1]) : lists' = [lists EXCEPT ![call.op] = l]
        /\ UNCHANGED trouble
  /\ UNCHANGED <<up, diskVars, queueVars, before, others>>

-----------------------------------------------------------------------------
(* ... or a file is copied to its target, after createParentDirs.          *)

Fails == call' = [call EXCEPT !.at = "closing", !.failed = TRUE]

CopyStays == UNCHANGED <<up, tmpfiles, easy, lists, queueVars, returned, before, others>>

Transferred == call.op = "download" /\ call.at = "performed"

FirstDirIsLast == Depth

FirstDir == 1

TransferUnchecked ==
  /\ Transferred
  /\ call' = [call EXCEPT !.at = "making", !.dir = FirstDir]
  /\ UNCHANGED <<diskVars, trouble>>
  /\ CopyStays

\* What arrived is copied only if the transfer did not fail.
Transfer ==
  /\ Transferred
  /\ IF call.failed THEN Fails
     ELSE call' = [call EXCEPT !.at = "making", !.dir = FirstDir]
  /\ UNCHANGED <<diskVars, trouble>>
  /\ CopyStays

\* opendir: whatever it cannot open is taken to be missing, a directory that is there
\* included.
LookForDir ==
  /\ call.at = "making" /\ call.dir \in 1..Depth
  /\ \/ /\ path[call.dir] = "dir"
        /\ call' = [call EXCEPT !.dir = @ + 1]
        /\ UNCHANGED trouble
     \/ /\ call' = [call EXCEPT !.at = "missing"]
        /\ trouble' = IF path[call.dir] = "dir" THEN trouble \cup {"failure"} ELSE trouble
  /\ UNCHANGED diskVars
  /\ CopyStays

ParentExists(d) == d > 1 => path[d - 1] \in Directories

CanMakeDir == path[call.dir] = "none" /\ ParentExists(call.dir)

MadeDir ==
  /\ CanMakeDir
  /\ path' = [path EXCEPT ![call.dir] = "dir"]
  /\ call' = [call EXCEPT !.at = "making", !.dir = @ + 1]
  /\ UNCHANGED trouble

\* Why mkdir fails, unless trouble has it: there is a file, no permission, or a directory
\* that could not be opened.
MakeDirFailure ==
  CASE path[call.dir] = "closed"               -> {"unreadable"}
    [] path[call.dir] = "file" \/ CanMakeDir   -> {"failure"}
    [] OTHER                                   -> {}

MakeDirAgain ==
  /\ call.at = "missing"
  /\ \/ MadeDir
     \/ /\ trouble' = trouble \cup MakeDirFailure
        /\ call' = [call EXCEPT !.at = "making"]
        /\ UNCHANGED path
  /\ UNCHANGED target
  /\ CopyStays

\* mkdir, which fails if there is something, by now, or no permission.
MakeDir ==
  /\ call.at = "missing"
  /\ \/ MadeDir
     \/ /\ trouble' = trouble \cup MakeDirFailure
        /\ Fails
        /\ UNCHANGED path
  /\ UNCHANGED target
  /\ CopyStays

\* What fwrite and fclose return is not looked at.
CopyFile ==
  /\ call.at = "making" /\ call.dir = Depth + 1
  /\ \/ /\ ParentExists(call.dir)
        /\ call' = [call EXCEPT !.at = "closing"]
        /\ \/ target' = "body" /\ UNCHANGED trouble
           \/ target' = "part" /\ trouble' = trouble \cup {"short write"}
     \/ /\ trouble' = IF ParentExists(call.dir) THEN trouble \cup {"failure"} ELSE trouble
        /\ Fails
        /\ UNCHANGED target
  /\ UNCHANGED path
  /\ CopyStays

Close ==
  /\ call.at = "closing"
  /\ easy' = easy - 1
  /\ tmpfiles' = IF call.fp THEN tmpfiles - 1 ELSE tmpfiles
  /\ Returns(IF call.failed THEN "error" ELSE "no error")
  /\ UNCHANGED <<up, lists, diskVars, queueVars, before, trouble, others>>

-----------------------------------------------------------------------------
(* Other processes make and remove the same directories, or put a file in  *)
(* their place.  It is a trouble to make what was found missing, and to    *)
(* remove what was found.                                                  *)

Makes(d) ==
  /\ path[d] = "none" /\ ParentExists(d)
  /\ \E what \in {"file"} \cup Directories : path' = [path EXCEPT ![d] = what]
  /\ trouble' = IF call.at = "missing" /\ d = call.dir THEN trouble \cup {"race"} ELSE trouble

Removes(d) ==
  /\ path[d] # "none"
  /\ IF d = Depth THEN target = "none" ELSE path[d + 1] = "none"
  /\ path' = [path EXCEPT ![d] = "none"]
  /\ trouble' = IF call.at \in {"making", "missing"} /\ d < call.dir
                THEN trouble \cup {"failure"} ELSE trouble

OtherProcess(d) ==
  /\ others < MaxOthers
  /\ others' = others + 1
  /\ Makes(d) \/ Removes(d)
  /\ UNCHANGED <<up, callVars, lists, target, queueVars, returned, before>>

Step ==
  \/ WriteData \/ WriteDataFails \/ PerformEnds
  \/ ListFails \/ ListArrives
  \/ Transfer \/ LookForDir \/ MakeDir \/ CopyFile \/ Close

\* How much is on the lists and queued.
Size ==
  Len(lists.mirrors) + Len(lists.channels) + Cardinality(DOMAIN lists.files.files) + Len(queue)

Calls ==
  \/ InitClient \/ Shutdown
  \/ \E updates \in SUBSET Update :
       /\ IsFiniteSet(updates)
       /\ Size <= MaxHeld
       /\ QueueUpdates(updates)
  \/ \E i \in DOMAIN queue : Answer(i)
  \/ \E kind \in Kinds : GetListFails(kind)
  \/ \E kind \in Kinds, size \in 0..MaxChunks : \E doc \in Docs(kind) :
       /\ size = 0 => doc = Malformed
       /\ Size <= MaxHeld
       /\ GetList(kind, doc, size)
  \/ \E size \in 0..MaxChunks : DownloadFile(size)

Next == ~undefined /\ (Calls \/ Step \/ \E d \in 1..Depth : OtherProcess(d))

Spec == Init /\ [][Next]_vars

\* A blocking call goes on: curl ends each transfer at some time.
FairSpec == Spec /\ WF_vars(~undefined /\ Step)

-----------------------------------------------------------------------------
(* Safety.                                                                 *)

IsCall(c) ==
  /\ c.op \in Kinds \cup {"none", "download"}
  /\ c.at \in {"idle", "performing", "performed", "making", "missing", "closing"}
  /\ c.op \in Kinds => c.doc \in Docs(c.op)
  /\ c.size \in 0..MaxChunks /\ c.got \in 0..c.size
  /\ c.failed \in BOOLEAN /\ c.fp \in BOOLEAN
  /\ c.dir \in 1..(Depth + 1)

\* Every variable holds a value of its type.
TypeOK ==
  /\ up \in BOOLEAN
  /\ IsCall(call)
  /\ tmpfiles \in 0..1 /\ easy \in 0..1
  /\ lists.mirrors \in Seq(MirrorObject)
  /\ lists.channels \in Seq(ChannelObject)
  /\ IsList(lists.files)
  /\ path \in [1..Depth -> {"none", "file"} \cup Directories]
  /\ target \in {"none", "part", "body"}
  /\ m_files \subseteq Seq(Byte) /\ queue \in Seq(Update) /\ undefined \in BOOLEAN
  /\ returned \in {"nothing", "no error", "error", "general error", "download error",
                   "parse error"}
  /\ trouble \subseteq Reasons \cup {"short write"}
  /\ others \in 0..MaxOthers

\* A blocking call that has returned, whatever failed in it, has closed its tmpfile and
\* cleaned up its easy handle.
NothingLeaked == Idle => tmpfiles = 0 /\ easy = 0

Failures == {"error", "general error", "download error", "parse error"}

\* A blocking call that returned an error has changed neither the lists nor the target.
FailureChangesNothing ==
  Idle /\ returned \in Failures => lists = before.lists /\ target = before.target

\* A list of mirrors or channels goes on with the objects that were read.
GoesOnWith(objects, old, new) ==
  /\ IsPrefix(old, new)
  /\ \A o \in objects : \E i \in DOMAIN new : i > Len(old) /\ new[i] = o

Tagged(doc, tag) == {e \in ToSet(doc.elements) : e.tag = tag}

\* A list of files has what each file element says, unless a later element says it anew,
\* and keeps what no element says.
Takes(doc, old, new) ==
  LET names == [j \in DOMAIN doc.elements |-> DecodeString(doc.elements[j].filename)]
      unsaid(n, i) == \A j \in DOMAIN names : j > i => n \notin names[j]
  IN  /\ new.name = IF doc.dir = NoDir THEN old.name ELSE doc.dir
      /\ \A n \in DOMAIN old.files : unsaid(n, 0) =>
           n \in DOMAIN new.files /\ new.files[n] = old.files[n]
      /\ \A j \in DOMAIN names : doc.elements[j].tag = "file" =>
           \E n \in names[j] \cap DOMAIN new.files :
             unsaid(n, j) => new.files[n] \in ParseFile(doc.elements[j])

\* All that a list's document says is on the list, where what was on it still is.
AllRead ==
  /\ before.doc # Malformed
  /\ CASE before.op = "mirrors"  ->
            GoesOnWith({ParseMirror(e) : e \in Tagged(before.doc[1], "mirror")},
                       before.lists.mirrors, lists.mirrors)
       [] before.op = "channels" ->
            GoesOnWith({ParseChannel(e) : e \in Tagged(before.doc[1], "channel")},
                       before.lists.channels, lists.channels)
       [] before.op = "files"    ->
            Takes(before.doc[1], before.lists.files, lists.files)

\* "Zero on success" (IO.cpp) and WFUT_NO_ERROR mean that all there was to download is on
\* the list or at the target, unless a write to the target failed, which is not noticed.
SuccessIsComplete ==
  Idle /\ returned = "no error" =>
    IF before.op = "download" THEN target = "body" \/ "short write" \in trouble ELSE AllRead

\* "Does this work if the parent parent dir does not exist?" (IO.cpp): it does, whatever
\* other processes make before it is looked for.  A download fails only if its transfer or
\* a call of the file system failed, if a file is in the way or what was found is removed
\* again, if a directory is there that cannot be opened, or if one was made between
\* opendir, which did not find it, and mkdir.
FailsForAReason ==
  Idle /\ returned = "error" => trouble \cap Reasons # {}

\* updateChannel ignores refusals, yet each update asked for has a transfer queued until
\* its name is answered: a refused one was queued before.  But not if its name has a
\* percent sign, for it may be the url of another one.
AskedIsPending ==
  \A n \in asked :
    n \in Seq(Byte \ {Percent}) => \E i \in DOMAIN queue : queue[i].name = n

\* "Writes a ChannelList object to a file" (ChannelIO.h): what a server said of its
\* channels is read back from the file, but for the names, which are written in another
\* place than they are read from.
ChannelsReread ==
  LET reread == ParseChannels(WriteChannelList(lists.channels), <<>>)
  IN  /\ Len(reread) = Len(lists.channels)
      /\ \A i \in DOMAIN reread, f \in Fields \ {"name"} : reread[i][f] = lists.channels[i][f]

-----------------------------------------------------------------------------
(* Liveness.                                                               *)

\* "This function will block until complete" (WFUT.h): and then it returns.
CallReturns == ~Idle ~> Idle
====
