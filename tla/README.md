# libwfut in TLA+

libwfut is the WorldForge update tool: a library that downloads the files of a
"channel" listed in a server's `wfut.xml`, and the `wfut` command built on it.
This directory has TLA+ models of its core, the TLC configurations that check
them, and theorems about them that TLAPS checks.

    tlc -config queue_safety.cfg MCDownloadQueue     # any run: its cfg, its MC module
    tlapm DownloadQueueProofs.tla                    # the proofs; also ContractProofs,
                                                     # UpdateToolProofs, ClientProofs,
                                                     # ChannelFormatProofs, EncoderProofs,
                                                     # FileFormatProofs, ListFilesProofs

`PROJECT.json` lists the components, the runs with their properties, a mutant of
the code for each property, the source lines of each definition, the findings,
the hazards and the theorems.

## Inventory

| component | source | state | operations | correct when |
|---|---|---|---|---|
| download queue | `IO.cpp`, `IO.h` | `m_files` (url to DataStruct), `m_handles` (not yet given to curl), `m_num_to_process`, curl's multi handle, tmpfiles | init, shutdown, setMaxDownloads, queueFile, poll, abortDownload, abortAll; signals DownloadComplete, DownloadFailed | containers agree between calls and inside callbacks; one signal for each file; only verified bodies reach a target; the connection limit holds; polling ends |
| blocking download | `IO.cpp` 160-219 | one DataStruct on the stack | downloadFile to a name, to a FILE | tmpfile closed, handle cleaned up, success only after the copy |
| WFUTClient | `WFUT.cpp`, `WFUT.h` | `m_initialised`, the IO object | init, shutdown, get*List, saveLocalList, calculateUpdates, updateChannel, updateFile, poll, aborts | calls only between init and shutdown; no tmpfile left by a failed list |
| calculateUpdates | `WFUT.cpp` 215-272 | none | server, system and local list and the disk to a list of updates | nothing needless, nothing missing, modified files left alone |
| lists in XML | `FileParser.cpp`, `FileWriter.cpp`, `Channel*.cpp`, `MirrorParser.cpp` | a list: its name and its files by filename | parse, write; addFile, removeFile, clear, setName | what is written is what is read back; names are never markup |
| Encoder | `Encoder.cpp` | none | encodeString, decodeString, encodeURL | decode undoes encode; names stay distinct; a url names its file |
| file system | `platform.cpp`, `IO.cpp` 22-49 | the file system | os_* helpers, createParentDirs | every missing parent is made, whoever else makes it |
| wfut command | `wfut.cpp` | local, server and system list, `wfut.xml`, `tempwfut.xml`, the files | one run: read lists, pick a mirror, fetch its list, calculateUpdates, updateChannel, poll until 0, save | what is on record is on disk; user's edits kept; no downgrade; a crash costs nothing but time |
| Python tools | `extras/python` | none of their own | the command again, over SWIG; an HTTP server announced by Avahi | |
| vendored | `external/` | | TinyXML, dirent | |

How they interact: the command calls WFUTClient, which owns one IO object and
forwards to it. Everything is one thread. The concurrency is in the callbacks:
`poll`, `abortDownload` and `abortAll` emit sigc signals in the middle of their
loops, and a handler may call the library again. The command's own handlers
change the list that `saveLocalList` writes later and append to `tempwfut.xml`,
which is the only thing a killed run leaves behind. Other parties act between
any two steps: the server and its mirrors publish, the user edits and deletes,
other processes make and remove directories. WFUTClient's lists come by
blocking downloads, which share nothing with the queue but libcurl.

What is hard to test, line by line, is the list of hazards in `PROJECT.json`.

## Modules

| module | models | used by |
|---|---|---|
| `DownloadQueue` | class IO: the queue and its callbacks | `MCDownloadQueue`, `DownloadQueueProofs` |
| `DownloadContract` | what `WFUT.h` promises of queued files: the abstract specification | `DownloadQueue` (INSTANCE) |
| `DownloadQueueProofs` | theorems on `DownloadQueue` for disciplined handlers | `ContractProofs` |
| `ContractProofs` | the limit, the refinement of `DownloadContract`, and what holds for any handlers | |
| `CalculateUpdates` | `WFUTClient::calculateUpdates` as operators | `UpdateTool` |
| `UpdateTool` | runs of the `wfut` command, what they leave on disk, and their faults | `MCUpdateTool`, `UpdateToolProofs` |
| `UpdateToolProofs` | theorems on `UpdateTool` and `CalculateUpdates` | |
| `Encoder` | `encodeString`, `decodeString`, `encodeURL` on sequences of bytes | `FileFormat`, `EncoderProofs` |
| `EncoderProofs` | theorems on characters and whole strings, and an induction for the modules below | `FileFormatProofs`, `ChannelFormatProofs` |
| `Documents` | how the parsers walk through the elements of a document | `FileFormat`, `ChannelFormat` |
| `FileFormat` | ChannelFileList, and lists of files written and parsed | `ListFiles`, `Client` |
| `FileFormatProofs` | theorems on what the parser makes of a document | `ListFilesProofs`, `ClientProofs` |
| `ListFiles` | an application's list, its `wfut.xml` and `tempwfut.xml` | `MCListFiles`, `ListFilesProofs` |
| `ListFilesProofs` | theorems on `ListFiles` | |
| `ChannelFormat` | lists of mirrors and channels written and parsed | `Client`, `ChannelFormatProofs` |
| `Client` | WFUTClient over its blocking downloads and its queue | `MCClient`, `ClientProofs` |
| `ChannelFormatProofs` | theorems on `ChannelFormat` | `ClientProofs` |
| `ClientProofs` | theorems on `Client` | |
| `MCDownloadQueue`, `MCUpdateTool`, `MCListFiles`, `MCClient` | values for the constants | the runs |

What one module establishes another takes for granted: `UpdateTool` has a queued
file complete, with a body of the listed crc32 or, if that is 0, any body, or fail,
once (`DownloadQueue`), and a list read as it was written (`ListFiles`). `Client`
takes nothing for granted of the queue: `QueueConsistent` holds of urls that encode to
themselves only, and a client's names need not, so it has m_files and the queue of
DataStructs apart (below).

### DownloadQueue

A DataStruct, its easy handle and its tmpfile have one name, a `Transfer`.
`m_files`, `m_handles` and `m_num_to_process` are the members of those names;
`heap`, `easy` and `fp` say what has been deleted, cleaned up and closed;
`multi` and `result` are curl's side.

A call that emits a signal is two actions: the code up to the `emit`
(`PollMessage`, `AbortDownload`, `AbortAllNext`) and the code after it
(`PollForget`, `AbortDownloadReturn`, `AbortAllForget`). Between them a frame
of `stack` is at `"signal"`, and the handler may make any call in `HandlerOps`,
up to `MaxDepth` calls deep. A poll's frame keeps the local `num_handles`. What C++ leaves
undefined (a deleted DataStruct read, a cleaned up handle given to curl, an
erase of `end()`) sets `undefined` and ends the behaviour.

libcurl is modelled from its use. `curl_multi_perform` ends any subset of the
running transfers, each with an error or a body of any crc32, and
`curl_multi_info_read` returns the ended ones in any order. The branches of
poll for a failing `curl_easy_getinfo` and for a message other than
`CURLMSG_DONE` are left out: libcurl sends no other message, and always has the
private pointer that queueFile set. Urls are numbers in the order of their
strings, with `encodeURL` a function on them; only the order (`m_files.begin()`)
and the encoding matter to the queue.

### CalculateUpdates and UpdateTool

A list maps each file to its FileObject or to `NotListed`, the disk maps it to
the crc32 of its content or to `NoFile`. `Reason` has the branches of
`calculateUpdates` in their order and `Updates` is the list it fills.

`UpdateTool` runs `main` again and again, `pc` being the place in it: `Start`
(lists read), `FetchList`, `QueueUpdates` (calculateUpdates and updateChannel),
`CopyStarts`, `CopyEnds` and `RecordUpdate` or `DownloadFails` for each file,
`SaveStarts`, `SaveEnds`, `Finish`. The places are chosen where a kill makes a
difference: the target is truncated before it is copied, copied before it is
recorded, and `wfut.xml` is emptied before it is written and written before
`tempwfut.xml` is removed. `tempwfut.xml` can never be read back (`Readable`),
because `recordUpdate` writes no end tag and TinyXML takes that for an error.
Downloading is what DownloadQueue establishes: each queued file completes or
fails, once. It completes with what its mirror has by then if that is of the listed
crc32, and with whatever the mirror has if the listed crc32 is 0 (`Accepted`): poll
takes an empty file's crc32 for none to check. `Empty` says which files are empty in
which version, and `body` is what is being copied.

`fresh` has the files the last run completed and `absent` those it found missing
when it determined its updates: two things the code does not protect are about them.

A fault is a kill at one of five stretches of a run, a failing fetch, download, short copy,
`recordUpdate` or save, an edit or a deletion. `Faults` has the kinds that
happen in a run of TLC and `MaxFaults` how many; `happened` remembers which did. The user
removing `tempwfut.xml` after the command complained of it is an action and does not count.

### Encoder, FileFormat and ListFiles

A string is a sequence of bytes and the three encodings are functions on it.
`char` is signed, so that a byte above 127 is a negative number to `%X`
(`Escape`). What `sscanf` leaves of a malformed escape is a set (`Scanned`), with
`Garbage` for the integer nothing was written to; `decodeString` therefore
has a set of results.

A document is its `dir` attribute and its elements, as TinyXML hands them over:
the escaping of attributes, layout and the declaration are TinyXML's. Numbers are
taken as they are, but for one that cannot be read (`Junk`: any number, since the
field was never initialised) or is not there (`Absent`: `sscanf` gets NULL and the
process dies, `GetFileListCrashes`). `Items` is `FirstChildElement` with a name, then
`NextSiblingElement` without one.

`ListFiles` is one ChannelFileList under all its operations, saved to `wfut.xml`,
reloaded from it, printed file by file to `tempwfut.xml` as downloads complete,
and joined with what servers send. Nothing is read from `tempwfut.xml`: it has no end
tag, so a run that finds one ends before it has a list, and the next one with a list
finds it removed (`Crash`; that this leaves no run to merge it is `crash_stuck`).

### ChannelFormat and Client

`ChannelFormat` does for mirrors and channels what `FileFormat` does for files.
Texts are opaque, with TinyXML's condensing of white space as a function
(`Condense`) of which only that it is idempotent is assumed.

`Client` has one blocking call at a time (`call`), a step for each thing in it that can
fail: `WriteData`, `WriteDataFails`, `PerformEnds`, then for a list `ListFails` or
`ListArrives`, for a file `Transfer`, `LookForDir` and `MakeDir` for each directory
from the root down (the order in which the recursion of createParentDirs returns),
`CopyFile` and `Close`. At each level of `path` there is nothing, a file, a directory, or
one that is `closed`: it may be entered but not opened, as /home often is. `LookForDir` is
opendir, which may fail of any directory, and fails of a closed one; whatever it could not
open `MakeDir` tries to make. Between them `OtherProcess` makes and removes directories or
puts a file in the way. `before` remembers what the application had, and `trouble`
what went wrong: a call that failed or something in its way (`failure`), a directory
that is there and cannot be opened (`unreadable`), one that was made between opendir and
mkdir (`race`), a short write. getFileList of a document with a missing attribute
is left to `ListFiles`.

Between calls updates are queued and answered, and the client is shut down and
initialised again. `m_files` has the encoded urls on record and `queue` every
DataStruct that is in m_handles or with curl. queueFile looks for the raw url and records
the encoded one, so that "a b" asked for twice has two DataStructs in `queue`
and one entry in `m_files` (`Queued`). Each is answered by the name it has; the first
answer erases the entry, the second erases `end()`, which is `undefined` (`Answer`) and
the end of the behaviour.

## Runs

| run | question | result |
|---|---|---|
| `queue_safety` | Handlers queue, abort, poll and change the limit, one call inside another: is memory safe, do the containers agree, is each transfer signalled once, a whole target verified and reported, its tmpfile closed? | holds |
| `queue_live` | Polling on and on under changing limits: is the limit kept, is every file heard of, is DownloadContract implemented? | holds |
| `queue_reentrant` | Handlers do anything, abort the transfer they were called for included: what holds up to the first undefined step? | `TargetVerified`, `AbortIsFinal` hold |
| `tool_safety` | Two mirrors, one behind, any two faults: is what completed on record, is `wfut.xml` true, are edits kept, is nothing downgraded, but for empty entries and files put back? | holds |
| `tool_converges` | Two mirrors, any two faults: does each run end, do later runs make up for the faults? | holds |
| `lists` | Names of markup, spaces and escapes: are lists reloaded as they were, is nothing printed as markup, does each url name its file? | holds |
| `client` | Anything fails in a blocking call: does it give everything back, change nothing when it fails, have all that the document says when it succeeds, fail only for a reason that has a name, return? Are updates that were asked for pending, replaced DataStructs or not, and channels reread? | holds |
| `duplicate_url` | Is a url queued once? | violated: finding |
| `nested_poll` | Does the limit hold when a handler polls? | violated: finding |
| `crash_stuck` | Killed while polling, and the user does not remove `tempwfut.xml`: do later runs repair the files? | violated: finding |
| `exit_status` | Does the exit status tell of failed downloads? | violated: finding |
| `foreign_name` | Does decodeString undo encodeString for a name that is not in ASCII? | violated: finding |

Bounds. Three transfers and two urls let a url be queued again while handlers
of its former transfer run, with one transfer running, one waiting and one
being signalled; `MaxDepth` 2 is a handler's call within a call, which is the
least that shows every interplay the code has, and the theorems are for any
depth. Two crc32 values are the right and the wrong one (0 is the empty file
and "do not check"). `nested_poll` needs three urls: one whose handler polls,
one the inner poll starts and one the outer poll starts too many. `queue_safety`
has the limit 0, under which nothing is started and poll returns 0 with files
pending; `queue_live` has limits above 0, as an application that wants its files
sets them.

For the command, two files tell a run that did some from one that did all
(`tool_safety`), and one of them is empty in its first version, which is where poll
takes another version's body for it. Convergence is of each file by itself, and one is
enough, with versions up to 3 for an update of an update, of which the second is
empty: a file that has content before it and after it. Two mirrors, that one is
stale; two faults, one during the recovery from the other. `tool_safety` has no
system location, so that nothing but the local list keeps a file from being fetched;
`tool_converges` has one with an old version.

`lists` has names that need every kind of encoding, two at a time; two lines of
`tempwfut.xml`, so that one file is recorded twice; and documents with each
oddity the parsers meet: one name escaped in two ways, malformed escapes, a
missing attribute, a version that is no number, siblings of other names.
`client` has two directories above the target, the least in which a parent's
parent is missing, and starts from every state they can be in (none, closed, a file);
one chunk, so that a transfer fails before or after data came; documents with
a sibling of another name before, between or after the items, and with one file said
twice; more is asked for while at most one thing (`MaxHeld`) is on the lists and
queued, so that lists are added to and three updates at once are queued over a fourth;
and one act of another process, which may come at any step.

What happened decides what can be asked. `RecordSurvives` is about histories
without a failed or undone write of the two lists (`ListsWritten`); a kill while
`wfut.xml` is written costs the files of earlier runs, and only those. `ListTruthful`,
`EditsKept` and `NoDowngrade` are about those in which no run was
killed between copy and record, no copy was short and no save failed
(`RunsFinished`: after such a kill the next run may take an older version from a
stale mirror); `Converges` about those that are `Repairable`: no copy was short,
`wfut.xml` was not broken, and no file that was MISSING was interrupted, which
from then on counts as MODIFIED. Three of them name what the code does not protect:
a file listed as empty may have a newer body (`BodyOf` in `ListTruthful`) and is then
overwritten by a version that is not newer (`NoDowngrade`), and one the user puts back
after the run found it missing is overwritten (`absent` in `EditsKept`). Without
these conditions and exceptions each is false of the code: drop one and TLC shows it.
The faults all happen in the runs; only the properties look away after some of them.

Deadlock checking is off in `queue_reentrant`, in `client` and in the two violation
runs of the queue, because undefined behaviour ends the model. No other run turns it off.

## Fairness

`DownloadQueue!Fairness`: handlers return and loops go on (weak fairness of the
steps of a call); the application polls again and again, however often it does
something else in between (strong fairness of `Poll`, which is enabled only
between calls); and a poll happens, again and again, in which a transfer that curl has been
running ends (strong fairness of `EndOf`): curl ends each transfer with an error if
nothing else, and has no way to keep one for ever on a connection that dies.
The code itself sets no timeout; a server that keeps a connection open and
sends nothing is excluded by this assumption, not by the code.

`UpdateTool!Fairness`: a run takes its next step (weak fairness of `Run`), which
includes that downloads end (`EverySignalled`) and that the command is started
again; mirrors catch up; a user told to does remove `tempwfut.xml`, where
`removeTemp` is among the faults.

`Client!FairSpec`: a blocking call goes on (weak fairness of `Step`), which includes
that curl ends its transfer, as above. Nothing is assumed of the application or of
other processes.

## Proofs

`DownloadQueueProofs` (any finite set of transfers, any strings and encoding, any depth):

- `TypeCorrect`: `Spec => []TypeOK`, without further assumptions.
- `NeverUndefined`, `ContainersAgree`, `SignalledOnce`, `NoTempFileLeft`: invariants of
  `queue_safety`, assuming `Client`: urls encode to themselves, handlers neither
  abort the transfer they are called for nor call abortAll nor queue files while
  abortAll runs, and the IO object dies with shutdown, as WFUTClient's does. Each
  assumption is needed: `queue_reentrant` and `duplicate_url` have the code without them.
  The invariant is `IInv`: `QueueConsistent` says where each live transfer is
  (`OnePlace`), that `m_files` has exactly the live ones (`FilesExact`) and how calls in
  progress nest (`CallsNest`). None is inductive without the others: that the
  entry is still there after a handler (`PollForget`) needs that the transfer of a frame
  is live and in no other frame, which needs that an abort from a handler
  can only reach transfers that are pending or with curl. The proof has a
  lemma for every action and shows under it one conjunct at a time.

`ContractProofs`:

- `LimitKept`: `ConnectionLimit`, assuming that handlers do not poll. The invariant
  (`Counted`) is that the `num_handles` a poll holds is never below what curl is
  running, since such handlers can only take from curl.
- `ContractKept`: the refinement of `DownloadContract`, assuming `Client`, handlers that
  do not poll and limits above 0. `RInv` adds that a live transfer in neither container
  has been heard of (`HeardOf`). Every step maps to one of the contract or to a
  stutter; that a poll returns 0 only when all is settled is where `Counted` and the
  limit are needed.
- `TargetsVerified`, `AbortsAreFinal`: without any assumption on handlers, up to the
  first undefined step. `TargetVerified` asks nothing of a target that was written short;
  the proof goes over `TargetSettled`, which adds what the code makes of one. `IInv` fails there, so the invariant (`HInv`) keeps what
  survives: what curl holds has its easy handle and has had no signal, and a frame at a
  signal is of a transfer that has had one.

`UpdateToolProofs` (any finite set of files, any mirrors, versions, system list and faults):

- `ToolTypeCorrect`: `Spec => []TypeOK`. The invariant adds that
  every entry of every list is one a mirror published and that the queue is
  part of the list.
- `CompletedOnRecord`: `RecordSurvives`. The invariant (`RInv`, while `ListsWritten`) adds
  that the run's own list has every completed download, which is why overwriting
  `wfut.xml` loses nothing, and that those of the run (`fresh`) are in
  `tempwfut.xml` as well until the save, which is what a kill in the save leaves.
- `ListIsTruthful`, `ModifiedFilesKept`, `NeverDowngraded`: `ListTruthful`,
  `EditsKept` and `NoDowngrade`. The invariant (`DInv`, while `RunsFinished`) ties the four
  places a version is noted together (history, run, `wfut.xml`, disk) and says that
  what is queued is out of date at any moment until it is copied, whatever the
  user does meanwhile, or was missing (`QueuedOld`). That a mirror is never
  behind the list that was fetched from it (`Behind`) is what makes the body that comes
  for an empty entry a newer one (`AcceptedBody`).
- `NothingLeft`: calculateUpdates finds nothing to do after its own updates.

`EncoderProofs` (any string of bytes):

- `AsciiReadBack`: `decodeString` of `encodeString` is the string, and nothing else, for
  every string in ASCII; `AsciiServed`: so it is for `encodeURL` and a server, but for
  a question mark. `foreign_name` has why not for other strings.
- `UrlsDiffer`: the url of a name in ASCII is that of no other name at all. The first
  piece in which two names differ starts at the same place in both urls, where the pieces of
  two different characters can only both lie if both characters are above 127.
- `EncodedHasNoMarkup`, `DecodedTyped`: for every string, in ASCII or not, with malformed
  escapes or not.
- `EscapesReadBack`, `NoMarkup`, `CodesDiffer`: the same for one character, on which the
  others rest, with `Flattened`: the pieces of a string lie one after the other.

A theorem on whole strings needs an induction on their length, and the library's
induction takes an operator, which the provers cannot instantiate. `Induction` does
without: it is about a *set* of naturals, which has them all unless there is a least one
outside it, and a set is made of a property by comprehension. That the recursive functions of the
model exist (`DecodeString`, `ParseFiles`, the fold over updates) is proved by the same means.

`FileFormatProofs` (any document, any list):

- `ParsedIsListed`: a document with no number missing is parsed into a list as a list.
- `ReadBack`: elements that say of names in ASCII what numbers their files have are read as
  those files, each with what was said of it last, which is the overwriting of `addFile`.
- `WrittenReadBack`: a list in ASCII is read back from what `writeFileList` makes of it.

`ListFilesProofs` (any names, objects, documents of servers and bounds):

- `SavedListIsReloaded`, `RecordsArePrintedSafely`, `UrlsNameTheFiles`, `TypeCorrect`:
  every invariant of `lists`. What would be parsed is preserved by no step by itself:
  after a save the parser has something else to read. The invariant (`IInv`, stated as
  `Invariance`) is of what was written instead: `wfut.xml` is `WriteFileList` of the
  saved list, and `tempwfut.xml` is the records of some downloads. What the parser makes of
  the one is then `WrittenReadBack`, and that there is no markup in the other is
  `EncodedHasNoMarkup`. That no list, from whatever document, has names that are no strings
  (`FilesTyped`) is where `ParsedIsListed` is needed.

`ChannelFormatProofs` (any list):

- `ChannelsSurvive`: write, then parse, is the identity but for names. The texts have to
  be condensed, which what a parser returned is.

`ClientProofs` (any documents, updates, texts, depth, number of chunks and acts of others):

- `NothingIsLeaked`, `FailuresChangeNothing`, `SuccessesAreComplete`, `FailuresHaveReasons`,
  `ChannelsAreReread`. The invariant (`CInv`) says what a call holds at each place
  (`Held`), that until the copy nothing has changed (`Unchanged`), and how far the
  directories are made (`PathMade`): as long as no call failed, those up to the one the
  call is at are there, which is what makes mkdir and the copy possible; one that was
  missing and is there now was not opened or was made since; and a call that has
  failed had a reason. That a list has all its document says is said twice, once by
  the parser (`Parsed`) and once element by element (`AllRead`); `ParsedLists` has the one
  imply the other, for files (`FilesTaken`) by an induction over the items read so far.
- `AskedUpdatesArePending`: `AskedIsPending`, of names without a percent sign, in ASCII or
  not. `queueFile` refuses an update whose name is a url on record, and
  `updateChannel` does not notice. The invariant (`QueueInv`) adds that each url on record
  is the encoded name of a transfer in the queue (`Backed`). A refused name is such a url,
  and a url without a percent sign encodes no name but itself (`UnescapedUrl`), so that the
  transfer is its own. An answer erases the entry; should another transfer have the same
  url, it stays in the queue under its name until its own answer, which is undefined.
  updateChannel queues its updates one by one: `AllQueued` is an induction on how many there
  are, in whatever order.
- `TypeCorrect`: `TypeOK`. `TInv` has the variables `CInv` says nothing of; that the file
  list stays a list is `ParsedIsListed`.

Every invariant and action property of a run that passes, and the refinement, is so
stated by a theorem, under the assumptions named above. The assumptions on constants are few:
what the documents, updates and strings are made of (`ClientDocsAssumption`, `UpdateAssumption`,
`DocsAssumption`, `NameAssumption`), that `Empty` has files and versions (`EmptyAssumption`), that "" is among the names of channels and `NoDir`, which stands
for no attribute, is not (`DirAssumption`), and that bounds are numbers (`BoundsAssumption`).

Only model-checked: liveness (`EverySignalled`, `RunEnds`, `Converges`, `CallReturns`), for
which the provers have neither ENABLED nor the fairness rules; and the refutations, which
are TLC's counterexamples.

## Deviations of the code

With a run: `duplicate_url`, `nested_poll`, `crash_stuck`, `exit_status`, `foreign_name`;
see the findings in `PROJECT.json`. Met while modelling and part of the models, without a
run of their own:

- `copy_file` ignores what fwrite and fclose return (`IO.cpp` 69, 75), so a file
  written short is reported complete, against `WFUT.h` 151-154.
- `main` ignores what saveLocalList returns and then removes `tempwfut.xml`; a kill
  inside saveLocalList leaves only this run's entries (`wfut.cpp` 308-311).
- setMaxDownloads(0) makes poll return 0 with files pending (`WFUT.h` 140).
- execute is written as a number and read as a word (`FileWriter.cpp` 31, `FileParser.cpp`
  26), and deleted is not written.
- The name of a channel is written as a child and read as an attribute (`ChannelWriter.cpp`
  18, `ChannelParser.cpp` 16), so it is lost; `ChannelsReread` is of the other fields.
- The parsers take every sibling after the first item for one of its kind (`FileParser.cpp`
  50), and give sscanf a null pointer for an attribute that is not there (22).
- encodeURL keeps a question mark (`Encoder.cpp` 76), so that a name with one is not asked
  for; a name that is the url of another one is refused and never answered (`WFUT.cpp` 66).
- poll takes a listed crc32 of 0 for none to check (`IO.cpp` 276), and an empty file has that
  one: whatever the mirror has by then is copied, reported complete and recorded as the
  empty version.
- calculateUpdates looks at a file that is MISSING once (`WFUT.cpp` 255-258), and copy_file
  opens its target for writing whatever is there by then (`IO.cpp` 58): a file the user puts back
  meanwhile is overwritten, even by the version it was restored to.
- createParentDirs takes any directory that opendir cannot open for missing, makes it, and takes
  EEXIST for a failure (`IO.cpp` 39-43): a parent that may only be searched, or one that another
  process makes in between, fails the download.
- A name that needs encoding can be queued twice (`duplicate_url`), and two names that
  differ only in bytes above 127 have one url: the second DataStruct takes the first one's place
  in `m_files` (`IO.cpp` 238). Both are answered; the first answer erases the entry
  of both, and the second erases `end()` (320-327). shutdown deletes only what is in `m_files`,
  so the replaced one is leaked.

Seen and not modelled: `abortDownload(filename)` looks a filename up among urls (`IO.cpp`
365, `IO.h` 122); expected_crc32 of both downloadFile calls is never checked (`IO.h` 70, 80);
updateFile drops the execute flag (`WFUT.cpp` 78); a mirror without a url makes the command
ask an empty host (`wfut.cpp` 206); the client's abortDownload and abortAll lack the assert
of the other calls (`WFUT.cpp` 274-280).

## Not modelled

- Python tools: `WFUTCore.py` and `wfut-python.py` repeat `wfut.cpp` over the SWIG
  interface; the server and the Avahi client are glue around Avahi. Nothing in the
  repository generates lists.
- `os_dir_walk`: nothing calls it.
- TinyXML, dirent, libcurl, zlib: third-party, modelled from their use where they matter.
- Two commands on one directory at a time: nothing in the code supports it.
- Option parsing, messages, and how the command finds the channel's name.
- Windows: `os_create_tmpfile` by name, `os_set_executable` as a no-op.
- Calls outside init and shutdown, which the code asserts away.
- An iterator of `m_files` that `abortDownload(filename)` holds across its signal: that the
  entry it names was erased and queued again meanwhile is taken as finding the entry.

## Plan

1. Done: the queue, its contract, calculateUpdates and the command; the encodings and the
   lists; the client and its blocking downloads; the theorems above.
2. Done: the encodings of whole strings, the lists on disk, the types of `ListFiles` and `Client`,
   and `AskedIsPending`, proved.
3. The durable list as a specification of its own: a save makes the list durable and a download
   adds to it, whatever names are encoded to. `ListFiles` implements it for names in ASCII;
   `UpdateTool` takes it for granted.
4. `DownloadQueue` over `Encoder` instead of a constant encoding.
