---------------------------- MODULE DownloadQueue ----------------------------
(***************************************************************************)
(* The download queue of class IO (src/src/libwfut/IO.cpp): queueFile,     *)
(* poll, the two abort calls, setMaxDownloads, init and shutdown, and the  *)
(* signals they emit.                                                      *)
(*                                                                         *)
(* The library is single threaded, but sigc signals call the application   *)
(* back in the middle of poll, abortDownload and abortAll, and the         *)
(* application may call the queue again from there.  The calls in progress *)
(* are therefore a stack of frames, top first: a frame at "signal" is      *)
(* waiting for a handler of its signal to return, a frame at "loop" is in  *)
(* its own while loop.  A DataStruct, its CURL easy handle and its tmpfile *)
(* are one to one and share one name, a Transfer.                          *)
(*                                                                         *)
(* libcurl is external: a call of curl_multi_perform moves any set of      *)
(* running transfers to their end, each with an error or with a body of    *)
(* some crc32, and curl_multi_info_read returns finished transfers in any  *)
(* order.                                                                  *)
(***************************************************************************)
EXTENDS Integers, FiniteSets, SequencesExt

CONSTANTS
  Str,         \* the strings of the run, numbered in std::string's order
  encodeURL,   \* Encoder::encodeURL on them
  Crc,         \* the crc32 values of the run; 0 is that of the empty file
  Transfer,    \* the DataStructs a run may allocate (bounds queueFile)
  Request,     \* the queueFile calls the application makes
  Limits,      \* the arguments of setMaxDownloads
  HandlerOps,  \* the operations the signal handlers call
  MaxDepth,    \* bound on calls nested in one another
  KeepIO,      \* whether one IO object outlives shutdown (WFUTClient's does not)
  None         \* the absent pointer

ASSUME StrAssumption ==
  /\ Str \subseteq Nat
  /\ encodeURL \in [Str -> Str]

ASSUME CrcAssumption == 0 \in Crc /\ Crc \subseteq Nat

ASSUME TransferAssumption == IsFiniteSet(Transfer)

ASSUME NoneAssumption == None \notin Transfer /\ None \notin Request

ASSUME RequestAssumption ==
  Request \subseteq [filename : Str, url : Str, expected : Crc, executable : BOOLEAN]

ASSUME LimitsAssumption == Limits \subseteq Nat

ASSUME DepthAssumption == MaxDepth \in Nat \ {0}

ASSUME KeepIOAssumption == KeepIO \in BOOLEAN

Operations ==
  {"queueFile", "queueWhileAborting", "abortDownload", "abortSignalled",
   "abortAll", "poll", "setMaxDownloads"}

ASSUME HandlerAssumption == HandlerOps \subseteq Operations

VARIABLES
  m_initialised,     \* IO::init has been called and IO::shutdown has not
  m_files,           \* the map from url to DataStruct
  m_handles,         \* the deque of handles not yet given to curl
  m_num_to_process,  \* how many handles curl may have at once
  heap,              \* each DataStruct: not yet allocated, live or deleted
  request,           \* the arguments a DataStruct was filled with
  easy,              \* the easy handles that have not been cleaned up
  multi,             \* the handles curl's multi handle holds
  result,            \* how a transfer held by curl has ended, if it has
  fp,                \* the DataStructs whose tmpfile is open
  target,            \* what a transfer has left in its target file
  executable,        \* the targets os_set_executable was called on
  signals,           \* history: the signals emitted for each transfer
  stack,             \* the calls in progress, the innermost first
  returned,          \* the value the last outermost poll returned
  undefined          \* the program has done what C++ leaves undefined

ioVars   == <<m_files, m_handles, m_num_to_process>>
heapVars == <<heap, request>>
curlVars == <<easy, multi, result, fp>>
fileVars == <<target, executable>>
callVars == <<stack, returned, undefined>>

vars == <<m_initialised, ioVars, heapVars, curlVars, fileVars, signals, callVars>>

-----------------------------------------------------------------------------
(* Named values.                                                           *)

Unfinished == -1     \* result of a transfer curl still works on
CurlError  == -2     \* a result other than CURLE_OK

NotSaved  == -1      \* target: the transfer has not written it
Truncated == -2      \* target: an fwrite of copy_file stopped short

NotReturned == -1    \* returned: no outermost poll has returned since

Outcome == {"complete", "failed", "aborted"}

Frame == [op : {"poll", "abortDownload", "abortAll"}, at : {"loop", "signal"},
          t : Transfer \cup {None}, num : Nat]

-----------------------------------------------------------------------------
(* Reading the state.                                                      *)

\* The key a transfer is filed under: ds->url, the encoded url.
Key(t) == encodeURL[request[t].url]

Keys == {k \in Str : m_files[k] # None}

IsFirst(k) == k \in Keys /\ \A j \in Keys : k <= j

Running == {t \in multi : result[t] = Unfinished}

Finished == multi \ Running

\* The transfers whose handlers are running, one for each frame at "signal".
Signalling == {stack[i].t : i \in {j \in DOMAIN stack : stack[j].at = "signal"}}

Idle == stack = <<>>

At(op, at) == ~Idle /\ Head(stack).op = op /\ Head(stack).at = at

InHandler == ~Idle /\ Head(stack).at = "signal"

Aborting == \E i \in DOMAIN stack : stack[i].op = "abortAll"

\* The application may call an operation when no call is in progress, or from
\* a signal handler that makes such calls.
CanCall(op) ==
  /\ m_initialised
  /\ Idle \/ (InHandler /\ op \in HandlerOps)

CanNest(op) == CanCall(op) /\ Len(stack) < MaxDepth

Push(frame) == stack' = <<frame>> \o stack

Loop(op, num) == [op |-> op, at |-> "loop", t |-> None, num |-> num]

Signal(op, t, num) == [op |-> op, at |-> "signal", t |-> t, num |-> num]

Emit(t, outcome) == signals' = [signals EXCEPT ![t] = Append(@, outcome)]

Init ==
  /\ m_initialised = FALSE
  /\ m_files = [k \in Str |-> None]
  /\ m_handles = <<>>
  /\ m_num_to_process = 1
  /\ heap = [t \in Transfer |-> "fresh"]
  /\ request = [t \in Transfer |-> None]
  /\ easy = {}
  /\ multi = {}
  /\ result = [t \in Transfer |-> Unfinished]
  /\ fp = {}
  /\ target = [t \in Transfer |-> NotSaved]
  /\ executable = {}
  /\ signals = [t \in Transfer |-> <<>>]
  /\ stack = <<>>
  /\ returned = NotReturned
  /\ undefined = FALSE

-----------------------------------------------------------------------------
(* init and shutdown.                                                      *)

IOInit ==
  /\ ~m_initialised
  /\ m_initialised' = TRUE
  /\ UNCHANGED <<ioVars, heapVars, curlVars, fileVars, signals, callVars>>

\* Frees what m_files reaches and nothing else: m_handles keeps its pointers.
\* WFUTClient::shutdown then deletes the IO object, so the next WFUTClient::init
\* starts from the members' initial values.
IOShutdown ==
  /\ m_initialised /\ Idle
  /\ \A k \in Keys : heap[m_files[k]] = "live"
  /\ LET freed == {m_files[k] : k \in Keys} IN
       /\ heap' = [t \in Transfer |-> IF t \in freed THEN "deleted" ELSE heap[t]]
       /\ easy' = easy \ freed
       /\ fp' = fp \ freed
  /\ m_files' = [k \in Str |-> None]
  /\ multi' = {}
  /\ result' = [t \in Transfer |-> Unfinished]
  /\ m_handles' = IF KeepIO THEN m_handles ELSE <<>>
  /\ m_num_to_process' = IF KeepIO THEN m_num_to_process ELSE 1
  /\ m_initialised' = FALSE
  /\ UNCHANGED <<request, fileVars, signals, callVars>>

SetMaxDownloadsOffByOne(n) ==
  /\ CanCall("setMaxDownloads")
  /\ m_num_to_process' = n - 1
  /\ UNCHANGED <<m_initialised, m_files, m_handles, heapVars, curlVars, fileVars,
                 signals, callVars>>

SetMaxDownloads(n) ==
  /\ CanCall("setMaxDownloads")
  /\ m_num_to_process' = n
  /\ UNCHANGED <<m_initialised, m_files, m_handles, heapVars, curlVars, fileVars,
                 signals, callVars>>

-----------------------------------------------------------------------------
(* queueFile.                                                              *)

NeverRefused(url) == FALSE

\* The duplicate check looks the url up as it was passed, not encoded.
Refused(url) == m_files[url] # None

QueueFile(r) ==
  /\ CanCall(IF Aborting THEN "queueWhileAborting" ELSE "queueFile")
  /\ ~Refused(r.url)
  /\ \E t \in Transfer :
       /\ heap[t] = "fresh"
       /\ heap' = [heap EXCEPT ![t] = "live"]
       /\ request' = [request EXCEPT ![t] = r]
       /\ easy' = easy \cup {t}
       /\ m_files' = [m_files EXCEPT ![encodeURL[r.url]] = t]
       /\ m_handles' = Append(m_handles, t)
  /\ UNCHANGED <<m_initialised, m_num_to_process, multi, result, fp, fileVars,
                 signals, callVars>>

-----------------------------------------------------------------------------
(* poll.                                                                   *)

\* write_data opens the tmpfile of a transfer with its first bytes, so one that
\* ends with a body other than the empty one has it.  If os_create_tmpfile fails
\* the transfer ends with an error of curl's, and without a tmpfile.
Written(end, opened) ==
  \A t \in DOMAIN end : end[t] \in Crc \ {0} => t \in fp \cup opened

\* The call of curl_multi_perform.
Poll(finished) ==
  /\ CanNest("poll")
  /\ \E end \in [finished -> Crc \cup {CurlError}], opened \in SUBSET Running :
       /\ Written(end, opened)
       /\ result' = [t \in Transfer |-> IF t \in finished THEN end[t] ELSE result[t]]
       /\ fp' = fp \cup opened
  /\ Push(Loop("poll", Cardinality(Running \ finished)))
  /\ returned' = IF Idle THEN NotReturned ELSE returned
  /\ UNCHANGED <<m_initialised, ioVars, heapVars, easy, multi, fileVars, signals,
                 undefined>>

Unverified(t) == result[t] \in Crc

\* expected_crc32 of 0 means that no check is wanted.
Verified(t) ==
  /\ result[t] \in Crc
  /\ request[t].expected \in {0, result[t]}

\* copy_file truncates the target, then copies without looking at what fwrite
\* and fclose return.
CopyFile(t) ==
  \/ target' = [target EXCEPT ![t] = result[t]]
  \/ result[t] # 0 /\ target' = [target EXCEPT ![t] = Truncated]

\* os_set_executable, which runs whether or not copy_file succeeded.
SetExecutable(t) ==
  executable' = IF request[t].executable THEN executable \cup {t} ELSE executable

LeaveTemp(t) == t \in Transfer /\ UNCHANGED fp

CloseTemp(t) == fp' = fp \ {t}

\* One message of curl_multi_info_read, up to the signal it ends in.
PollMessage(t) ==
  /\ At("poll", "loop")
  /\ t \in Finished
  /\ \/ Verified(t) /\ CopyFile(t) /\ SetExecutable(t) /\ Emit(t, "complete")
     \/ Verified(t) /\ UNCHANGED target /\ SetExecutable(t) /\ Emit(t, "failed")
     \/ ~Verified(t) /\ UNCHANGED fileVars /\ Emit(t, "failed")
  /\ multi' = multi \ {t}
  /\ result' = [result EXCEPT ![t] = Unfinished]
  /\ CloseTemp(t)
  /\ stack' = <<Signal("poll", t, Head(stack).num)>> \o Tail(stack)
  /\ UNCHANGED <<m_initialised, ioVars, heapVars, easy, returned, undefined>>

\* Whether the code after a signal finds the DataStruct it reads, and the entry
\* of m_files it erases.
Filed(t) == heap[t] = "live" /\ m_files[Key(t)] # None

\* The handler has returned: the rest of the loop body.
PollForget ==
  /\ At("poll", "signal")
  /\ LET t == Head(stack).t IN
       /\ Filed(t)
       /\ m_files' = [m_files EXCEPT ![Key(t)] = None]
       /\ easy' = easy \ {t}
       /\ heap' = [heap EXCEPT ![t] = "deleted"]
  /\ stack' = <<Loop("poll", Head(stack).num)>> \o Tail(stack)
  /\ UNCHANGED <<m_initialised, m_handles, m_num_to_process, request, multi,
                 result, fp, fileVars, signals, returned, undefined>>

SpareIgnoringCurl(num) == IF num >= 0 THEN m_num_to_process ELSE 0

SpareButOne(num) == IF m_num_to_process > num + 1 THEN m_num_to_process - num - 1 ELSE 0

\* How many handles poll may add, from the count curl_multi_perform gave it
\* before the messages were read.
Spare(num) == IF m_num_to_process > num THEN m_num_to_process - num ELSE 0

Refill(num) ==
  IF Spare(num) < Len(m_handles) THEN Spare(num) ELSE Len(m_handles)

Added(num) == {m_handles[i] : i \in 1..Refill(num)}

ReturnedBeforeAdding(num) == num

Returned(num) == num + Refill(num)

\* No message is left: give curl the next handles and return.
PollReturn ==
  /\ At("poll", "loop")
  /\ Finished = {}
  /\ LET num == Head(stack).num IN
       /\ Added(num) \subseteq easy
       /\ multi' = multi \cup Added(num)
       /\ m_handles' = SubSeq(m_handles, Refill(num) + 1, Len(m_handles))
       /\ returned' = IF Len(stack) = 1 THEN Returned(num) ELSE returned
  /\ stack' = Tail(stack)
  /\ UNCHANGED <<m_initialised, m_files, m_num_to_process, heapVars, easy, result,
                 fp, fileVars, signals, undefined>>

-----------------------------------------------------------------------------
(* abortDownload and abortAll.                                             *)

DropFromCurl(t) ==
  /\ multi' = multi \ {t}
  /\ result' = [result EXCEPT ![t] = Unfinished]
  /\ UNCHANGED m_handles

DropIfPending(t) ==
  /\ m_handles' = SelectSeq(m_handles, LAMBDA h : h # t)
  /\ UNCHANGED <<multi, result>>

\* A handle that is not in m_handles is taken to be curl's.
DropHandle(t) ==
  \/ \E i \in DOMAIN m_handles :
       /\ m_handles[i] = t
       /\ \A j \in 1..(i - 1) : m_handles[j] # t
       /\ m_handles' = RemoveAt(m_handles, i)
       /\ UNCHANGED <<multi, result>>
  \/ /\ \A i \in DOMAIN m_handles : m_handles[i] # t
     /\ multi' = multi \ {t}
     /\ result' = [result EXCEPT ![t] = Unfinished]
     /\ UNCHANGED m_handles

\* abortDownload(DataStruct*), up to its signal.
AbortTransfer(t) ==
  /\ \/ t \in easy /\ DropHandle(t) /\ easy' = easy \ {t}
     \/ t \notin easy /\ UNCHANGED <<m_handles, easy, multi, result>>
  /\ CloseTemp(t)
  /\ Emit(t, "aborted")

AbortOp(t) == IF t \in Signalling THEN "abortSignalled" ELSE "abortDownload"

AbortDownload(filename) ==
  /\ m_files[filename] # None
  /\ LET t == m_files[filename] IN
       /\ CanNest(AbortOp(t))
       /\ heap[t] = "live"
       /\ AbortTransfer(t)
       /\ Push(Signal("abortDownload", t, 0))
  /\ UNCHANGED <<m_initialised, m_files, m_num_to_process, heapVars, fileVars,
                 returned, undefined>>

AbortDownloadReturn ==
  /\ At("abortDownload", "signal")
  /\ LET t == Head(stack).t IN
       /\ Filed(t)
       /\ heap' = [heap EXCEPT ![t] = "deleted"]
       /\ m_files' = [m_files EXCEPT ![Key(t)] = None]
  /\ stack' = Tail(stack)
  /\ UNCHANGED <<m_initialised, m_handles, m_num_to_process, request, curlVars,
                 fileVars, signals, returned, undefined>>

AbortAll ==
  /\ CanNest("abortAll")
  /\ Push(Loop("abortAll", 0))
  /\ UNCHANGED <<m_initialised, ioVars, heapVars, curlVars, fileVars, signals,
                 returned, undefined>>

AbortAllNext ==
  /\ At("abortAll", "loop")
  /\ \E first \in Keys :
       LET t == m_files[first] IN
         /\ IsFirst(first)
         /\ heap[t] = "live"
         /\ AbortTransfer(t)
         /\ stack' = <<Signal("abortAll", t, 0)>> \o Tail(stack)
  /\ UNCHANGED <<m_initialised, m_files, m_num_to_process, heapVars, fileVars,
                 returned, undefined>>

\* The handler has returned: the DataStruct of this round is deleted, and
\* whichever entry is first by now is erased.
AbortAllForget ==
  /\ At("abortAll", "signal")
  /\ heap[Head(stack).t] = "live"
  /\ \E first \in Keys :
       /\ IsFirst(first)
       /\ m_files' = [m_files EXCEPT ![first] = None]
  /\ heap' = [heap EXCEPT ![Head(stack).t] = "deleted"]
  /\ stack' = <<Loop("abortAll", 0)>> \o Tail(stack)
  /\ UNCHANGED <<m_initialised, m_handles, m_num_to_process, request, curlVars,
                 fileVars, signals, returned, undefined>>

AbortAllReturn ==
  /\ At("abortAll", "loop")
  /\ Keys = {}
  /\ stack' = Tail(stack)
  /\ UNCHANGED <<m_initialised, ioVars, heapVars, curlVars, fileVars, signals,
                 returned, undefined>>

-----------------------------------------------------------------------------
(* Undefined behaviour.  Each case is a use of a deleted DataStruct or of a *)
(* cleaned up handle, or an erase of the end iterator.  What follows such a *)
(* step may be anything, so the behaviour goes no further.                  *)

EraseWithoutEntry ==
  /\ InHandler /\ Head(stack).op # "abortAll"
  /\ ~Filed(Head(stack).t)

EraseFirstWithoutEntry ==
  /\ At("abortAll", "signal")
  /\ heap[Head(stack).t] # "live" \/ Keys = {}

AbortDeleted ==
  \/ /\ At("abortAll", "loop")
     /\ \E first \in Keys : IsFirst(first) /\ heap[m_files[first]] # "live"
  \/ /\ CanNest("abortDownload")
     /\ \E k \in Keys : heap[m_files[k]] # "live"

FreeDeleted ==
  /\ m_initialised /\ Idle
  /\ \E k \in Keys : heap[m_files[k]] # "live"

AddCleanedUpHandle ==
  /\ At("poll", "loop")
  /\ Finished = {}
  /\ ~(Added(Head(stack).num) \subseteq easy)

Undefined(case) ==
  /\ case
  /\ undefined' = TRUE
  /\ UNCHANGED <<m_initialised, ioVars, heapVars, curlVars, fileVars, signals,
                 stack, returned>>

-----------------------------------------------------------------------------

Calls ==
  \/ IOInit
  \/ IOShutdown
  \/ \E n \in Limits : SetMaxDownloads(n)
  \/ \E r \in Request : QueueFile(r)
  \/ \E finished \in SUBSET Running : Poll(finished)
  \/ \E filename \in Str : AbortDownload(filename)
  \/ AbortAll

Steps ==
  \/ \E t \in Transfer : PollMessage(t)
  \/ PollForget
  \/ PollReturn
  \/ AbortDownloadReturn
  \/ AbortAllNext
  \/ AbortAllForget
  \/ AbortAllReturn

Misuse ==
  \/ Undefined(EraseWithoutEntry)
  \/ Undefined(EraseFirstWithoutEntry)
  \/ Undefined(AbortDeleted)
  \/ Undefined(FreeDeleted)
  \/ Undefined(AddCleanedUpHandle)

Next == ~undefined /\ (Calls \/ Steps \/ Misuse)

Spec == Init /\ [][Next]_vars


\* Under what the properties below say of every call: urls that encode to
\* themselves, handlers that neither abort the transfer they were called for nor
\* queue files while abortAll runs, and an IO object that dies with shutdown.
CleanUrls == \A r \in Request : encodeURL[r.url] = r.url

DisciplinedHandlers ==
  HandlerOps \cap {"abortSignalled", "abortAll", "queueWhileAborting"} = {}

-----------------------------------------------------------------------------
(* Safety.                                                                 *)

\* Every variable holds a value of its type.
TypeOK ==
  /\ m_initialised \in BOOLEAN
  /\ m_files \in [Str -> Transfer \cup {None}]
  /\ m_handles \in Seq(Transfer)
  /\ m_num_to_process \in Nat
  /\ heap \in [Transfer -> {"fresh", "live", "deleted"}]
  /\ request \in [Transfer -> Request \cup {None}]
  /\ easy \subseteq Transfer
  /\ multi \subseteq Transfer
  /\ result \in [Transfer -> Crc \cup {Unfinished, CurlError}]
  /\ fp \subseteq Transfer
  /\ target \in [Transfer -> Crc \cup {NotSaved, Truncated}]
  /\ executable \subseteq Transfer
  /\ signals \in [Transfer -> Seq(Outcome)]
  /\ stack \in Seq(Frame)
  /\ returned \in Nat \cup {NotReturned}
  /\ undefined \in BOOLEAN

\* No sequence of calls, callbacks included, makes the queue use a deleted
\* DataStruct or a cleaned up handle, or erase an entry that is not there.
NoUndefined == ~undefined

Live == {t \in Transfer : heap[t] = "live"}

Pending == {m_handles[i] : i \in DOMAIN m_handles}

\* m_files reaches exactly the live DataStructs, each under its own url.
FilesExact ==
  /\ \A k \in Keys : m_files[k] \in Live /\ Key(m_files[k]) = k
  /\ \A t \in Live : request[t] \in Request /\ m_files[Key(t)] = t

\* Each of them waits in m_handles, or is with curl, or is having its signal
\* handled, one of the three; those of the first two have their easy handle.
OnePlace ==
  /\ Live = Pending \cup multi \cup Signalling
  /\ Pending \cap multi = {}
  /\ (Pending \cup multi) \cap Signalling = {}
  /\ \A i, j \in DOMAIN m_handles : m_handles[i] = m_handles[j] => i = j
  /\ Pending \cup multi \subseteq easy
  /\ easy \subseteq Live

\* The calls in progress are nested as handlers nest them: no two of them handle
\* the same transfer, an abort has cleaned up its handle, and abortAll is the
\* outermost, with its DataStruct still the first of m_files.
CallsNest ==
  /\ \A i \in DOMAIN stack : stack[i].at = "signal" => stack[i].t \in Transfer
  /\ \A i, j \in DOMAIN stack :
       stack[i].at = "signal" /\ stack[j].at = "signal" /\ stack[i].t = stack[j].t => i = j
  /\ \A i \in DOMAIN stack :
       stack[i].op = "abortAll" =>
         /\ i = Len(stack)
         /\ stack[i].at = "signal" => IsFirst(Key(stack[i].t))
  /\ \A i \in DOMAIN stack :
       stack[i].op # "poll" /\ stack[i].at = "signal" => stack[i].t \notin easy

\* The containers of the queue, curl and the calls in progress agree, between
\* calls and inside every callback.
QueueConsistent == FilesExact /\ OnePlace /\ CallsNest

\* An application hears of a transfer at most once, whatever its handlers do, and
\* not before it has ended.
OneSignal ==
  \A t \in Transfer :
    /\ Len(signals[t]) <= 1
    /\ heap[t] = "fresh" \/ t \in Pending \cup multi => signals[t] = <<>>

Completed(t) == signals[t] # <<>> /\ Head(signals[t]) = "complete"

\* A target that has a whole body has one with the crc32 that was asked for, of a transfer
\* that was reported complete; and no transfer is reported complete without a write to
\* its target.
TargetVerified ==
  \A t \in Transfer :
    /\ target[t] \in Crc => Completed(t) /\ request[t].expected \in {0, target[t]}
    /\ Completed(t) => target[t] # NotSaved

\* What is said of a transfer after it was aborted is not that it ended: a
\* result curl had ready when the abort came is never delivered.
AbortIsFinal ==
  \A t \in Transfer : \A i, j \in DOMAIN signals[t] :
    i < j /\ signals[t][i] = "aborted" => signals[t][j] = "aborted"

\* No tmpfile outlives its transfer: one is open only while curl can write to it.
TempFilesClosed == fp \subseteq multi

\* "Set the maximum number of simultaneous downloads allowed" (IO.h): poll never
\* makes curl run more transfers than that, however the limit changes between polls
\* and inside them.
ConnectionLimit ==
  [][multi' \subseteq multi \/ Cardinality(Running') <= m_num_to_process]_vars

-----------------------------------------------------------------------------
(* What a comment of the repository says, which the code does not do.      *)

\* "Url already in queue" (IO.cpp): a url is not queued a second time while its
\* first transfer lasts.
OneTransferPerUrl ==
  \A t, u \in Transfer :
    heap[t] = "live" /\ heap[u] = "live" /\ request[t].url = request[u].url => t = u

-----------------------------------------------------------------------------
(* Liveness.  An application that polls until nothing is left calls poll   *)
(* again and again; handlers return; and curl ends every transfer it was   *)
(* given, by its own protocol timeouts if nothing else.                    *)

EndOf(t) == \E finished \in SUBSET Running : t \in finished /\ Poll(finished)

Fairness ==
  /\ WF_vars(~undefined /\ Steps)
  /\ SF_vars(~undefined /\ \E finished \in SUBSET Running : Poll(finished))
  /\ \A t \in Transfer : SF_vars(~undefined /\ EndOf(t))

FairSpec == Spec /\ Fairness

\* Every file queued is answered by a signal, unless the client is shut down.
EverySignalled ==
  \A t \in Transfer :
    heap[t] = "live" ~> (signals[t] # <<>> \/ ~m_initialised)

-----------------------------------------------------------------------------
(* Refinement.  An application sees a transfer through its signals.        *)

outcomeOf(t) ==
  IF signals[t] # <<>> THEN Last(signals[t])
  ELSE IF heap[t] = "fresh" THEN "none"
  ELSE IF heap[t] = "live" THEN "pending"
  ELSE "dropped"

Contract == INSTANCE DownloadContract WITH
  outcome <- [t \in Transfer |-> outcomeOf(t)],
  done <- (returned = 0)

\* The queue implements DownloadContract: one outcome for each file, none lost,
\* and a poll that returns 0 "when all files have finished downloading" (WFUT.h) only.
ImplementsContract == Contract!Spec

====
