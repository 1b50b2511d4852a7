---------------------------- MODULE ContractProofs ----------------------------
(***************************************************************************)
(* What DownloadQueue promises an application, proved for every value of   *)
(* its constants: that curl never gets more transfers than the limit, that *)
(* the queue implements DownloadContract, and what holds whatever the      *)
(* handlers do.                                                            *)
(***************************************************************************)
EXTENDS DownloadQueueProofs

-----------------------------------------------------------------------------
(* The limit.  poll counts the running transfers before it handles their   *)
(* messages; unless a handler polls, there are never more until it gives   *)
(* curl the next ones.                                                     *)

\* Handlers that do not poll.
NoNestedPoll == "poll" \notin HandlerOps

Counted ==
  \A i \in DOMAIN stack :
    stack[i].op = "poll" =>
      i = Len(stack) /\ Cardinality(Running) <= stack[i].num

LEMMA RunningFinite ==
  ASSUME TypeOK
  PROVE  IsFiniteSet(Running) /\ Cardinality(Running) \in Nat
<1>1. Running \subseteq Transfer
  BY DEF Running, TypeOK
<1> QED BY <1>1, TransferAssumption, FS_Subset, FS_CardinalityType

LEMMA FewerRunning ==
  ASSUME TypeOK, Running' \subseteq Running
  PROVE  \A n \in Nat : Cardinality(Running) <= n => Cardinality(Running') <= n
<1>1. IsFiniteSet(Running)
  BY RunningFinite
<1>2. /\ Cardinality(Running') <= Cardinality(Running)
      /\ Cardinality(Running') \in Nat /\ Cardinality(Running) \in Nat
  BY <1>1, FS_Subset, FS_CardinalityType
<1> QED BY <1>2

LEMMA StackFrames ==
  ASSUME TypeOK
  PROVE  /\ stack \in Seq(Frame) /\ Len(stack) \in Nat /\ DOMAIN stack = 1..Len(stack)
         /\ \A i \in 1..Len(stack) : stack[i] \in Frame /\ stack[i].num \in Nat
         /\ stack # <<>> => Len(stack) # 0 /\ Head(stack) = stack[1]
<1>1. stack \in Seq(Frame)
  BY DEF TypeOK
<1>2. Len(stack) \in Nat /\ DOMAIN stack = 1..Len(stack)
  BY <1>1, LenProperties
<1>3. \A i \in 1..Len(stack) : stack[i] \in Frame
  BY <1>1, ElementOfSeq
<1>4. \A f \in Frame : f.num \in Nat
  BY DEF Frame
<1>5. stack # <<>> => Len(stack) # 0 /\ Head(stack) = stack[1]
  BY <1>1, PopElements
<1> QED BY <1>1, <1>2, <1>3, <1>4, <1>5

\* A step that starts no call and ends none.
LEMMA CountedSame ==
  ASSUME TypeOK, Counted, stack' = stack, Running' \subseteq Running
  PROVE  Counted'
<1> QED BY StackFrames, FewerRunning DEF Counted

\* A call other than poll begins.
LEMMA CountedPush ==
  ASSUME TypeOK, Counted, NEW f \in Frame, f.op # "poll", Push(f), Running' \subseteq Running
  PROVE  Counted'
<1> DEFINE n == Len(stack)
<1>1. /\ n \in Nat /\ DOMAIN stack = 1..n
      /\ \A i \in 1..n : stack[i].num \in Nat
  BY StackFrames
<1>2. /\ DOMAIN stack' = 1..(n + 1) /\ Len(stack') = n + 1
      /\ stack'[1] = f
      /\ \A i \in 2..(n + 1) : stack'[i] = stack[i - 1]
  <2>1. stack \in Seq(Frame)
    BY DEF TypeOK
  <2> QED BY <2>1, PushElements, LenProperties DEF Push
<1>3. \A k \in Nat : Cardinality(Running) <= k => Cardinality(Running') <= k
  BY FewerRunning
<1> HIDE DEF n
<1>4. ASSUME NEW i \in 1..(n + 1), stack'[i].op = "poll"
      PROVE  i = n + 1 /\ Cardinality(Running') <= stack'[i].num
  <2>1. i \in 2..(n + 1) /\ i - 1 \in 1..n
    BY <1>1, <1>2, <1>4
  <2>2. stack'[i] = stack[i - 1]
    BY <1>2, <2>1
  <2>3. i - 1 = n /\ Cardinality(Running) <= stack[i - 1].num
    BY <1>1, <1>4, <2>1, <2>2 DEF Counted, n
  <2>4. stack[i - 1].num \in Nat
    BY <1>1, <2>1
  <2> QED BY <1>1, <1>3, <2>1, <2>2, <2>3, <2>4
<1> QED BY <1>2, <1>4 DEF Counted

\* The innermost call goes from its loop to a signal or back.
LEMMA CountedTop ==
  ASSUME TypeOK, Counted, stack # <<>>, NEW f \in Frame,
         f.op = "poll" => Head(stack).op = "poll" /\ f.num = Head(stack).num,
         stack' = <<f>> \o Tail(stack), Running' \subseteq Running
  PROVE  Counted'
<1> DEFINE n == Len(stack)
<1>1. /\ n \in Nat \ {0} /\ DOMAIN stack = 1..n /\ Head(stack) = stack[1]
      /\ \A i \in 1..n : stack[i].num \in Nat
  BY StackFrames
<1>2. /\ DOMAIN stack' = 1..n /\ Len(stack') = n
      /\ stack'[1] = f
      /\ \A i \in 2..n : stack'[i] = stack[i]
  <2>1. stack \in Seq(Frame)
    BY DEF TypeOK
  <2> QED BY <2>1, TopElements, LenProperties
<1>3. \A k \in Nat : Cardinality(Running) <= k => Cardinality(Running') <= k
  BY FewerRunning
<1> HIDE DEF n
<1>4. ASSUME NEW i \in 1..n, stack'[i].op = "poll"
      PROVE  i = n /\ Cardinality(Running') <= stack'[i].num
  <2>1. stack[i].op = "poll" /\ stack'[i].num = stack[i].num
    <3>1. CASE i = 1
      BY <1>1, <1>2, <1>4, <3>1
    <3>2. CASE i \in 2..n
      BY <1>2, <1>4, <3>2
    <3> QED BY <1>1, <3>1, <3>2
  <2>2. i = n /\ Cardinality(Running) <= stack[i].num /\ stack[i].num \in Nat
    BY <1>1, <2>1 DEF Counted, n
  <2> QED BY <1>3, <2>1, <2>2
<1> QED BY <1>2, <1>4 DEF Counted

\* The innermost call, which is not a poll, returns.
LEMMA CountedPop ==
  ASSUME TypeOK, Counted, stack # <<>>, stack' = Tail(stack), Running' \subseteq Running
  PROVE  Counted'
<1> DEFINE n == Len(stack)
<1>1. /\ n \in Nat \ {0} /\ DOMAIN stack = 1..n
      /\ \A i \in 1..n : stack[i].num \in Nat
  BY StackFrames
<1>2. /\ DOMAIN stack' = 1..(n - 1) /\ Len(stack') = n - 1
      /\ \A i \in 1..(n - 1) : stack'[i] = stack[i + 1]
  <2>1. stack \in Seq(Frame)
    BY DEF TypeOK
  <2> QED BY <2>1, PopElements, LenProperties
<1>3. \A k \in Nat : Cardinality(Running) <= k => Cardinality(Running') <= k
  BY FewerRunning
<1> HIDE DEF n
<1>4. ASSUME NEW i \in 1..(n - 1), stack'[i].op = "poll"
      PROVE  i = n - 1 /\ Cardinality(Running') <= stack'[i].num
  <2>1. i + 1 \in 1..n /\ stack'[i] = stack[i + 1]
    BY <1>1, <1>2
  <2>2. i + 1 = n /\ Cardinality(Running) <= stack[i + 1].num /\ stack[i + 1].num \in Nat
    BY <1>1, <1>4, <2>1 DEF Counted, n
  <2> QED BY <1>1, <1>3, <2>1, <2>2
<1> QED BY <1>2, <1>4 DEF Counted

LEMMA AbortRunning ==
  ASSUME TypeOK, NEW t \in Transfer, AbortTransfer(t)
  PROVE  multi' \subseteq multi /\ Running' \subseteq Running
<1>1. \/ UNCHANGED <<multi, result>>
      \/ multi' = multi \ {t} /\ result' = [result EXCEPT ![t] = Unfinished]
  BY DEF AbortTransfer, DropHandle
<1> QED BY <1>1 DEF Running, TypeOK

\* poll takes as many handles as the limit allows.
LEMMA RefillRunning ==
  ASSUME TypeOK, Counted, PollReturn
  PROVE  /\ multi' \subseteq multi \/ Cardinality(Running') <= m_num_to_process
         /\ Head(stack).num = 0 /\ Refill(0) = 0 => multi' = {}
<1> DEFINE num == Head(stack).num
<1>1. At("poll", "loop") /\ stack # <<>> /\ Finished = {} /\ result' = result
      /\ multi' = multi \cup Added(num) /\ m_num_to_process \in Nat
  BY DEF PollReturn, At, Idle, TypeOK
<1>2. num \in Nat /\ Cardinality(Running) <= num
  <2>1. 1 \in 1..Len(stack) /\ Head(stack) = stack[1] /\ stack[1].num \in Nat
    BY <1>1, StackFrames
  <2> QED BY <1>1, <2>1, StackFrames DEF At, Counted
<1>3. Refill(num) \in Nat /\ Refill(num) <= Spare(num) /\ Refill(num) \in 0..Len(m_handles)
  <2>1. Refill(num) \in 0..Len(m_handles) /\ Len(m_handles) \in Nat
    BY <1>2, RefillBounds
  <2>2. Spare(num) \in Nat
    BY <1>1, <1>2 DEF Spare
  <2> QED BY <2>1, <2>2 DEF Refill
<1> HIDE DEF num
<1>4. IsFiniteSet(Added(num)) /\ Cardinality(Added(num)) <= Refill(num)
      /\ Cardinality(Added(num)) \in Nat
  <2> DEFINE k == Refill(num)
             f == [i \in 1..k |-> m_handles[i]]
  <2>1. IsFiniteSet(1..k) /\ Cardinality(1..k) = k
    BY <1>3, FS_Interval
  <2>2. Added(num) = {f[i] : i \in 1..k}
    BY DEF Added
  <2> HIDE DEF k
  <2>3. f \in Surjection(1..k, Added(num))
    BY <2>2 DEF Surjection
  <2> HIDE DEF f
  <2>4. IsFiniteSet(Added(num)) /\ Cardinality(Added(num)) <= k
    BY <2>1, <2>3, FS_Surjection
  <2> QED BY <2>4, FS_CardinalityType DEF k
<1>5. Running' \subseteq Running \cup Added(num) /\ Running = multi
  BY <1>1 DEF Running, Finished
<1>6. IsFiniteSet(Running) /\ Cardinality(Running) \in Nat
  BY RunningFinite
<1>7. Cardinality(Running') <= Cardinality(Running) + Cardinality(Added(num))
      /\ Cardinality(Running') \in Nat
  <2>1. /\ IsFiniteSet(Running \cup Added(num))
        /\ Cardinality(Running \cup Added(num))
             = Cardinality(Running) + Cardinality(Added(num)) - Cardinality(Running \cap Added(num))
    BY <1>4, <1>6, FS_Union
  <2>2. Cardinality(Running \cap Added(num)) \in Nat
    BY <1>6, FS_Subset, FS_CardinalityType
  <2>3. Cardinality(Running') <= Cardinality(Running \cup Added(num))
        /\ Cardinality(Running') \in Nat
    BY <1>5, <2>1, FS_Subset, FS_CardinalityType
  <2> QED BY <1>4, <1>6, <2>1, <2>2, <2>3
<1>8. CASE m_num_to_process > num
  <2>1. Spare(num) = m_num_to_process - num
    BY <1>8 DEF Spare
  <2>2. Cardinality(Running') <= m_num_to_process
    BY <1>1, <1>2, <1>3, <1>4, <1>6, <1>7, <2>1
  <2>3. num = 0 /\ Refill(0) = 0 => Cardinality(Running) = 0 /\ Cardinality(Added(num)) = 0
    BY <1>2, <1>4, <1>6
  <2>4. num = 0 /\ Refill(0) = 0 => multi' = {}
    BY <1>1, <1>4, <1>5, <1>6, <2>3, FS_EmptySet
  <2> QED BY <2>2, <2>4 DEF num
<1>9. CASE ~(m_num_to_process > num)
  <2>1. Refill(num) = 0
    BY <1>3, <1>9 DEF Spare
  <2>2. Added(num) = {}
    BY <2>1 DEF Added
  <2>3. num = 0 => Cardinality(Running) = 0
    BY <1>2, <1>6
  <2>4. num = 0 => multi' = {}
    BY <1>1, <1>5, <1>6, <2>2, <2>3, FS_EmptySet
  <2> QED BY <1>1, <2>2, <2>4 DEF num
<1> QED BY <1>8, <1>9

LEMMA CountedNext ==
  ASSUME NoNestedPoll, TypeOK, Counted, [Next]_vars
  PROVE  Counted' /\ (multi' \subseteq multi \/ Cardinality(Running') <= m_num_to_process)
<1> USE DEF ioVars, heapVars, curlVars, fileVars, callVars
<1> DEFINE Kept == Counted' /\ multi' \subseteq multi
<1>1. CASE UNCHANGED <<stack, multi, result>>
  BY <1>1, CountedSame DEF Running
<1>2. CASE IOShutdown
  <2>1. stack' = stack /\ multi' = {} /\ Running' = {}
    BY <1>2 DEF IOShutdown, Running
  <2> QED BY <2>1, CountedSame
<1>3. ASSUME NEW finished \in SUBSET Running, Poll(finished) PROVE Kept
  <2>1. stack = <<>>
    BY <1>3 DEF Poll, CanNest, CanCall, NoNestedPoll, Idle
  <2> DEFINE k == Cardinality(Running \ finished)
  <2>2. PICK end \in [finished -> Crc \cup {CurlError}] :
          result' = [t \in Transfer |-> IF t \in finished THEN end[t] ELSE result[t]]
    BY <1>3 DEF Poll
  <2>3. \A t \in finished : end[t] # Unfinished
    <3>1. \A c \in Crc \cup {CurlError} : c # Unfinished
      BY CrcAssumption DEF CurlError, Unfinished
    <3> QED BY <3>1
  <2>4. multi' = multi /\ Running' = Running \ finished
    BY <1>3, <2>2, <2>3 DEF Poll, Running, TypeOK
  <2>5. stack' = <<Loop("poll", k)>> \o <<>>
    BY <1>3, <2>1 DEF Poll, Push
  <2>6. k \in Nat /\ Cardinality(Running') = k
    BY <2>4, RunningFinite, FS_Subset, FS_CardinalityType
  <2> HIDE DEF k
  <2>7. Loop("poll", k) \in Frame /\ Loop("poll", k).num = k
    BY <2>6, FrameTypes DEF Loop
  <2>8. Len(stack') = 1 /\ DOMAIN stack' = 1..1 /\ stack'[1] = Loop("poll", k)
    BY <2>5
  <2>9. \A i \in DOMAIN stack' : i = Len(stack') /\ Cardinality(Running') <= stack'[i].num
    BY <2>6, <2>7, <2>8
  <2> QED BY <2>4, <2>9 DEF Counted
<1>4. ASSUME NEW filename \in Str, AbortDownload(filename) PROVE Kept
  <2> DEFINE t == m_files[filename]
  <2>1. t \in Transfer /\ AbortTransfer(t) /\ Push(Signal("abortDownload", t, 0))
    BY <1>4 DEF AbortDownload, TypeOK
  <2> HIDE DEF t
  <2>2. multi' \subseteq multi /\ Running' \subseteq Running
    BY <2>1, AbortRunning
  <2>3. /\ Signal("abortDownload", t, 0) \in Frame
        /\ Signal("abortDownload", t, 0).op = "abortDownload"
    BY <2>1, FrameTypes DEF Signal
  <2> QED BY <2>1, <2>2, <2>3, CountedPush
<1>5. CASE AbortAll
  <2>1. /\ Loop("abortAll", 0) \in Frame /\ Loop("abortAll", 0).op = "abortAll"
        /\ Push(Loop("abortAll", 0))
    BY <1>5, FrameTypes DEF AbortAll, Loop
  <2>2. multi' = multi /\ Running' = Running
    BY <1>5 DEF AbortAll, Running
  <2> QED BY <2>1, <2>2, CountedPush
<1>6. ASSUME NEW t \in Transfer, PollMessage(t) PROVE Kept
  <2>1. stack # <<>> /\ Head(stack).op = "poll" /\ Head(stack).num \in Nat
    BY <1>6, StackFrames DEF PollMessage, At, Idle
  <2> DEFINE f == Signal("poll", t, Head(stack).num)
  <2>2. f \in Frame /\ f.num = Head(stack).num /\ stack' = <<f>> \o Tail(stack)
    BY <1>6, <2>1, FrameTypes DEF PollMessage, Signal
  <2>3. multi' \subseteq multi /\ Running' \subseteq Running
    BY <1>6 DEF PollMessage, Running, TypeOK
  <2> QED BY <2>1, <2>2, <2>3, CountedTop
<1>7. CASE PollForget
  <2>1. stack # <<>> /\ Head(stack).op = "poll" /\ Head(stack).num \in Nat
    BY <1>7, StackFrames DEF PollForget, At, Idle
  <2> DEFINE f == Loop("poll", Head(stack).num)
  <2>2. f \in Frame /\ f.num = Head(stack).num /\ stack' = <<f>> \o Tail(stack)
    BY <1>7, <2>1, FrameTypes DEF PollForget, Loop
  <2>3. multi' = multi /\ Running' = Running
    BY <1>7 DEF PollForget, Running
  <2> QED BY <2>1, <2>2, <2>3, CountedTop
<1>8. CASE PollReturn
  <2>1. multi' \subseteq multi \/ Cardinality(Running') <= m_num_to_process
    BY <1>8, RefillRunning
  <2>2. stack # <<>> /\ Head(stack).op = "poll" /\ stack' = Tail(stack)
    BY <1>8 DEF PollReturn, At, Idle
  <2>3. 1 \in DOMAIN stack /\ stack[1].op = "poll"
    BY <2>2, StackFrames
  <2>4. Len(stack) = 1
    BY <2>3 DEF Counted
  <2>5. Len(stack') = 0 /\ stack' \in Seq(Frame)
    BY <2>2, <2>4, StackFrames, PopElements
  <2>6. DOMAIN stack' = {}
    BY <2>5, LenProperties
  <2> QED BY <2>1, <2>6 DEF Counted
<1>9. CASE AbortDownloadReturn
  <2>1. stack # <<>> /\ stack' = Tail(stack) /\ multi' = multi /\ Running' = Running
    BY <1>9 DEF AbortDownloadReturn, At, Idle, Running
  <2> QED BY <2>1, CountedPop
<1>10. CASE AbortAllNext
  <2>1. PICK t \in Transfer :
          AbortTransfer(t) /\ stack' = <<Signal("abortAll", t, 0)>> \o Tail(stack)
    BY <1>10, NoneAssumption DEF AbortAllNext, Keys, TypeOK
  <2>2. stack # <<>>
    BY <1>10 DEF AbortAllNext, At, Idle
  <2>3. Signal("abortAll", t, 0) \in Frame /\ Signal("abortAll", t, 0).op = "abortAll"
    BY FrameTypes DEF Signal
  <2> QED BY <2>1, <2>2, <2>3, AbortRunning, CountedTop
<1>11. CASE AbortAllForget
  <2>1. stack # <<>> /\ stack' = <<Loop("abortAll", 0)>> \o Tail(stack)
        /\ multi' = multi /\ Running' = Running
    BY <1>11 DEF AbortAllForget, At, Idle, Running
  <2>2. Loop("abortAll", 0) \in Frame /\ Loop("abortAll", 0).op = "abortAll"
    BY FrameTypes DEF Loop
  <2> QED BY <2>1, <2>2, CountedTop
<1>12. CASE AbortAllReturn
  <2>1. stack # <<>> /\ stack' = Tail(stack) /\ multi' = multi /\ Running' = Running
    BY <1>12 DEF AbortAllReturn, At, Idle, Running
  <2> QED BY <2>1, CountedPop
<1>13. CASE IOInit \/ \E n \in Limits : SetMaxDownloads(n)
  BY <1>1, <1>13 DEF IOInit, SetMaxDownloads
<1>14. CASE \E r \in Request : QueueFile(r)
  BY <1>1, <1>14 DEF QueueFile
<1>15. CASE Misuse
  BY <1>1, <1>15 DEF Misuse, Undefined
<1>16. CASE UNCHANGED vars
  BY <1>1, <1>16 DEF vars
<1> QED
  BY <1>2, <1>3, <1>4, <1>5, <1>6, <1>7, <1>8, <1>9, <1>10, <1>11, <1>12, <1>13, <1>14,
     <1>15, <1>16
  DEF Next, Calls, Steps

\* poll never gives curl more transfers than setMaxDownloads allows, whatever the limits
\* are and whenever they change, if no handler polls.
THEOREM LimitKept ==
  ASSUME NoNestedPoll
  PROVE  Spec => ConnectionLimit
<1>1. Init => Counted
  BY EmptySeq DEF Init, Counted
<1>2. TypeOK /\ Counted /\ [Next]_vars => Counted'
  BY CountedNext
<1>3. TypeOK /\ Counted /\ [Next]_vars
      => [multi' \subseteq multi \/ Cardinality(Running') <= m_num_to_process]_vars
  BY CountedNext
<1> QED BY <1>1, <1>2, <1>3, TypeCorrect, PTL DEF Spec, ConnectionLimit

-----------------------------------------------------------------------------
(* Refinement.  A DataStruct that neither waits nor is with curl has had   *)
(* its signal; so what DownloadContract calls pending is what waits or is  *)
(* with curl, and the signal that settles it is the first.                 *)

\* Limits that let poll work.
PositiveLimits == 0 \notin Limits

HeardOf == \A t \in Live : t \in Pending \cup multi \/ signals[t] # <<>>

RInv == IInv /\ Counted /\ HeardOf /\ m_num_to_process # 0

LEMMA InvParts ==
  ASSUME IInv
  PROVE  /\ TypeOK /\ OneSignal /\ FilesExact /\ OnePlace /\ HandlesDistinct
         /\ m_handles \in Seq(Transfer) /\ Pending \subseteq Transfer /\ Live \subseteq Transfer
         /\ multi \subseteq Live
<1>1. TypeOK /\ OneSignal /\ FilesExact /\ OnePlace /\ HandlesDistinct
  BY InvStack DEF IInv
<1>2. m_handles \in Seq(Transfer) /\ Live \subseteq Transfer /\ multi \subseteq Live
  BY <1>1 DEF TypeOK, Live, OnePlace
<1>3. Pending \subseteq Transfer
  BY <1>1, <1>2 DEF OnePlace
<1> QED BY <1>1, <1>2, <1>3

\* A signal makes the history of its transfer longer.
LEMMA Heard ==
  ASSUME TypeOK, NEW t \in Transfer, NEW o \in Outcome, Emit(t, o)
  PROVE  /\ signals'[t] # <<>> /\ Len(signals'[t]) = Len(signals[t]) + 1
         /\ Len(signals[t]) \in Nat
         /\ signals'[t][Len(signals'[t])] = o
         /\ signals[t] = <<>> <=> Len(signals[t]) = 0
         /\ \A u \in Transfer \ {t} : signals'[u] = signals[u]
<1>1. signals[t] \in Seq(Outcome) /\ signals \in [Transfer -> Seq(Outcome)]
  BY DEF TypeOK
<1>2. signals'[t] = Append(signals[t], o) /\ \A u \in Transfer \ {t} : signals'[u] = signals[u]
  BY <1>1 DEF Emit
<1> QED BY <1>1, <1>2

\* An abort takes its own handle out of the queue and no other.
LEMMA AbortLeavesOthers ==
  ASSUME IInv, NEW t \in Transfer, AbortTransfer(t)
  PROVE  /\ Pending \cup multi \subseteq Pending' \cup multi' \cup {t}
         /\ Emit(t, "aborted")
<1>1. m_handles \in Seq(Transfer) /\ HandlesDistinct
  BY InvParts
<1>2. CASE DropHandle(t)
  BY <1>1, <1>2, DropHandleEffect DEF AbortTransfer
<1>3. CASE UNCHANGED <<m_handles, multi>>
  BY <1>3 DEF AbortTransfer, Pending
<1> QED BY <1>2, <1>3 DEF AbortTransfer

\* The three steps after a handler: the DataStruct they delete has had its signal.
LEMMA ForgetsHeard ==
  ASSUME IInv, HeardOf, NEW op, At(op, "signal")
  PROVE  Head(stack).t \in Transfer /\ signals[Head(stack).t] # <<>>
<1>1. Head(stack).t \in Signalling /\ Head(stack).t \in Live
  BY TopSignal
<1>2. Head(stack).t \notin Pending \cup multi
  BY <1>1, InvParts DEF OnePlace
<1> QED BY <1>1, <1>2, InvParts DEF HeardOf

LEMMA HeardNext ==
  ASSUME Client, IInv, IInv', HeardOf, [Next]_vars
  PROVE  HeardOf'
<1> USE DEF ioVars, heapVars, curlVars, fileVars, callVars
<1>1. CASE UNCHANGED <<heap, m_handles, multi, signals>>
  BY <1>1 DEF HeardOf, Live, Pending
<1>2. CASE UNCHANGED <<m_handles, multi, signals>> /\ Live' \subseteq Live
  BY <1>2 DEF HeardOf, Pending
<1>3. CASE IOShutdown
  <2>1. Signalling' = {}
    BY <1>3, EmptySeq DEF IOShutdown, Idle, Signalling
  <2> QED BY <2>1 DEF HeardOf, IInv, QueueConsistent, OnePlace
<1>4. ASSUME NEW r \in Request, QueueFile(r) PROVE HeardOf'
  <2>1. PICK t \in Transfer :
          /\ heap[t] = "fresh" /\ heap' = [heap EXCEPT ![t] = "live"]
          /\ m_handles' = Append(m_handles, t)
    BY <1>4 DEF QueueFile
  <2>2. Live' = Live \cup {t} /\ t \notin Live /\ t \notin Pending
    BY <2>1, InvParts DEF Live, TypeOK, OnePlace
  <2>3. Pending' = Pending \cup {t}
    BY <2>1, <2>2, InvParts, AppendEffect
  <2> QED BY <1>4, <2>2, <2>3 DEF QueueFile, HeardOf
<1>5. ASSUME NEW t \in Transfer, PollMessage(t) PROVE HeardOf'
  <2>1. Emit(t, "complete") \/ Emit(t, "failed")
    BY <1>5 DEF PollMessage
  <2>2. signals'[t] # <<>> /\ \A u \in Transfer \ {t} : signals'[u] = signals[u]
    BY <2>1, Heard, InvParts DEF Outcome
  <2>3. Live' = Live /\ Pending' = Pending /\ multi' = multi \ {t}
    BY <1>5 DEF PollMessage, Live, Pending
  <2> QED BY <2>2, <2>3, InvParts DEF HeardOf
<1>6. CASE PollReturn
  <2>1. Head(stack).num \in Nat
    BY <1>6, TopFrame, InvParts DEF PollReturn
  <2>2. /\ Pending' = Pending \ Added(Head(stack).num)
        /\ multi' = multi \cup Added(Head(stack).num)
    BY <1>6, <2>1, RefillEffect, InvParts DEF PollReturn
  <2>3. Live' = Live /\ signals' = signals
    BY <1>6 DEF PollReturn, Live
  <2> QED BY <2>2, <2>3 DEF HeardOf
<1>7. ASSUME NEW t \in Transfer, AbortTransfer(t), UNCHANGED heap PROVE HeardOf'
  <2>1. Pending \cup multi \subseteq Pending' \cup multi' \cup {t} /\ Emit(t, "aborted")
    BY <1>7, AbortLeavesOthers
  <2>2. signals'[t] # <<>> /\ \A u \in Transfer \ {t} : signals'[u] = signals[u]
    BY <2>1, Heard, InvParts DEF Outcome
  <2>3. Live' = Live
    BY <1>7 DEF Live
  <2> QED BY <2>1, <2>2, <2>3, InvParts DEF HeardOf
<1>8. CASE \/ \E filename \in Str : AbortDownload(filename)
           \/ AbortAllNext
  <2>1. UNCHANGED heap /\ \E t \in Transfer : AbortTransfer(t)
    BY <1>8, NoneAssumption, InvParts DEF AbortDownload, AbortAllNext, Keys, TypeOK
  <2> QED BY <1>7, <2>1
<1>9. CASE PollForget \/ AbortDownloadReturn \/ AbortAllForget
  <2>1. Live' \subseteq Live
    BY <1>9, InvParts DEF PollForget, AbortDownloadReturn, AbortAllForget, Live, TypeOK
  <2> QED BY <1>2, <1>9, <2>1 DEF PollForget, AbortDownloadReturn, AbortAllForget
<1>10. CASE \/ IOInit
            \/ \E n \in Limits : SetMaxDownloads(n)
            \/ \E finished \in SUBSET Running : Poll(finished)
            \/ AbortAll
            \/ AbortAllReturn
            \/ Misuse
            \/ UNCHANGED vars
  BY <1>1, <1>10 DEF IOInit, SetMaxDownloads, Poll, AbortAll, AbortAllReturn, Misuse,
                     Undefined, vars
<1> QED BY <1>3, <1>4, <1>5, <1>6, <1>8, <1>9, <1>10 DEF Next, Calls, Steps

LEMMA RInvInit == Init => RInv
<1> SUFFICES ASSUME Init PROVE RInv
  OBVIOUS
<1>1. IInv
  BY InvInit
<1>2. Counted
  BY EmptySeq DEF Init, Counted
<1>3. HeardOf
  BY DEF Init, HeardOf, Live
<1> QED BY <1>1, <1>2, <1>3 DEF Init, RInv

LEMMA RInvNext ==
  ASSUME Client, NoNestedPoll, PositiveLimits, RInv, [Next]_vars
  PROVE  RInv'
<1>1. IInv' /\ TypeOK
  BY InvStep, InvParts DEF RInv
<1>2. Counted'
  BY <1>1, CountedNext DEF RInv
<1>3. HeardOf'
  BY <1>1, HeardNext DEF RInv
<1>4. m_num_to_process' # 0
  <2> USE DEF ioVars, heapVars, curlVars, fileVars, callVars
  <2>1. CASE UNCHANGED m_num_to_process
    BY <2>1 DEF RInv
  <2>2. CASE IOShutdown
    BY <2>2 DEF IOShutdown, RInv
  <2>3. CASE \E n \in Limits : SetMaxDownloads(n)
    BY <2>3 DEF SetMaxDownloads, PositiveLimits
  <2>4. [Next]_vars => \/ UNCHANGED m_num_to_process \/ IOShutdown
                       \/ \E n \in Limits : SetMaxDownloads(n)
    BY DEF Next, Calls, Steps, Misuse, Undefined, IOInit, QueueFile, Poll, AbortDownload,
           AbortAll, PollMessage, PollForget, PollReturn, AbortDownloadReturn, AbortAllNext,
           AbortAllForget, AbortAllReturn, vars
  <2> QED BY <2>1, <2>2, <2>3, <2>4
<1> QED BY <1>1, <1>2, <1>3, <1>4 DEF RInv

outcomes == [t \in Transfer |-> outcomeOf(t)]

\* The transfers the contract calls pending.
LEMMA ContractPending ==
  ASSUME RInv, NEW t \in Transfer
  PROVE  outcomes[t] = "pending" <=> heap[t] = "live" /\ signals[t] = <<>>
<1>1. signals[t] \in Seq(Outcome)
  BY InvParts DEF RInv, TypeOK
<1>2. signals[t] # <<>> => Last(signals[t]) \in Outcome
  <2>1. signals[t] # <<>> => Len(signals[t]) \in 1..Len(signals[t])
    BY <1>1
  <2> QED BY <1>1, <2>1, ElementOfSeq DEF Last
<1> QED BY <1>2 DEF outcomes, outcomeOf, Outcome

\* A step that signals nothing and leaves the DataStructs not heard of alone.
LEMMA OutcomesKept ==
  ASSUME UNCHANGED signals, \A t \in Transfer : signals[t] = <<>> => heap'[t] = heap[t]
  PROVE  outcomes' = outcomes
BY DEF outcomes, outcomeOf

\* A signal settles its transfer.
LEMMA SignalSettles ==
  ASSUME RInv, NEW t \in Live, t \in Pending \cup multi, NEW o \in Outcome, Emit(t, o),
         UNCHANGED <<heap, returned>>
  PROVE  Contract!Settle(t)
<1>1. t \in Transfer /\ signals[t] = <<>> /\ TypeOK
  BY InvParts DEF RInv, OneSignal, Live
<1>2. outcomes[t] = "pending"
  BY <1>1, ContractPending DEF Live
<1>3. signals'[t] # <<>> /\ Last(signals'[t]) = o
      /\ \A u \in Transfer \ {t} : signals'[u] = signals[u]
  BY <1>1, Heard DEF Last
<1>4. outcomes' = [outcomes EXCEPT ![t] = o]
  BY <1>1, <1>3 DEF outcomes, outcomeOf
<1>5. o \in {"complete", "failed", "aborted"}
  BY DEF Outcome
<1> QED BY <1>2, <1>4, <1>5 DEF Contract!Settle, outcomes

LEMMA ShutdownDrops ==
  ASSUME RInv, IOShutdown
  PROVE  Contract!Shutdown
<1> DEFINE freed == {m_files[k] : k \in Keys}
<1>1. FilesExact /\ TypeOK
  BY InvParts DEF RInv
<1>2. freed = Live
  <2>1. ASSUME NEW t \in Live PROVE t \in freed
    <3>1. t \in Transfer /\ m_files[Key(t)] = t /\ Key(t) \in Str
      BY <1>1, StrAssumption, RequestAssumption DEF FilesExact, Live, Key
    <3>2. Key(t) \in Keys
      BY <3>1, NoneAssumption DEF Keys
    <3> QED BY <3>1, <3>2
  <2> QED BY <1>1, <2>1 DEF FilesExact
<1>3. /\ heap' = [t \in Transfer |-> IF t \in Live THEN "deleted" ELSE heap[t]]
      /\ signals' = signals /\ returned' = returned
  BY <1>2 DEF IOShutdown, callVars
<1>4. ASSUME NEW t \in Transfer
      PROVE  outcomes'[t] = IF outcomes[t] = "pending" THEN "dropped" ELSE outcomes[t]
  <2>1. outcomes[t] = "pending" <=> heap[t] = "live" /\ signals[t] = <<>>
    BY ContractPending
  <2>2. outcomes'[t] = outcomeOf(t)' /\ outcomes[t] = outcomeOf(t)
    BY DEF outcomes
  <2>3. heap[t] \in {"fresh", "live", "deleted"}
    BY <1>1 DEF TypeOK
  <2> QED BY <1>3, <2>1, <2>2, <2>3 DEF outcomeOf, Live
<1>5. outcomes' = [t \in Transfer |-> IF outcomes[t] = "pending" THEN "dropped" ELSE outcomes[t]]
  BY <1>4 DEF outcomes
<1> QED BY <1>3, <1>5 DEF Contract!Shutdown, Contract!Pending, outcomes

\* A poll that returns 0 leaves nothing with curl, and, as the limit is not 0, nothing
\* waiting.
LEMMA PollTells ==
  ASSUME NoNestedPoll, RInv, PollReturn
  PROVE  Contract!StartPoll \/ Contract!PollReturnsZero
<1> USE DEF heapVars, fileVars
<1>1. TypeOK /\ Counted /\ HeardOf /\ m_num_to_process \in Nat \ {0}
  BY InvParts DEF RInv, TypeOK
<1> DEFINE num == Head(stack).num
<1>2. num \in Nat /\ stack # <<>> /\ Head(stack).op = "poll" /\ Head(stack) = stack[1]
      /\ 1 \in DOMAIN stack
  BY <1>1, TopFrame DEF PollReturn, At, Idle
<1>3. Len(stack) = 1
  BY <1>1, <1>2 DEF Counted
<1>4. returned' = num + Refill(num) /\ multi \subseteq multi'
  BY <1>3 DEF PollReturn, Returned
<1>5. Refill(num) \in Nat
  BY <1>1, <1>2, RefillBounds
<1>6. outcomes' = outcomes
  BY OutcomesKept DEF PollReturn
<1>7. CASE returned' # 0
  <2>1. (returned = 0)' = FALSE
    BY <1>7
  <2> QED BY <1>6, <2>1 DEF Contract!StartPoll, outcomes
<1>8. CASE returned' = 0
  <2>1. num = 0 /\ Refill(0) = 0
    BY <1>2, <1>4, <1>5, <1>8
  <2>2. multi = {}
    BY <1>1, <1>4, <2>1, RefillRunning
  <2>3. Len(m_handles) = 0 /\ m_handles \in Seq(Transfer)
    <3>1. Len(m_handles) \in Nat /\ m_handles \in Seq(Transfer)
      BY <1>1, RefillBounds DEF TypeOK
    <3>2. Spare(0) = m_num_to_process
      BY <1>1 DEF Spare
    <3> QED BY <1>1, <2>1, <3>1, <3>2 DEF Refill
  <2>4. Pending = {}
    BY <2>3, LenProperties DEF Pending
  <2>5. ASSUME NEW t \in Transfer, outcomes[t] = "pending" PROVE FALSE
    BY <1>1, <2>2, <2>4, <2>5, ContractPending DEF HeardOf, Live
  <2>6. (returned = 0)' = TRUE
    BY <1>8
  <2>7. Contract!Pending = {}
    BY <2>5 DEF Contract!Pending, outcomes
  <2> QED BY <1>6, <2>6, <2>7 DEF Contract!PollReturnsZero, outcomes
<1> QED BY <1>7, <1>8

\* abortAll in its loop is the only call: no handler is running.
LEMMA AbortAllAlone ==
  ASSUME IInv, At("abortAll", "loop")
  PROVE  Signalling = {}
<1>1. /\ Head(stack) = stack[1] /\ 1 \in DOMAIN stack
      /\ Head(stack).op = "abortAll" /\ Head(stack).at = "loop"
  BY InvStack, TopFrame DEF At
<1>2. Len(stack) = 1
  BY <1>1, InvStack DEF AbortAllOutermost
<1>3. \A i \in DOMAIN stack : i = 1
  BY <1>2, InvStack, LenProperties
<1> QED BY <1>1, <1>3 DEF Signalling

\* Every step of the queue is a step of the contract, or none.
LEMMA ContractStep ==
  ASSUME Client, NoNestedPoll, RInv, [Next]_vars
  PROVE  [Contract!Next]_(Contract!vars)
<1> USE DEF ioVars, heapVars, curlVars, fileVars, callVars
<1>1. IInv /\ HeardOf /\ TypeOK /\ OnePlace /\ FilesExact
  BY InvParts DEF RInv
<1>2. CASE UNCHANGED <<signals, returned>> /\ outcomes' = outcomes
  BY <1>2 DEF Contract!vars, outcomes
<1>3. CASE UNCHANGED <<heap, signals, returned>>
  BY <1>2, <1>3, OutcomesKept
<1>4. CASE IOShutdown
  BY <1>4, ShutdownDrops DEF RInv, Contract!Next
<1>5. ASSUME NEW r \in Request, QueueFile(r) PROVE Contract!Next
  <2>1. PICK t \in Transfer : heap[t] = "fresh" /\ heap' = [heap EXCEPT ![t] = "live"]
    BY <1>5 DEF QueueFile
  <2>2. signals[t] = <<>> /\ UNCHANGED <<signals, returned>>
    BY <1>5, <2>1, InvParts DEF QueueFile, RInv, OneSignal
  <2>3. outcomes[t] = "none" /\ outcomes' = [outcomes EXCEPT ![t] = "pending"]
    BY <1>1, <2>1, <2>2 DEF outcomes, outcomeOf, TypeOK
  <2> QED BY <2>2, <2>3 DEF Contract!Next, Contract!Queue, outcomes
<1>6. ASSUME NEW finished \in SUBSET Running, Poll(finished) PROVE Contract!Next
  <2>1. returned' = NotReturned
    BY <1>6 DEF Poll, CanNest, CanCall, NoNestedPoll
  <2>2. outcomes' = outcomes
    BY <1>6, OutcomesKept DEF Poll
  <2>3. (returned = 0)' = FALSE
    BY <2>1 DEF NotReturned
  <2> QED BY <2>2, <2>3 DEF Contract!Next, Contract!StartPoll, outcomes
<1>7. ASSUME NEW t \in Transfer, PollMessage(t) PROVE Contract!Next
  <2>1. (Emit(t, "complete") \/ Emit(t, "failed")) /\ t \in multi /\ t \in Live
    BY <1>1, <1>7 DEF PollMessage, Finished, OnePlace
  <2>2. UNCHANGED <<heap, returned>>
    BY <1>7 DEF PollMessage
  <2> QED BY <2>1, <2>2, SignalSettles DEF Contract!Next, Outcome
<1>8. CASE PollReturn
  BY <1>8, PollTells DEF Contract!Next
<1>9. ASSUME NEW filename \in Str, AbortDownload(filename) PROVE Contract!Next
  <2> DEFINE t == m_files[filename]
  <2>1. t \in Live /\ t \notin Signalling /\ AbortTransfer(t)
    <3>1. t \in Transfer /\ heap[t] = "live" /\ CanNest(AbortOp(t)) /\ AbortTransfer(t)
      BY <1>1, <1>9 DEF AbortDownload, TypeOK
    <3>2. t \notin Signalling
      <4>1. SUFFICES ASSUME t \in Signalling PROVE FALSE
        OBVIOUS
      <4>2. AbortOp(t) = "abortSignalled" /\ "abortSignalled" \notin HandlerOps
        BY <4>1 DEF AbortOp, Client, DisciplinedHandlers
      <4>3. Idle
        BY <3>1, <4>2 DEF CanNest, CanCall
      <4> QED BY <4>1, <4>3, EmptySeq DEF Idle, Signalling
    <3> QED BY <3>1, <3>2 DEF Live
  <2>2. UNCHANGED <<heap, returned>>
    BY <1>9 DEF AbortDownload
  <2> HIDE DEF t
  <2>3. t \in Pending \cup multi /\ Emit(t, "aborted")
    BY <1>1, <2>1 DEF OnePlace, AbortTransfer
  <2> QED BY <2>1, <2>2, <2>3, SignalSettles, InvParts DEF Contract!Next, Outcome, Live
<1>10. CASE AbortAllNext
  <2>1. PICK first \in Keys :
          /\ IsFirst(first) /\ heap[m_files[first]] = "live" /\ AbortTransfer(m_files[first])
    BY <1>10 DEF AbortAllNext
  <2> DEFINE t == m_files[first]
  <2>2. t \in Live /\ t \in Transfer
    BY <1>1, <2>1 DEF FilesExact, Live
  <2>3. t \notin Signalling
    BY <1>1, <1>10, AbortAllAlone DEF AbortAllNext
  <2>4. UNCHANGED <<heap, returned>>
    BY <1>10 DEF AbortAllNext
  <2> HIDE DEF t
  <2>5. t \in Pending \cup multi /\ Emit(t, "aborted")
    BY <1>1, <2>1, <2>2, <2>3 DEF OnePlace, AbortTransfer, t
  <2> QED BY <2>2, <2>4, <2>5, SignalSettles DEF Contract!Next, Outcome
<1>11. CASE PollForget \/ AbortDownloadReturn \/ AbortAllForget
  <2>1. PICK op : At(op, "signal") /\ UNCHANGED <<signals, returned>>
                  /\ heap' = [heap EXCEPT ![Head(stack).t] = "deleted"]
    BY <1>11 DEF PollForget, AbortDownloadReturn, AbortAllForget
  <2>2. Head(stack).t \in Transfer /\ signals[Head(stack).t] # <<>>
    BY <1>1, <2>1, ForgetsHeard
  <2> QED BY <1>1, <1>2, <2>1, <2>2, OutcomesKept DEF TypeOK
<1>12. CASE \/ IOInit
            \/ \E n \in Limits : SetMaxDownloads(n)
            \/ AbortAll
            \/ AbortAllReturn
            \/ Misuse
            \/ UNCHANGED vars
  BY <1>3, <1>12 DEF IOInit, SetMaxDownloads, AbortAll, AbortAllReturn, Misuse,
                     Undefined, vars
<1> QED BY <1>4, <1>5, <1>6, <1>7, <1>8, <1>9, <1>10, <1>11, <1>12
        DEF Next, Calls, Steps

LEMMA ContractInit == Init => Contract!Init
<1> SUFFICES ASSUME Init PROVE Contract!Init
  OBVIOUS
<1>1. outcomes = [t \in Transfer |-> "none"]
  BY DEF Init, outcomes, outcomeOf
<1>2. (returned = 0) = FALSE
  BY DEF Init, NotReturned
<1> QED BY <1>1, <1>2 DEF Contract!Init, outcomes

\* For an application with disciplined handlers that do not poll and limits that are
\* never 0, the queue implements DownloadContract: each file queued is settled by one
\* signal and no other, dropped by shutdown only, and poll returns 0 only when no file
\* is left.
THEOREM ContractKept ==
  ASSUME Client, NoNestedPoll, PositiveLimits
  PROVE  Spec => ImplementsContract
<1>1. Init => RInv /\ Contract!Init
  BY RInvInit, ContractInit
<1>2. RInv /\ [Next]_vars => RInv' /\ [Contract!Next]_(Contract!vars)
  BY RInvNext, ContractStep
<1> QED BY <1>1, <1>2, PTL DEF Spec, ImplementsContract, Contract!Spec

-----------------------------------------------------------------------------
(* Whatever the urls, the limits and the handlers are: what still holds    *)
(* when handlers abort the transfer they were called for, or all, or queue *)
(* files meanwhile, up to the step that is undefined in C++.               *)

\* A DataStruct not yet allocated is nowhere; what curl holds, and what waits with
\* its easy handle, has had no signal.
Unheard ==
  /\ multi \subseteq easy /\ Pending \cap multi = {}
  /\ \A t \in Transfer :
       heap[t] = "fresh" => /\ t \notin easy /\ t \notin Pending
                            /\ signals[t] = <<>> /\ target[t] = NotSaved
  /\ \A t \in multi \cup (Pending \cap easy) : signals[t] = <<>>

HandlersHeard ==
  \A i \in DOMAIN stack :
    stack[i].at = "signal" => stack[i].t \in Transfer /\ signals[stack[i].t] # <<>>

HInv ==
  TypeOK /\ HandlesDistinct /\ Unheard /\ HandlersHeard /\ TargetSettled /\ AbortIsFinal

\* The frames after a call begins, moves on or returns are the frames before, but the top.
LEMMA FramesAfter ==
  ASSUME TypeOK, NEW f \in Frame,
         \/ Push(f)
         \/ stack # <<>> /\ stack' = <<f>> \o Tail(stack)
         \/ stack # <<>> /\ stack' = Tail(stack)
  PROVE  \A i \in DOMAIN stack' : stack'[i] = f \/ \E j \in DOMAIN stack : stack'[i] = stack[j]
<1> DEFINE n == Len(stack)
<1>1. stack \in Seq(Frame) /\ n \in Nat /\ DOMAIN stack = 1..n
  BY StackFrames
<1>2. CASE Push(f)
  <2>1. /\ DOMAIN stack' = 1..(n + 1) /\ stack'[1] = f
        /\ \A i \in 2..(n + 1) : stack'[i] = stack[i - 1]
    BY <1>1, <1>2, PushElements, LenProperties DEF Push
  <2> HIDE DEF n
  <2>2. \A i \in 1..(n + 1) : i = 1 \/ (i \in 2..(n + 1) /\ i - 1 \in 1..n)
    BY <1>1
  <2> QED BY <1>1, <2>1, <2>2
<1>3. CASE stack # <<>> /\ stack' = <<f>> \o Tail(stack)
  <2>1. /\ DOMAIN stack' = 1..n /\ stack'[1] = f
        /\ \A i \in 2..n : stack'[i] = stack[i]
    <3>1. stack # <<>> /\ stack \in Seq(Frame) /\ stack' = <<f>> \o Tail(stack)
      BY <1>1, <1>3
    <3> QED BY <3>1, TopElements, LenProperties
  <2> HIDE DEF n
  <2>2. \A i \in 1..n : i = 1 \/ i \in 2..n
    BY <1>1
  <2> QED BY <1>1, <2>1, <2>2
<1>4. CASE stack # <<>> /\ stack' = Tail(stack)
  <2>1. n \in Nat \ {0} /\ DOMAIN stack' = 1..(n - 1)
        /\ \A i \in 1..(n - 1) : stack'[i] = stack[i + 1]
    BY <1>1, <1>4, PopElements, LenProperties
  <2> HIDE DEF n
  <2>2. \A i \in 1..(n - 1) : i + 1 \in 1..n
    BY <2>1
  <2> QED BY <1>1, <2>1, <2>2
<1> QED BY <1>2, <1>3, <1>4

LEMMA HandlersHeardKept ==
  ASSUME TypeOK, HandlersHeard, \A t \in Transfer : signals[t] # <<>> => signals'[t] # <<>>,
         \/ stack' = stack
         \/ \E f \in Frame :
              /\ f.at = "signal" => f.t \in Transfer /\ signals'[f.t] # <<>>
              /\ \/ Push(f)
                 \/ stack # <<>> /\ stack' = <<f>> \o Tail(stack)
                 \/ stack # <<>> /\ stack' = Tail(stack)
  PROVE  HandlersHeard'
<1>1. CASE stack' = stack
  BY <1>1 DEF HandlersHeard
<1>2. ASSUME NEW f \in Frame,
             f.at = "signal" => f.t \in Transfer /\ signals'[f.t] # <<>>,
             \/ Push(f)
             \/ stack # <<>> /\ stack' = <<f>> \o Tail(stack)
             \/ stack # <<>> /\ stack' = Tail(stack)
      PROVE  HandlersHeard'
  <2>1. \A i \in DOMAIN stack' : stack'[i] = f \/ \E j \in DOMAIN stack : stack'[i] = stack[j]
    BY <1>2, FramesAfter
  <2> QED BY <1>2, <2>1 DEF HandlersHeard
<1> QED BY <1>1, <1>2

\* A step that signals nothing and writes no target: histories and targets say what
\* they said.
LEMMA HistoryKept ==
  ASSUME TargetSettled, AbortIsFinal, UNCHANGED <<signals, target, request>>
  PROVE  TargetSettled' /\ AbortIsFinal'
BY DEF TargetSettled, Completed, AbortIsFinal

\* An abort ends what can be said of its transfer, even of one that was settled.
LEMMA AbortHistory ==
  ASSUME TypeOK, TargetSettled, AbortIsFinal, NEW t \in Transfer, Emit(t, "aborted"),
         UNCHANGED <<target, request>>
  PROVE  TargetSettled' /\ AbortIsFinal' /\ signals'[t] # <<>>
         /\ \A u \in Transfer \ {t} : signals'[u] = signals[u]
<1> DEFINE s == signals[t]
<1>1. /\ s \in Seq(Outcome) /\ signals'[t] = Append(s, "aborted") /\ "aborted" \in Outcome
      /\ \A u \in Transfer \ {t} : signals'[u] = signals[u]
  BY DEF TypeOK, Emit, Outcome
<1> HIDE DEF s
<1>2. /\ Len(s) \in Nat /\ DOMAIN s = 1..Len(s) /\ DOMAIN signals'[t] = 1..(Len(s) + 1)
      /\ \A i \in 1..Len(s) : signals'[t][i] = s[i]
      /\ signals'[t][Len(s) + 1] = "aborted"
      /\ signals'[t] # <<>>
      /\ Head(signals'[t]) = IF s = <<>> THEN "aborted" ELSE Head(s)
  BY <1>1
<1>3. AbortIsFinal'
  <2>1. ASSUME NEW i \in 1..(Len(s) + 1), NEW j \in 1..(Len(s) + 1), i < j,
               signals'[t][i] = "aborted"
        PROVE  signals'[t][j] = "aborted"
    <3>1. CASE j = Len(s) + 1
      BY <1>2, <3>1
    <3>2. CASE j # Len(s) + 1
      <4>1. i \in 1..Len(s) /\ j \in 1..Len(s)
        BY <1>2, <2>1, <3>2
      <4> QED BY <1>2, <2>1, <4>1 DEF AbortIsFinal, s
    <3> QED BY <3>1, <3>2
  <2> QED BY <1>1, <1>2, <2>1 DEF AbortIsFinal
<1>4. TargetSettled'
  BY <1>1, <1>2 DEF TargetSettled, Completed, s
<1> QED BY <1>1, <1>2, <1>3, <1>4

LEMMA AbortKeepsHInv ==
  ASSUME HInv, TypeOK', NEW t \in Transfer, heap[t] = "live", AbortTransfer(t),
         UNCHANGED <<heap, target, request>>,
         NEW f \in Frame, f.t = t,
         Push(f) \/ (stack # <<>> /\ stack' = <<f>> \o Tail(stack))
  PROVE  HInv'
<1>1. TypeOK /\ HandlesDistinct /\ Unheard /\ HandlersHeard /\ TargetSettled /\ AbortIsFinal
      /\ m_handles \in Seq(Transfer)
  BY DEF HInv, TypeOK
<1>2. /\ TargetSettled' /\ AbortIsFinal' /\ signals'[t] # <<>>
      /\ \A u \in Transfer \ {t} : signals'[u] = signals[u]
  BY <1>1, AbortHistory DEF AbortTransfer
<1>3. HandlersHeard'
  BY <1>1, <1>2, HandlersHeardKept
<1>4. HandlesDistinct' /\ Unheard'
  <2>1. CASE t \in easy /\ DropHandle(t) /\ easy' = easy \ {t}
    <3>1. /\ HandlesDistinct'
          /\ \/ t \in Pending /\ Pending' = Pending \ {t} /\ multi' = multi
             \/ t \notin Pending /\ Pending' = Pending /\ multi' = multi \ {t}
      BY <1>1, <2>1, DropHandleEffect
    <3>2. multi \subseteq Transfer /\ Pending \subseteq Transfer /\ t \notin multi'
      BY <1>1, <3>1, LenProperties, ElementOfSeq DEF TypeOK, Unheard, Pending
    <3> QED BY <1>1, <1>2, <2>1, <3>1, <3>2 DEF Unheard
  <2>2. CASE t \notin easy /\ UNCHANGED <<m_handles, easy, multi, result>>
    <3>1. Pending' = Pending /\ HandlesDistinct' /\ t \notin multi
      BY <1>1, <2>2 DEF Pending, HandlesDistinct, Unheard
    <3>2. multi \subseteq Transfer /\ Pending \subseteq Transfer
      BY <1>1, LenProperties, ElementOfSeq DEF TypeOK, Pending
    <3> QED BY <1>1, <1>2, <2>2, <3>1, <3>2 DEF Unheard
  <2> QED BY <2>1, <2>2 DEF AbortTransfer
<1> QED BY <1>2, <1>3, <1>4 DEF HInv

\* A message settles a transfer nothing was said of.
LEMMA MessageKeepsHInv ==
  ASSUME HInv, TypeOK', NEW t \in Transfer, PollMessage(t)
  PROVE  HInv'
<1> USE DEF ioVars, heapVars, fileVars
<1>1. TypeOK /\ HandlesDistinct /\ Unheard /\ HandlersHeard /\ TargetSettled /\ AbortIsFinal
  BY DEF HInv
<1>2. /\ t \in multi /\ multi' = multi \ {t} /\ signals[t] = <<>> /\ heap[t] # "fresh"
      /\ UNCHANGED <<m_handles, heap, request, easy>>
  BY <1>1 DEF PollMessage, Finished, Unheard
<1>3. PICK outcome \in {"complete", "failed"} :
        /\ Emit(t, outcome)
        /\ outcome = "complete" => Verified(t) /\ CopyFile(t)
        /\ outcome = "failed" => UNCHANGED target
  BY DEF PollMessage
<1>4. /\ signals'[t] = <<outcome>> /\ signals'[t] # <<>>
      /\ \A u \in Transfer \ {t} : signals'[u] = signals[u]
  BY <1>1, <1>2, <1>3 DEF Emit, TypeOK, Outcome
<1>5. HandlersHeard'
  <2> DEFINE f == Signal("poll", t, Head(stack).num)
  <2>1. stack # <<>> /\ Head(stack).num \in Nat
    BY <1>1, TopFrame DEF PollMessage
  <2>2. f \in Frame /\ f.t = t /\ stack' = <<f>> \o Tail(stack)
    BY <2>1, FrameTypes DEF PollMessage, Signal
  <2> QED BY <1>1, <1>4, <2>1, <2>2, HandlersHeardKept
<1>6. HandlesDistinct' /\ Pending' = Pending
  BY <1>1, <1>2 DEF HandlesDistinct, Pending
<1>7. \A u \in Transfer \ {t} : target'[u] = target[u]
  BY <1>1, <1>3 DEF CopyFile, TypeOK
<1>8. Unheard'
  <2>1. multi \subseteq Transfer /\ Pending \subseteq Transfer /\ t \notin Pending
    BY <1>1, <1>2, LenProperties, ElementOfSeq DEF TypeOK, Unheard, Pending
  <2> QED BY <1>1, <1>2, <1>4, <1>6, <1>7, <2>1 DEF Unheard
<1>9. AbortIsFinal'
  <2>1. \A i, j \in DOMAIN signals'[t] : ~(i < j)
    BY <1>4
  <2> QED BY <1>1, <1>4, <2>1 DEF AbortIsFinal
<1>10. TargetSettled'
  <2>1. target'[t] \in Crc => request[t].expected \in {0, target'[t]}
    BY <1>1, <1>3, CrcAssumption DEF CopyFile, Verified, TypeOK, NotSaved, Truncated,
       TargetSettled, Completed
  <2>2. target[t] = NotSaved
    BY <1>1, <1>2 DEF TargetSettled, Completed
  <2>3. target'[t] # NotSaved <=> outcome = "complete"
    BY <1>1, <1>3, <2>2, CrcAssumption DEF CopyFile, Verified, TypeOK, NotSaved, Truncated
  <2>4. Completed(t)' <=> outcome = "complete"
    BY <1>4 DEF Completed
  <2> QED BY <1>1, <1>2, <1>4, <1>7, <2>1, <2>3, <2>4 DEF TargetSettled, Completed
<1> QED BY <1>1, <1>5, <1>6, <1>8, <1>9, <1>10 DEF HInv

LEMMA HInvNext ==
  ASSUME HInv, [Next]_vars
  PROVE  HInv'
<1> USE DEF ioVars, heapVars, curlVars, fileVars, callVars
<1>1. TypeOK /\ HandlesDistinct /\ Unheard /\ HandlersHeard /\ TargetSettled /\ AbortIsFinal
      /\ TypeOK' /\ m_handles \in Seq(Transfer)
  BY TypeStep DEF HInv, TypeOK
\* Most steps leave what waits, what curl holds and the histories alone.
<1>2. ASSUME UNCHANGED <<m_handles, heap, multi, easy, target, request, signals>>,
             \/ stack' = stack
             \/ \E f \in Frame : f.at = "loop" /\
                  \/ Push(f)
                  \/ stack # <<>> /\ stack' = <<f>> \o Tail(stack)
                  \/ stack # <<>> /\ stack' = Tail(stack)
      PROVE  HInv'
  <2>1. HandlersHeard'
    BY <1>1, <1>2, HandlersHeardKept
  <2>2. HandlesDistinct' /\ Unheard'
    BY <1>1, <1>2 DEF HandlesDistinct, Unheard, Pending
  <2> QED BY <1>1, <1>2, <2>1, <2>2, HistoryKept DEF HInv
<1>3. CASE IOShutdown
  <2>1. stack' = stack /\ HandlersHeard'
    BY <1>1, <1>3, HandlersHeardKept DEF IOShutdown
  <2>2. HandlesDistinct' /\ Pending' \subseteq Pending
    BY <1>1, <1>3, EmptySeq DEF IOShutdown, HandlesDistinct, Pending
  <2>3. \A t \in Transfer : heap'[t] = "fresh" => heap[t] = "fresh"
    BY <1>3 DEF IOShutdown
  <2>4. multi' = {} /\ easy' \subseteq easy /\ UNCHANGED <<signals, target, request>>
    BY <1>3 DEF IOShutdown
  <2>5. Unheard'
    BY <1>1, <2>2, <2>3, <2>4 DEF Unheard
  <2> QED BY <1>1, <2>1, <2>2, <2>4, <2>5, HistoryKept DEF HInv
<1>4. ASSUME NEW r \in Request, QueueFile(r) PROVE HInv'
  <2>1. PICK t \in Transfer :
          /\ heap[t] = "fresh" /\ heap' = [heap EXCEPT ![t] = "live"]
          /\ request' = [request EXCEPT ![t] = r] /\ easy' = easy \cup {t}
          /\ m_handles' = Append(m_handles, t)
    BY <1>4 DEF QueueFile
  <2>2. UNCHANGED <<multi, signals, target, stack>>
    BY <1>4 DEF QueueFile
  <2>3. t \notin Pending /\ t \notin easy /\ signals[t] = <<>> /\ target[t] = NotSaved
    BY <1>1, <2>1 DEF Unheard
  <2>4. HandlesDistinct' /\ Pending' = Pending \cup {t}
    BY <1>1, <2>1, <2>3, AppendEffect
  <2>5. Unheard'
    BY <1>1, <2>1, <2>2, <2>3, <2>4 DEF Unheard, TypeOK
  <2>6. TargetSettled'
    BY <1>1, <2>1, <2>2, <2>3, CrcAssumption DEF TargetSettled, Completed, TypeOK, NotSaved
  <2>7. AbortIsFinal' /\ HandlersHeard'
    BY <1>1, <2>2 DEF AbortIsFinal, HandlersHeard
  <2> QED BY <1>1, <2>4, <2>5, <2>6, <2>7 DEF HInv
<1>5. ASSUME NEW finished \in SUBSET Running, Poll(finished) PROVE HInv'
  <2>1. Loop("poll", Cardinality(Running \ finished)) \in Frame
    <3>1. Cardinality(Running \ finished) \in Nat
      BY <1>1, RunningFinite, FS_Subset, FS_CardinalityType
    <3> QED BY <3>1, FrameTypes
  <2> QED BY <1>2, <1>5, <2>1 DEF Poll, Loop
<1>6. ASSUME NEW filename \in Str, AbortDownload(filename) PROVE HInv'
  <2> DEFINE t == m_files[filename]
             f == Signal("abortDownload", t, 0)
  <2>1. t \in Transfer /\ heap[t] = "live" /\ AbortTransfer(t) /\ Push(f)
        /\ UNCHANGED <<heap, target, request>>
    BY <1>1, <1>6 DEF AbortDownload, TypeOK
  <2>2. f \in Frame /\ f.t = t
    BY <2>1, FrameTypes DEF Signal
  <2> HIDE DEF t, f
  <2> QED BY <1>1, <2>1, <2>2, AbortKeepsHInv
<1>7. CASE AbortAllNext
  <2>1. PICK first \in Keys :
          /\ heap[m_files[first]] = "live" /\ AbortTransfer(m_files[first])
          /\ stack' = <<Signal("abortAll", m_files[first], 0)>> \o Tail(stack)
    BY <1>7 DEF AbortAllNext
  <2> DEFINE t == m_files[first]
             f == Signal("abortAll", t, 0)
  <2>2. t \in Transfer /\ heap[t] = "live" /\ AbortTransfer(t)
        /\ stack # <<>> /\ stack' = <<f>> \o Tail(stack)
        /\ UNCHANGED <<heap, target, request>>
    BY <1>1, <1>7, <2>1 DEF AbortAllNext, At, Idle, Keys, TypeOK
  <2>3. f \in Frame /\ f.t = t
    BY <2>2, FrameTypes DEF Signal
  <2> HIDE DEF t, f
  <2> QED BY <1>1, <2>2, <2>3, AbortKeepsHInv
<1>8. CASE \E t \in Transfer : PollMessage(t)
  BY <1>1, <1>8, MessageKeepsHInv
<1>9. CASE PollForget \/ AbortDownloadReturn \/ AbortAllForget
  <2> DEFINE t == Head(stack).t
  <2>1. /\ UNCHANGED <<m_handles, multi, signals, target, request>>
        /\ heap' = [heap EXCEPT ![t] = "deleted"]
        /\ easy' = easy \/ easy' = easy \ {t}
        /\ InHandler
    BY <1>9 DEF PollForget, AbortDownloadReturn, AbortAllForget, InHandler, At
  <2>2. signals[t] # <<>>
    <3>1. stack # <<>> /\ stack \in Seq(Frame)
      BY <1>1, <2>1 DEF InHandler, Idle, TypeOK
    <3>2. 1 \in DOMAIN stack /\ Head(stack) = stack[1]
      BY <3>1, PopElements, LenProperties
    <3> QED BY <1>1, <2>1, <3>2 DEF HandlersHeard, InHandler
  <2>3. \E f \in Frame : f.at = "loop" /\
          \/ Push(f)
          \/ stack # <<>> /\ stack' = <<f>> \o Tail(stack)
          \/ stack # <<>> /\ stack' = Tail(stack)
    <3>1. CASE PollForget
      <4>1. Loop("poll", Head(stack).num) \in Frame
        BY <1>1, <3>1, TopFrame, FrameTypes DEF PollForget
      <4> QED BY <3>1, <4>1 DEF PollForget, Loop, At, Idle
    <3>2. CASE AbortDownloadReturn
      <4>1. Loop("abortAll", 0) \in Frame
        BY FrameTypes
      <4> QED BY <3>2, <4>1 DEF AbortDownloadReturn, Loop, At, Idle
    <3>3. CASE AbortAllForget
      <4>1. Loop("abortAll", 0) \in Frame
        BY FrameTypes
      <4> QED BY <3>3, <4>1 DEF AbortAllForget, Loop, At, Idle
    <3> QED BY <1>9, <3>1, <3>2, <3>3
  <2> HIDE DEF t
  <2>4. HandlersHeard'
    BY <1>1, <2>1, <2>3, HandlersHeardKept
  <2>5. Pending' = Pending /\ HandlesDistinct'
    BY <1>1, <2>1 DEF Pending, HandlesDistinct
  <2>6. Unheard'
    BY <1>1, <2>1, <2>2, <2>5 DEF Unheard, TypeOK
  <2> QED BY <1>1, <2>1, <2>4, <2>5, <2>6, HistoryKept DEF HInv
<1>10. CASE PollReturn
  <2> DEFINE num == Head(stack).num
  <2>1. num \in Nat /\ stack # <<>> /\ stack' = Tail(stack)
    BY <1>1, <1>10, TopFrame DEF PollReturn
  <2>2. /\ HandlesDistinct' /\ Pending' = Pending \ Added(num) /\ Added(num) \subseteq Pending
        /\ multi' = multi \cup Added(num) /\ Added(num) \subseteq easy
        /\ UNCHANGED <<heap, easy, signals, target, request>>
    BY <1>1, <1>10, <2>1, RefillEffect DEF PollReturn
  <2> HIDE DEF num
  <2>3. HandlersHeard'
    <3>1. Loop("abortAll", 0) \in Frame /\ Loop("abortAll", 0).at = "loop"
      BY FrameTypes DEF Loop
    <3> QED BY <1>1, <2>1, <2>2, <3>1, HandlersHeardKept
  <2>4. Unheard'
    BY <1>1, <2>2 DEF Unheard
  <2> QED BY <1>1, <2>2, <2>3, <2>4, HistoryKept DEF HInv
<1>11. CASE AbortAll \/ AbortAllReturn
  <2>1. Loop("abortAll", 0) \in Frame /\ Loop("abortAll", 0).at = "loop"
    BY FrameTypes DEF Loop
  <2> QED BY <1>2, <1>11, <2>1 DEF AbortAll, AbortAllReturn, At, Idle
<1>12. CASE IOInit \/ (\E n \in Limits : SetMaxDownloads(n)) \/ Misuse \/ UNCHANGED vars
  BY <1>2, <1>12 DEF IOInit, SetMaxDownloads, Misuse, Undefined, vars
<1> QED BY <1>3, <1>4, <1>5, <1>6, <1>7, <1>8, <1>9, <1>10, <1>11, <1>12
        DEF Next, Calls, Steps

LEMMA HInvInit == Init => HInv
<1> SUFFICES ASSUME Init PROVE HInv
  OBVIOUS
<1>1. IInv
  BY InvInit
<1>2. TypeOK /\ HandlesDistinct /\ TargetSettled
  BY <1>1, InvParts DEF IInv
<1>3. Unheard
  BY EmptySeq DEF Init, Unheard, Pending
<1>4. HandlersHeard /\ AbortIsFinal
  BY EmptySeq DEF Init, HandlersHeard, AbortIsFinal
<1> QED BY <1>2, <1>3, <1>4 DEF HInv

LEMMA HandlersInv == Spec => []HInv
BY HInvInit, HInvNext, PTL DEF Spec

\* Whatever the urls, the limits and the handlers are, a target that has a whole body has
\* one with the crc32 asked for, reported complete, and none is reported complete without
\* a write to its target.
THEOREM TargetsVerified == Spec => []TargetVerified
<1>1. HInv => TargetVerified
  BY SettledIsVerified DEF HInv
<1> QED BY <1>1, HandlersInv, PTL

\* Whatever they are, what is said of a transfer after an abort is never that it ended.
THEOREM AbortsAreFinal == Spec => []AbortIsFinal
<1>1. HInv => AbortIsFinal
  BY DEF HInv
<1> QED BY <1>1, HandlersInv, PTL

====
