------------------------- MODULE DownloadQueueProofs -------------------------
(***************************************************************************)
(* Theorems about DownloadQueue, for every value of its constants.         *)
(***************************************************************************)
EXTENDS DownloadQueue, SequenceTheorems, FiniteSetTheorems, TLAPS

-----------------------------------------------------------------------------
(* Sequences: the pending deque and the stack of calls.                    *)

\* Taking the handle at position i out of m_handles keeps the others, in order.
LEMMA RemoveAtElements ==
  ASSUME NEW S, NEW s \in Seq(S), NEW i \in DOMAIN s
  PROVE  /\ RemoveAt(s, i) \in Seq(S)
         /\ Len(RemoveAt(s, i)) = Len(s) - 1
         /\ \A j \in 1..(Len(s) - 1) :
              RemoveAt(s, i)[j] = IF j < i THEN s[j] ELSE s[j + 1]
<1> DEFINE a == SubSeq(s, 1, i - 1)
           b == SubSeq(s, i + 1, Len(s))
<1>1. Len(s) \in Nat /\ i \in 1..Len(s)
  BY LenProperties
<1>2. a \in Seq(S) /\ Len(a) = i - 1 /\ \A j \in 1..(i - 1) : a[j] = s[j]
  BY <1>1
<1>3. b \in Seq(S) /\ Len(b) = Len(s) - i /\ \A j \in 1..(Len(s) - i) : b[j] = s[i + j]
  BY <1>1
<1> HIDE DEF a, b
<1>4. /\ a \o b \in Seq(S)
      /\ Len(a \o b) = Len(s) - 1
      /\ \A j \in 1..(Len(s) - 1) : (a \o b)[j] = IF j < i THEN s[j] ELSE s[j + 1]
  <2>1. \A j \in 1..(Len(s) - 1) : j < i => (a \o b)[j] = s[j]
    BY <1>1, <1>2, <1>3
  <2>2. ASSUME NEW j \in 1..(Len(s) - 1), ~(j < i)
        PROVE  (a \o b)[j] = s[j + 1]
    <3>1. (a \o b)[j] = b[j - (i - 1)]
      BY <1>1, <1>2, <1>3, <2>2
    <3>2. j - (i - 1) \in 1..(Len(s) - i) /\ i + (j - (i - 1)) = j + 1
      BY <1>1, <2>2
    <3> QED BY <1>3, <3>1, <3>2
  <2> QED BY <1>1, <1>2, <1>3, <2>1, <2>2
<1> QED BY <1>4 DEF RemoveAt, a, b

\* A call begins: its frame is the new top, and the others keep their order.
LEMMA PushElements ==
  ASSUME NEW S, NEW s \in Seq(S), NEW f \in S
  PROVE  /\ <<f>> \o s \in Seq(S)
         /\ <<f>> \o s # <<>>
         /\ Len(<<f>> \o s) = Len(s) + 1
         /\ (<<f>> \o s)[1] = f
         /\ \A i \in 2..(Len(s) + 1) : (<<f>> \o s)[i] = s[i - 1]
  OBVIOUS

\* The innermost call goes from its loop to a signal or back.
LEMMA TopElements ==
  ASSUME NEW S, NEW s \in Seq(S), NEW f \in S, s # <<>>
  PROVE  /\ <<f>> \o Tail(s) \in Seq(S)
         /\ <<f>> \o Tail(s) # <<>>
         /\ Len(<<f>> \o Tail(s)) = Len(s)
         /\ (<<f>> \o Tail(s))[1] = f
         /\ \A i \in 2..Len(s) : (<<f>> \o Tail(s))[i] = s[i]
<1>1. /\ Tail(s) \in Seq(S) /\ Len(Tail(s)) = Len(s) - 1 /\ Len(s) \in Nat \ {0}
      /\ \A i \in 1..(Len(s) - 1) : Tail(s)[i] = s[i + 1]
  BY HeadTailProperties, LenProperties, EmptySeq
<1> DEFINE u == Tail(s)
<1> HIDE DEF u
<1>2. /\ u \in Seq(S) /\ Len(u) = Len(s) - 1
      /\ \A i \in 1..(Len(s) - 1) : u[i] = s[i + 1]
  BY <1>1 DEF u
<1>3. u \in Seq(S)
  BY <1>2
<1>4. /\ <<f>> \o u \in Seq(S)
      /\ <<f>> \o u # <<>>
      /\ Len(<<f>> \o u) = Len(u) + 1
      /\ (<<f>> \o u)[1] = f
      /\ \A i \in 2..(Len(u) + 1) : (<<f>> \o u)[i] = u[i - 1]
  BY <1>3, PushElements
<1>5. Len(u) + 1 = Len(s) /\ \A i \in 2..Len(s) : u[i - 1] = s[i]
  BY <1>1, <1>2
<1> QED BY <1>4, <1>5 DEF u

\* The innermost call returns.
LEMMA PopElements ==
  ASSUME NEW S, NEW s \in Seq(S), s # <<>>
  PROVE  /\ Tail(s) \in Seq(S)
         /\ Head(s) \in S
         /\ Head(s) = s[1]
         /\ Len(s) \in Nat \ {0}
         /\ Len(Tail(s)) = Len(s) - 1
         /\ \A i \in 1..(Len(s) - 1) : Tail(s)[i] = s[i + 1]
BY HeadTailProperties, LenProperties, EmptySeq

-----------------------------------------------------------------------------
(* Type correctness, whatever the handlers and the urls are.               *)

LEMMA FrameTypes ==
  /\ \A op \in {"poll", "abortDownload", "abortAll"}, num \in Nat : Loop(op, num) \in Frame
  /\ \A op \in {"poll", "abortDownload", "abortAll"}, t \in Transfer, num \in Nat :
       Signal(op, t, num) \in Frame
BY DEF Loop, Signal, Frame

\* In a call the top frame exists and is a frame.
LEMMA TopFrame ==
  ASSUME TypeOK, NEW op, NEW at, At(op, at)
  PROVE  /\ stack # <<>> /\ Head(stack) \in Frame
         /\ Head(stack) = stack[1] /\ 1 \in DOMAIN stack
         /\ Len(stack) \in Nat \ {0}
         /\ Head(stack).num \in Nat
         /\ Tail(stack) \in Seq(Frame)
<1>1. stack \in Seq(Frame) /\ stack # <<>>
  BY DEF TypeOK, At, Idle
<1>2. Head(stack) \in Frame /\ Head(stack) = stack[1] /\ Len(stack) \in Nat \ {0}
      /\ Tail(stack) \in Seq(Frame)
  BY <1>1, PopElements
<1> QED BY <1>1, <1>2 DEF Frame

LEMMA DropHandleType ==
  ASSUME TypeOK, NEW t \in Transfer, DropHandle(t)
  PROVE  /\ m_handles' \in Seq(Transfer)
         /\ multi' \subseteq Transfer
         /\ result' \in [Transfer -> Crc \cup {Unfinished, CurlError}]
<1>1. m_handles \in Seq(Transfer) /\ multi \subseteq Transfer
      /\ result \in [Transfer -> Crc \cup {Unfinished, CurlError}]
  BY DEF TypeOK
<1>2. CASE \E i \in DOMAIN m_handles :
             m_handles' = RemoveAt(m_handles, i) /\ UNCHANGED <<multi, result>>
  BY <1>1, <1>2, RemoveAtElements
<1>3. CASE /\ multi' = multi \ {t}
           /\ result' = [result EXCEPT ![t] = Unfinished]
           /\ UNCHANGED m_handles
  BY <1>1, <1>3
<1> QED BY <1>2, <1>3 DEF DropHandle

LEMMA EmitType ==
  ASSUME TypeOK, NEW t \in Transfer, NEW o \in Outcome, Emit(t, o)
  PROVE  signals' \in [Transfer -> Seq(Outcome)]
<1>1. signals[t] \in Seq(Outcome)
  BY DEF TypeOK
<1>2. Append(signals[t], o) \in Seq(Outcome)
  BY <1>1, AppendProperties
<1> QED BY <1>2 DEF TypeOK, Emit

LEMMA AbortTransferType ==
  ASSUME TypeOK, NEW t \in Transfer, AbortTransfer(t)
  PROVE  /\ m_handles' \in Seq(Transfer)
         /\ multi' \subseteq Transfer
         /\ easy' \subseteq Transfer
         /\ result' \in [Transfer -> Crc \cup {Unfinished, CurlError}]
         /\ fp' \subseteq Transfer
         /\ signals' \in [Transfer -> Seq(Outcome)]
<1>1. fp' \subseteq Transfer
  BY DEF TypeOK, AbortTransfer, CloseTemp
<1>2. signals' \in [Transfer -> Seq(Outcome)]
  BY EmitType DEF AbortTransfer, Outcome
<1>3. CASE t \in easy /\ DropHandle(t) /\ easy' = easy \ {t}
  BY <1>1, <1>2, <1>3, DropHandleType DEF TypeOK
<1>4. CASE t \notin easy /\ UNCHANGED <<m_handles, easy, multi, result>>
  BY <1>1, <1>2, <1>4 DEF TypeOK
<1> QED BY <1>3, <1>4 DEF AbortTransfer

\* How many handles poll takes from the front of m_handles.
LEMMA RefillBounds ==
  ASSUME TypeOK, NEW num \in Nat
  PROVE  /\ Refill(num) \in 0..Len(m_handles)
         /\ Len(m_handles) \in Nat
         /\ Added(num) \subseteq Transfer
<1>1. Len(m_handles) \in Nat /\ \A i \in 1..Len(m_handles) : m_handles[i] \in Transfer
  BY LenProperties, ElementOfSeq DEF TypeOK
<1>2. Spare(num) \in Nat
  BY DEF TypeOK, Spare
<1>3. Refill(num) \in 0..Len(m_handles)
  BY <1>1, <1>2 DEF Refill
<1> QED BY <1>1, <1>3 DEF Added

LEMMA TypeStep == TypeOK /\ [Next]_vars => TypeOK'
<1> SUFFICES ASSUME TypeOK, [Next]_vars PROVE TypeOK'
  OBVIOUS
<1> USE DEF ioVars, heapVars, curlVars, fileVars, callVars
<1>1. CASE IOInit
  BY <1>1 DEF IOInit, TypeOK
<1>2. CASE IOShutdown
  <2>1. m_handles' \in Seq(Transfer)
    BY <1>2, EmptySeq DEF IOShutdown, TypeOK
  <2>2. m_num_to_process' \in Nat
    BY <1>2 DEF IOShutdown, TypeOK
  <2>3. heap' \in [Transfer -> {"fresh", "live", "deleted"}]
    BY <1>2 DEF IOShutdown, TypeOK
  <2> QED BY <1>2, <2>1, <2>2, <2>3 DEF IOShutdown, TypeOK
<1>3. ASSUME NEW n \in Limits, SetMaxDownloads(n) PROVE TypeOK'
  BY <1>3, LimitsAssumption DEF SetMaxDownloads, TypeOK
<1>4. ASSUME NEW r \in Request, QueueFile(r) PROVE TypeOK'
  <2>1. PICK t \in Transfer :
          /\ heap' = [heap EXCEPT ![t] = "live"]
          /\ request' = [request EXCEPT ![t] = r]
          /\ easy' = easy \cup {t}
          /\ m_files' = [m_files EXCEPT ![encodeURL[r.url]] = t]
          /\ m_handles' = Append(m_handles, t)
    BY <1>4 DEF QueueFile
  <2>2. m_handles' \in Seq(Transfer)
    BY <2>1, AppendProperties DEF TypeOK
  <2> QED BY <1>4, <2>1, <2>2 DEF QueueFile, TypeOK
<1>5. ASSUME NEW finished \in SUBSET Running, Poll(finished) PROVE TypeOK'
  <2>1. PICK end \in [finished -> Crc \cup {CurlError}], opened \in SUBSET Running :
          /\ result' = [t \in Transfer |-> IF t \in finished THEN end[t] ELSE result[t]]
          /\ fp' = fp \cup opened
    BY <1>5 DEF Poll
  <2>2. result' \in [Transfer -> Crc \cup {Unfinished, CurlError}]
    BY <2>1 DEF TypeOK
  <2>3. fp' \subseteq Transfer
    BY <2>1 DEF TypeOK, Running
  <2>4. Cardinality(Running \ finished) \in Nat
    <3>1. Running \ finished \subseteq Transfer
      BY DEF Running, TypeOK
    <3> QED BY <3>1, TransferAssumption, FS_Subset, FS_CardinalityType
  <2>5. stack' \in Seq(Frame)
    BY <1>5, <2>4, FrameTypes, PushElements DEF Poll, Push, TypeOK
  <2> QED BY <1>5, <2>2, <2>3, <2>5 DEF Poll, TypeOK
<1>6. ASSUME NEW filename \in Str, AbortDownload(filename) PROVE TypeOK'
  <2> DEFINE t == m_files[filename]
  <2>1. t \in Transfer
    BY <1>6 DEF AbortDownload, TypeOK
  <2>2. AbortTransfer(t) /\ Push(Signal("abortDownload", t, 0))
    BY <1>6 DEF AbortDownload
  <2> HIDE DEF t
  <2>3. stack' \in Seq(Frame)
    BY <2>1, <2>2, FrameTypes, PushElements DEF Push, TypeOK
  <2> QED BY <1>6, <2>1, <2>2, <2>3, AbortTransferType DEF AbortDownload, TypeOK
<1>7. CASE AbortAll
  <2>1. stack' \in Seq(Frame)
    BY <1>7, FrameTypes, PushElements DEF AbortAll, Push, TypeOK
  <2> QED BY <1>7, <2>1 DEF AbortAll, TypeOK
<1>8. ASSUME NEW t \in Transfer, PollMessage(t) PROVE TypeOK'
  <2>1. Head(stack).num \in Nat /\ stack \in Seq(Frame) /\ stack # <<>>
    BY <1>8, TopFrame DEF PollMessage, TypeOK
  <2>2. stack' \in Seq(Frame)
    BY <1>8, <2>1, FrameTypes, TopElements DEF PollMessage
  <2>3. signals' \in [Transfer -> Seq(Outcome)]
    BY <1>8, EmitType DEF PollMessage, Outcome
  <2>4. /\ target' \in [Transfer -> Crc \cup {NotSaved, Truncated}]
        /\ executable' \subseteq Transfer
    BY <1>8 DEF PollMessage, Verified, CopyFile, SetExecutable, TypeOK
  <2> QED BY <1>8, <2>2, <2>3, <2>4 DEF PollMessage, CloseTemp, TypeOK
<1>9. CASE PollForget
  <2>1. Head(stack).num \in Nat /\ stack \in Seq(Frame) /\ stack # <<>>
    BY <1>9, TopFrame DEF PollForget, TypeOK
  <2>2. stack' \in Seq(Frame)
    BY <1>9, <2>1, FrameTypes, TopElements DEF PollForget
  <2> QED BY <1>9, <2>2 DEF PollForget, TypeOK
<1>10. CASE PollReturn
  <2> DEFINE num == Head(stack).num
  <2>1. num \in Nat /\ Tail(stack) \in Seq(Frame)
    BY <1>10, TopFrame DEF PollReturn
  <2>2. PICK n \in 0..Len(m_handles) : n = Refill(num) /\ Len(m_handles) \in Nat
    BY <2>1, RefillBounds
  <2>3. /\ multi' = multi \cup Added(num)
        /\ m_handles' = SubSeq(m_handles, n + 1, Len(m_handles))
        /\ returned' = IF Len(stack) = 1 THEN num + n ELSE returned
        /\ stack' = Tail(stack)
    BY <1>10, <2>2 DEF PollReturn, Returned
  <2> HIDE DEF num
  <2>4. m_handles' \in Seq(Transfer)
    BY <2>2, <2>3 DEF TypeOK
  <2>5. multi' \subseteq Transfer
    BY <2>1, <2>3, RefillBounds DEF TypeOK
  <2>6. returned' \in Nat \cup {NotReturned}
    BY <2>1, <2>2, <2>3 DEF TypeOK
  <2> QED BY <1>10, <2>1, <2>3, <2>4, <2>5, <2>6 DEF PollReturn, TypeOK
<1>11. CASE AbortDownloadReturn
  <2>1. Tail(stack) \in Seq(Frame)
    BY <1>11, TopFrame DEF AbortDownloadReturn
  <2> QED BY <1>11, <2>1 DEF AbortDownloadReturn, TypeOK
<1>12. CASE AbortAllNext
  <2>1. PICK first \in Keys :
          /\ AbortTransfer(m_files[first])
          /\ stack' = <<Signal("abortAll", m_files[first], 0)>> \o Tail(stack)
    BY <1>12 DEF AbortAllNext
  <2>2. m_files[first] \in Transfer
    BY <2>1 DEF Keys, TypeOK
  <2>3. stack \in Seq(Frame) /\ stack # <<>>
    BY <1>12, TopFrame DEF AbortAllNext, TypeOK
  <2>4. stack' \in Seq(Frame)
    BY <2>1, <2>2, <2>3, FrameTypes, TopElements
  <2> QED BY <1>12, <2>1, <2>2, <2>4, AbortTransferType DEF AbortAllNext, TypeOK
<1>13. CASE AbortAllForget
  <2>1. PICK first \in Keys : m_files' = [m_files EXCEPT ![first] = None]
    BY <1>13 DEF AbortAllForget
  <2>2. stack \in Seq(Frame) /\ stack # <<>>
    BY <1>13, TopFrame DEF AbortAllForget, TypeOK
  <2>3. stack' \in Seq(Frame)
    BY <1>13, <2>2, FrameTypes, TopElements DEF AbortAllForget
  <2> QED BY <1>13, <2>1, <2>3 DEF AbortAllForget, TypeOK
<1>14. CASE AbortAllReturn
  <2>1. Tail(stack) \in Seq(Frame)
    BY <1>14, TopFrame DEF AbortAllReturn
  <2> QED BY <1>14, <2>1 DEF AbortAllReturn, TypeOK
<1>15. CASE Misuse
  BY <1>15 DEF Misuse, Undefined, TypeOK
<1>16. CASE UNCHANGED vars
  BY <1>16 DEF vars, TypeOK
<1> QED
  BY <1>1, <1>2, <1>3, <1>4, <1>5, <1>6, <1>7, <1>8, <1>9, <1>10, <1>11,
     <1>12, <1>13, <1>14, <1>15, <1>16
  DEF Next, Calls, Steps

LEMMA TypeInit == Init => TypeOK
<1> SUFFICES ASSUME Init PROVE TypeOK
  OBVIOUS
<1>1. <<>> \in Seq(Transfer) /\ <<>> \in Seq(Outcome) /\ <<>> \in Seq(Frame)
  BY EmptySeq
<1> QED BY <1>1 DEF Init, TypeOK, NotSaved, Unfinished, NotReturned

\* Every variable keeps its type, whatever the urls and the handlers are.
THEOREM TypeCorrect == Spec => []TypeOK
BY TypeInit, TypeStep, PTL DEF Spec

-----------------------------------------------------------------------------
(* The calls in progress: how each change of the stack changes who is      *)
(* having a signal handled.                                                *)

FramesDistinct ==
  /\ \A i \in DOMAIN stack : stack[i].at = "signal" => stack[i].t \in Transfer
  /\ \A i, j \in DOMAIN stack :
       stack[i].at = "signal" /\ stack[j].at = "signal" /\ stack[i].t = stack[j].t => i = j

\* A call begins.
LEMMA SignallingPush ==
  ASSUME stack \in Seq(Frame), NEW f \in Frame, Push(f)
  PROVE  Signalling' = Signalling \cup (IF f.at = "signal" THEN {f.t} ELSE {})
<1> DEFINE n == Len(stack)
<1>1. /\ n \in Nat /\ DOMAIN stack = 1..n
      /\ DOMAIN stack' = 1..(n + 1)
      /\ stack'[1] = f
      /\ \A i \in 2..(n + 1) : stack'[i] = stack[i - 1]
  <2>1. n \in Nat /\ DOMAIN stack = 1..n
    BY LenProperties
  <2>2. stack' \in Seq(Frame) /\ Len(stack') = n + 1 /\ stack'[1] = f
        /\ \A i \in 2..(n + 1) : stack'[i] = stack[i - 1]
    BY PushElements DEF Push
  <2>3. DOMAIN stack' = 1..(n + 1)
    BY <2>2, LenProperties
  <2> QED BY <2>1, <2>2, <2>3
<1> HIDE DEF n
<1>2. ASSUME NEW x \in Signalling'
      PROVE  x \in Signalling \cup (IF f.at = "signal" THEN {f.t} ELSE {})
  <2>1. PICK i \in 1..(n + 1) : stack'[i].at = "signal" /\ stack'[i].t = x
    BY <1>1, <1>2 DEF Signalling
  <2>2. CASE i = 1
    BY <1>1, <2>1, <2>2
  <2>3. CASE i # 1
    <3>1. i - 1 \in 1..n /\ stack[i - 1].at = "signal" /\ stack[i - 1].t = x
      BY <1>1, <2>1, <2>3
    <3> QED BY <1>1, <3>1 DEF Signalling
  <2> QED BY <2>2, <2>3
<1>3. ASSUME NEW x \in Signalling
      PROVE  x \in Signalling'
  <2>1. PICK i \in 1..n : stack[i].at = "signal" /\ stack[i].t = x
    BY <1>1, <1>3 DEF Signalling
  <2>2. i + 1 \in 1..(n + 1) /\ stack'[i + 1] = stack[i]
    BY <1>1
  <2> QED BY <1>1, <2>1, <2>2 DEF Signalling
<1>4. f.at = "signal" => f.t \in Signalling'
  <2>1. 1 \in 1..(n + 1)
    BY <1>1
  <2> QED BY <1>1, <2>1 DEF Signalling
<1> QED BY <1>2, <1>3, <1>4

\* The innermost call goes from its loop to a signal, or back.
LEMMA SignallingTop ==
  ASSUME stack \in Seq(Frame), stack # <<>>, FramesDistinct,
         NEW f \in Frame, stack' = <<f>> \o Tail(stack)
  PROVE  /\ Head(stack).at = "loop" /\ f.at = "signal" =>
              Signalling' = Signalling \cup {f.t}
         /\ Head(stack).at = "signal" /\ f.at = "loop" =>
              Signalling' = Signalling \ {Head(stack).t}
<1> DEFINE n == Len(stack)
<1>1. /\ n \in Nat \ {0} /\ DOMAIN stack = 1..n
      /\ Head(stack) = stack[1]
  BY LenProperties, PopElements
<1>2. /\ DOMAIN stack' = 1..n
      /\ stack'[1] = f
      /\ \A i \in 2..n : stack'[i] = stack[i]
  <2>1. stack' \in Seq(Frame) /\ Len(stack') = n /\ stack'[1] = f
        /\ \A i \in 2..n : stack'[i] = stack[i]
    BY TopElements
  <2> QED BY <2>1, LenProperties
<1> HIDE DEF n
<1>3. \A x : x \in Signalling <=> \E i \in 1..n : stack[i].at = "signal" /\ stack[i].t = x
  BY <1>1 DEF Signalling
<1>4. \A x : x \in Signalling' <=> \E i \in 1..n : stack'[i].at = "signal" /\ stack'[i].t = x
  BY <1>2 DEF Signalling
<1>5. 1 \in 1..n /\ \A i \in 1..n : i = 1 \/ i \in 2..n
  BY <1>1
<1>6. ASSUME Head(stack).at = "loop", f.at = "signal"
      PROVE  Signalling' = Signalling \cup {f.t}
  BY <1>1, <1>2, <1>3, <1>4, <1>5, <1>6
<1>7. ASSUME Head(stack).at = "signal", f.at = "loop"
      PROVE  Signalling' = Signalling \ {Head(stack).t}
  <2>1. \A i \in 2..n : stack[i].at = "signal" => stack[i].t # stack[1].t
    <3>1. \A i \in 2..n : i \in 1..n /\ i # 1
      BY <1>1
    <3> QED BY <1>1, <1>5, <1>7, <3>1 DEF FramesDistinct
  <2> QED BY <1>1, <1>2, <1>3, <1>4, <1>5, <1>7, <2>1
<1> QED BY <1>6, <1>7

\* The innermost call returns.
LEMMA SignallingPop ==
  ASSUME stack \in Seq(Frame), stack # <<>>, FramesDistinct, stack' = Tail(stack)
  PROVE  Signalling' = Signalling \ (IF Head(stack).at = "signal" THEN {Head(stack).t} ELSE {})
<1> DEFINE n == Len(stack)
<1>1. /\ n \in Nat \ {0} /\ DOMAIN stack = 1..n
      /\ Head(stack) = stack[1]
  BY LenProperties, PopElements
<1>2. /\ DOMAIN stack' = 1..(n - 1)
      /\ \A i \in 1..(n - 1) : stack'[i] = stack[i + 1]
  <2>1. stack' \in Seq(Frame) /\ Len(stack') = n - 1
        /\ \A i \in 1..(n - 1) : stack'[i] = stack[i + 1]
    BY PopElements
  <2> QED BY <2>1, LenProperties
<1> HIDE DEF n
<1>3. \A x : x \in Signalling <=> \E i \in 1..n : stack[i].at = "signal" /\ stack[i].t = x
  BY <1>1 DEF Signalling
<1>4. \A x : x \in Signalling' <=>
               \E i \in 1..(n - 1) : stack[i + 1].at = "signal" /\ stack[i + 1].t = x
  BY <1>2 DEF Signalling
<1>5. \A x : x \in Signalling' <=>
               \E i \in 2..n : stack[i].at = "signal" /\ stack[i].t = x
  <2>1. \A i \in 1..(n - 1) : i + 1 \in 2..n
    BY <1>1
  <2>2. \A i \in 2..n : i - 1 \in 1..(n - 1) /\ (i - 1) + 1 = i
    BY <1>1
  <2> QED BY <1>4, <2>1, <2>2
<1>6. 1 \in 1..n /\ (\A i \in 1..n : i = 1 \/ i \in 2..n)
      /\ \A i \in 2..n : i \in 1..n /\ i # 1
  BY <1>1
<1>7. CASE Head(stack).at = "signal"
  <2>1. \A i \in 2..n : stack[i].at = "signal" => stack[i].t # stack[1].t
    BY <1>1, <1>6, <1>7 DEF FramesDistinct
  <2> QED BY <1>1, <1>3, <1>5, <1>6, <1>7, <2>1
<1>8. CASE Head(stack).at # "signal"
  BY <1>1, <1>3, <1>5, <1>6, <1>8
<1> QED BY <1>7, <1>8

-----------------------------------------------------------------------------
(* The calls stay nested as CallsNest says: at each change of the stack    *)
(* the frames stay distinct and abortAll stays outermost.                  *)

AbortAllOutermost ==
  \A i \in DOMAIN stack :
    stack[i].op = "abortAll" =>
      /\ i = Len(stack)
      /\ stack[i].at = "signal" => IsFirst(Key(stack[i].t))

\* An abort has cleaned up the handle of the transfer whose handler it runs.
AbortedCleanedUp ==
  \A i \in DOMAIN stack :
    stack[i].op # "poll" /\ stack[i].at = "signal" => stack[i].t \notin easy

NoneReopened == \A u \in Signalling : u \notin easy => u \notin easy'

LEMMA CleanedUpPush ==
  ASSUME stack \in Seq(Frame), AbortedCleanedUp, NoneReopened,
         NEW f \in Frame, Push(f),
         f.op # "poll" /\ f.at = "signal" => f.t \notin easy'
  PROVE  AbortedCleanedUp'
<1> DEFINE n == Len(stack)
<1>1. n \in Nat /\ DOMAIN stack = 1..n
  BY LenProperties
<1>2. /\ DOMAIN stack' = 1..(n + 1)
      /\ stack'[1] = f
      /\ \A i \in 2..(n + 1) : stack'[i] = stack[i - 1]
  <2>1. stack' \in Seq(Frame) /\ Len(stack') = n + 1 /\ stack'[1] = f
        /\ \A i \in 2..(n + 1) : stack'[i] = stack[i - 1]
    BY PushElements DEF Push
  <2> QED BY <2>1, LenProperties
<1> HIDE DEF n
<1>3. \A i \in 1..n :
        stack[i].op # "poll" /\ stack[i].at = "signal" => stack[i].t \notin easy'
  BY <1>1 DEF AbortedCleanedUp, NoneReopened, Signalling
<1>4. \A i \in 1..(n + 1) : i = 1 \/ (i - 1 \in 1..n /\ stack'[i] = stack[i - 1])
  BY <1>1, <1>2
<1> QED BY <1>2, <1>3, <1>4 DEF AbortedCleanedUp

LEMMA CleanedUpTop ==
  ASSUME stack \in Seq(Frame), stack # <<>>, AbortedCleanedUp, NoneReopened,
         NEW f \in Frame, stack' = <<f>> \o Tail(stack),
         f.op # "poll" /\ f.at = "signal" => f.t \notin easy'
  PROVE  AbortedCleanedUp'
<1> DEFINE n == Len(stack)
<1>1. n \in Nat \ {0} /\ DOMAIN stack = 1..n
  BY LenProperties, PopElements
<1>2. /\ DOMAIN stack' = 1..n
      /\ stack'[1] = f
      /\ \A i \in 2..n : stack'[i] = stack[i]
  <2>1. stack' \in Seq(Frame) /\ Len(stack') = n /\ stack'[1] = f
        /\ \A i \in 2..n : stack'[i] = stack[i]
    BY TopElements
  <2> QED BY <2>1, LenProperties
<1> HIDE DEF n
<1>3. \A i \in 1..n :
        stack[i].op # "poll" /\ stack[i].at = "signal" => stack[i].t \notin easy'
  BY <1>1 DEF AbortedCleanedUp, NoneReopened, Signalling
<1>4. \A i \in 1..n : i = 1 \/ i \in 2..n
  BY <1>1
<1> QED BY <1>2, <1>3, <1>4 DEF AbortedCleanedUp

LEMMA CleanedUpPop ==
  ASSUME stack \in Seq(Frame), stack # <<>>, AbortedCleanedUp, NoneReopened,
         stack' = Tail(stack)
  PROVE  AbortedCleanedUp'
<1> DEFINE n == Len(stack)
<1>1. n \in Nat \ {0} /\ DOMAIN stack = 1..n
  BY LenProperties, PopElements
<1>2. /\ DOMAIN stack' = 1..(n - 1)
      /\ \A i \in 1..(n - 1) : stack'[i] = stack[i + 1]
  <2>1. stack' \in Seq(Frame) /\ Len(stack') = n - 1
        /\ \A i \in 1..(n - 1) : stack'[i] = stack[i + 1]
    BY PopElements
  <2> QED BY <2>1, LenProperties
<1> HIDE DEF n
<1>3. \A i \in 1..n :
        stack[i].op # "poll" /\ stack[i].at = "signal" => stack[i].t \notin easy'
  BY <1>1 DEF AbortedCleanedUp, NoneReopened, Signalling
<1>4. \A i \in 1..(n - 1) : i + 1 \in 1..n
  BY <1>1
<1> QED BY <1>2, <1>3, <1>4 DEF AbortedCleanedUp

\* A call begins.
LEMMA NestPush ==
  ASSUME stack \in Seq(Frame), FramesDistinct, AbortAllOutermost,
         NEW f \in Frame, Push(f),
         f.at = "signal" => f.t \in Transfer /\ f.t \notin Signalling,
         f.op = "abortAll" => stack = <<>> /\ f.at = "loop",
         UNCHANGED <<m_files, request>>
  PROVE  FramesDistinct' /\ AbortAllOutermost'
<1> DEFINE n == Len(stack)
<1>1. /\ n \in Nat /\ DOMAIN stack = 1..n /\ Len(stack') = n + 1
      /\ DOMAIN stack' = 1..(n + 1)
      /\ stack'[1] = f
      /\ \A i \in 2..(n + 1) : stack'[i] = stack[i - 1]
  <2>1. n \in Nat /\ DOMAIN stack = 1..n
    BY LenProperties
  <2>2. stack' \in Seq(Frame) /\ Len(stack') = n + 1 /\ stack'[1] = f
        /\ \A i \in 2..(n + 1) : stack'[i] = stack[i - 1]
    BY PushElements DEF Push
  <2>3. DOMAIN stack' = 1..(n + 1)
    BY <2>2, LenProperties
  <2> QED BY <2>1, <2>2, <2>3
<1>2. stack = <<>> => n = 0
  BY EmptySeq
<1> HIDE DEF n
<1>3. \A i \in 1..(n + 1) : i = 1 \/ (i - 1 \in 1..n /\ stack'[i] = stack[i - 1])
  BY <1>1
<1>4. f.at = "signal" => \A i \in 1..n : stack[i].at = "signal" => stack[i].t # f.t
  BY <1>1 DEF Signalling
<1>5. FramesDistinct'
  <2>1. \A i \in 1..(n + 1) : stack'[i].at = "signal" => stack'[i].t \in Transfer
    BY <1>1, <1>3 DEF FramesDistinct
  <2>2. ASSUME NEW i \in 1..(n + 1), NEW j \in 1..(n + 1),
               stack'[i].at = "signal", stack'[j].at = "signal", stack'[i].t = stack'[j].t
        PROVE  i = j
    <3>1. CASE i = 1 /\ j = 1
      BY <3>1
    <3>2. CASE i = 1 /\ j # 1
      BY <1>1, <1>3, <1>4, <2>2, <3>2
    <3>3. CASE i # 1 /\ j = 1
      BY <1>1, <1>3, <1>4, <2>2, <3>3
    <3>4. CASE i # 1 /\ j # 1
      <4>1. i - 1 = j - 1
        BY <1>1, <1>3, <2>2, <3>4 DEF FramesDistinct
      <4> QED BY <4>1
    <3> QED BY <3>1, <3>2, <3>3, <3>4
  <2> QED BY <1>1, <2>1, <2>2 DEF FramesDistinct
<1>6. AbortAllOutermost'
  <2>1. \A k : IsFirst(k)' <=> IsFirst(k)
    BY DEF IsFirst, Keys
  <2>2. \A t : Key(t)' = Key(t)
    BY DEF Key
  <2>3. ASSUME NEW i \in 1..(n + 1), stack'[i].op = "abortAll"
        PROVE  i = n + 1 /\ (stack'[i].at = "signal" => IsFirst(Key(stack'[i].t)))
    <3>1. CASE i = 1
      BY <1>1, <1>2, <2>3, <3>1 DEF Frame
    <3>2. CASE i # 1
      BY <1>1, <1>3, <2>3, <3>2 DEF AbortAllOutermost
    <3> QED BY <3>1, <3>2
  <2> QED BY <1>1, <2>1, <2>2, <2>3 DEF AbortAllOutermost
<1> QED BY <1>5, <1>6

\* The innermost call goes from its loop to a signal, or back.
LEMMA NestTop ==
  ASSUME stack \in Seq(Frame), stack # <<>>, FramesDistinct, AbortAllOutermost,
         NEW f \in Frame, stack' = <<f>> \o Tail(stack), f.op = Head(stack).op,
         f.at = "signal" => f.t \in Transfer /\ f.t \notin Signalling,
         f.at = "signal" /\ f.op = "abortAll" => IsFirst(Key(f.t))',
         \A i \in 2..Len(stack), u \in Transfer :
           stack[i].op = "abortAll" /\ stack[i].at = "signal" /\ stack[i].t = u =>
             IsFirst(Key(u))'
  PROVE  FramesDistinct' /\ AbortAllOutermost'
<1> DEFINE n == Len(stack)
<1>1. /\ n \in Nat \ {0} /\ DOMAIN stack = 1..n
      /\ Head(stack) = stack[1]
  BY LenProperties, PopElements
<1>2. /\ DOMAIN stack' = 1..n /\ Len(stack') = n
      /\ stack'[1] = f
      /\ \A i \in 2..n : stack'[i] = stack[i]
  <2>1. stack' \in Seq(Frame) /\ Len(stack') = n /\ stack'[1] = f
        /\ \A i \in 2..n : stack'[i] = stack[i]
    BY TopElements
  <2> QED BY <2>1, LenProperties
<1>3. \A i \in 2..n, u \in Transfer :
        stack[i].op = "abortAll" /\ stack[i].at = "signal" /\ stack[i].t = u =>
          IsFirst(Key(u))'
  OBVIOUS
<1> HIDE DEF n
<1>4. \A i \in 1..n : i = 1 \/ i \in 2..n
  BY <1>1
<1>5. f.at = "signal" => \A i \in 1..n : stack[i].at = "signal" => stack[i].t # f.t
  BY <1>1 DEF Signalling
<1>6. \A i \in 2..n : i \in 1..n
  BY <1>1
<1>7. FramesDistinct'
  <2>1. \A i \in 1..n : stack'[i].at = "signal" => stack'[i].t \in Transfer
    BY <1>1, <1>2, <1>4 DEF FramesDistinct
  <2>2. ASSUME NEW i \in 1..n, NEW j \in 1..n,
               stack'[i].at = "signal", stack'[j].at = "signal", stack'[i].t = stack'[j].t
        PROVE  i = j
    BY <1>1, <1>2, <1>4, <1>5, <1>6, <2>2 DEF FramesDistinct
  <2> QED BY <1>2, <2>1, <2>2 DEF FramesDistinct
<1>8. AbortAllOutermost'
  <2>1. ASSUME NEW i \in 1..n, stack'[i].op = "abortAll"
        PROVE  /\ i = n
               /\ \A u \in Transfer :
                    stack'[i].at = "signal" /\ stack'[i].t = u => IsFirst(Key(u))'
    <3>1. CASE i = 1
      <4>1. i = n
        BY <1>1, <1>2, <2>1, <3>1 DEF AbortAllOutermost, n
      <4> QED BY <1>2, <2>1, <3>1, <4>1
    <3>2. CASE i \in 2..n
      <4>1. i = n
        BY <1>1, <1>2, <1>6, <2>1, <3>2 DEF AbortAllOutermost, n
      <4> QED BY <1>2, <1>3, <2>1, <3>2, <4>1
    <3> QED BY <1>4, <3>1, <3>2
  <2>2. \A i \in 1..n : stack'[i].at = "signal" => stack'[i].t \in Transfer
    BY <1>2, <1>7 DEF FramesDistinct
  <2> QED BY <1>2, <2>1, <2>2 DEF AbortAllOutermost, IsFirst, Keys, Key
<1> QED BY <1>7, <1>8

\* The innermost call returns.
LEMMA NestPop ==
  ASSUME stack \in Seq(Frame), stack # <<>>, FramesDistinct, AbortAllOutermost,
         stack' = Tail(stack),
         \A i \in 2..Len(stack), u \in Transfer :
           stack[i].op = "abortAll" /\ stack[i].at = "signal" /\ stack[i].t = u =>
             IsFirst(Key(u))'
  PROVE  FramesDistinct' /\ AbortAllOutermost'
<1> DEFINE n == Len(stack)
<1>1. n \in Nat \ {0} /\ DOMAIN stack = 1..n
  BY LenProperties, PopElements
<1>2. /\ DOMAIN stack' = 1..(n - 1) /\ Len(stack') = n - 1
      /\ \A i \in 1..(n - 1) : stack'[i] = stack[i + 1]
  <2>1. stack' \in Seq(Frame) /\ Len(stack') = n - 1
        /\ \A i \in 1..(n - 1) : stack'[i] = stack[i + 1]
    BY PopElements
  <2> QED BY <2>1, LenProperties
<1>3. \A i \in 2..n, u \in Transfer :
        stack[i].op = "abortAll" /\ stack[i].at = "signal" /\ stack[i].t = u =>
          IsFirst(Key(u))'
  OBVIOUS
<1> HIDE DEF n
<1>4. \A i \in 1..(n - 1) : i + 1 \in 1..n /\ i + 1 \in 2..n
  BY <1>1
<1>5. FramesDistinct'
  <2>1. \A i \in 1..(n - 1) : stack'[i].at = "signal" => stack'[i].t \in Transfer
    BY <1>1, <1>2, <1>4 DEF FramesDistinct
  <2>2. ASSUME NEW i \in 1..(n - 1), NEW j \in 1..(n - 1),
               stack'[i].at = "signal", stack'[j].at = "signal", stack'[i].t = stack'[j].t
        PROVE  i = j
    <3>1. i + 1 = j + 1
      BY <1>1, <1>2, <1>4, <2>2 DEF FramesDistinct
    <3> QED BY <3>1
  <2> QED BY <1>2, <2>1, <2>2 DEF FramesDistinct
<1>6. AbortAllOutermost'
  <2>1. ASSUME NEW i \in 1..(n - 1), stack'[i].op = "abortAll"
        PROVE  /\ i = n - 1
               /\ \A u \in Transfer :
                    stack'[i].at = "signal" /\ stack'[i].t = u => IsFirst(Key(u))'
    <3>1. i + 1 = n
      BY <1>1, <1>2, <1>4, <2>1 DEF AbortAllOutermost, n
    <3> QED BY <1>2, <1>3, <1>4, <2>1, <3>1
  <2>2. \A i \in 1..(n - 1) : stack'[i].at = "signal" => stack'[i].t \in Transfer
    BY <1>2, <1>5 DEF FramesDistinct
  <2> QED BY <1>2, <2>1, <2>2 DEF AbortAllOutermost, IsFirst, Keys, Key
<1> QED BY <1>5, <1>6

-----------------------------------------------------------------------------
(* The deque of handles not yet given to curl.                             *)

HandlesDistinct == \A i, j \in DOMAIN m_handles : m_handles[i] = m_handles[j] => i = j

\* queueFile puts a new handle at the back.
LEMMA AppendEffect ==
  ASSUME m_handles \in Seq(Transfer), HandlesDistinct,
         NEW t \in Transfer, t \notin Pending, m_handles' = Append(m_handles, t)
  PROVE  HandlesDistinct' /\ Pending' = Pending \cup {t}
<1> DEFINE n == Len(m_handles)
<1>1. n \in Nat /\ DOMAIN m_handles = 1..n
  BY LenProperties
<1>2. /\ DOMAIN m_handles' = 1..(n + 1)
      /\ m_handles'[n + 1] = t
      /\ \A i \in 1..n : m_handles'[i] = m_handles[i]
  <2>1. m_handles' \in Seq(Transfer) /\ Len(m_handles') = n + 1
        /\ m_handles'[n + 1] = t /\ \A i \in 1..n : m_handles'[i] = m_handles[i]
    BY AppendProperties
  <2> QED BY <2>1, LenProperties
<1> HIDE DEF n
<1>3. \A i \in 1..(n + 1) : i = n + 1 \/ i \in 1..n
  BY <1>1
<1>4. n + 1 \in 1..(n + 1) /\ \A i \in 1..n : i \in 1..(n + 1)
  BY <1>1
<1>5. \A i \in 1..n : m_handles[i] # t
  BY <1>1 DEF Pending
<1>6. HandlesDistinct'
  BY <1>1, <1>2, <1>3, <1>5 DEF HandlesDistinct
<1>7. Pending' = Pending \cup {t}
  BY <1>1, <1>2, <1>3, <1>4 DEF Pending
<1> QED BY <1>6, <1>7

\* An abort takes its handle out of the deque or, failing that, out of curl.
LEMMA DropHandleEffect ==
  ASSUME m_handles \in Seq(Transfer), HandlesDistinct, NEW t \in Transfer, DropHandle(t)
  PROVE  /\ HandlesDistinct'
         /\ \/ t \in Pending /\ Pending' = Pending \ {t} /\ multi' = multi
            \/ t \notin Pending /\ Pending' = Pending /\ multi' = multi \ {t}
<1> DEFINE n == Len(m_handles)
<1>1. n \in Nat /\ DOMAIN m_handles = 1..n
  BY LenProperties
<1>2. CASE \A i \in DOMAIN m_handles : m_handles[i] # t
  <2>1. multi' = multi \ {t} /\ m_handles' = m_handles /\ t \notin Pending
    BY <1>2 DEF DropHandle, Pending
  <2> QED BY <2>1 DEF Pending, HandlesDistinct
<1>3. CASE \E i \in DOMAIN m_handles : m_handles[i] = t
  <2>1. PICK k \in 1..n : m_handles[k] = t /\ m_handles' = RemoveAt(m_handles, k)
                          /\ UNCHANGED multi
    BY <1>1, <1>3 DEF DropHandle
  <2>2. /\ DOMAIN m_handles' = 1..(n - 1)
        /\ \A j \in 1..(n - 1) :
             m_handles'[j] = IF j < k THEN m_handles[j] ELSE m_handles[j + 1]
    <3>1. /\ m_handles' \in Seq(Transfer) /\ Len(m_handles') = n - 1
          /\ \A j \in 1..(n - 1) :
               m_handles'[j] = IF j < k THEN m_handles[j] ELSE m_handles[j + 1]
      BY <1>1, <2>1, RemoveAtElements
    <3> QED BY <3>1, LenProperties
  <2> HIDE DEF n
  <2> DEFINE from(j) == IF j < k THEN j ELSE j + 1
  <2>3. \A j \in 1..(n - 1) : from(j) \in 1..n /\ from(j) # k
                              /\ m_handles'[j] = m_handles[from(j)]
    BY <1>1, <2>1, <2>2
  <2>4. \A i, j \in 1..(n - 1) : from(i) = from(j) => i = j
    BY <1>1, <2>1
  <2>5. \A i \in 1..n : i # k => \E j \in 1..(n - 1) : from(j) = i
    <3> SUFFICES ASSUME NEW i \in 1..n, i # k
                 PROVE  \E j \in 1..(n - 1) : from(j) = i
      OBVIOUS
    <3>1. CASE i < k
      <4>1. i \in 1..(n - 1) /\ from(i) = i
        BY <1>1, <2>1, <3>1
      <4> QED BY <4>1
    <3>2. CASE i > k
      <4>1. i - 1 \in 1..(n - 1) /\ from(i - 1) = i
        BY <1>1, <2>1, <3>2
      <4> QED BY <4>1
    <3> QED BY <1>1, <2>1, <3>1, <3>2
  <2> HIDE DEF from
  <2>6. HandlesDistinct'
    BY <1>1, <2>2, <2>3, <2>4 DEF HandlesDistinct
  <2>7. \A i \in 1..n : i # k => m_handles[i] # t
    BY <1>1, <2>1 DEF HandlesDistinct
  <2>8. \A x : x \in Pending' <=> \E j \in 1..(n - 1) : m_handles[from(j)] = x
    BY <2>2, <2>3 DEF Pending
  <2>9. \A x : x \in Pending <=> \E i \in 1..n : m_handles[i] = x
    BY <1>1 DEF Pending
  <2>10. Pending' = Pending \ {t}
    BY <2>1, <2>3, <2>5, <2>7, <2>8, <2>9
  <2> QED BY <2>1, <2>6, <2>9, <2>10
<1> QED BY <1>2, <1>3

\* poll moves handles from the front of the deque to curl.
LEMMA RefillEffect ==
  ASSUME TypeOK, HandlesDistinct, NEW num \in Nat,
         m_handles' = SubSeq(m_handles, Refill(num) + 1, Len(m_handles))
  PROVE  HandlesDistinct' /\ Pending' = Pending \ Added(num) /\ Added(num) \subseteq Pending
<1> DEFINE n == Len(m_handles)
<1>1. m_handles \in Seq(Transfer) /\ n \in Nat /\ DOMAIN m_handles = 1..n
  BY LenProperties DEF TypeOK
<1>2. PICK k \in 0..n : k = Refill(num)
  BY RefillBounds
<1>3. /\ DOMAIN m_handles' = 1..(n - k)
      /\ \A j \in 1..(n - k) : m_handles'[j] = m_handles[k + j]
  <2>1. m_handles' = SubSeq(m_handles, k + 1, n)
    BY <1>2
  <2> HIDE DEF n
  <2>2. Len(SubSeq(m_handles, k + 1, n)) = n - k
        /\ SubSeq(m_handles, k + 1, n) \in Seq(Transfer)
        /\ \A j \in 1..(n - k) : SubSeq(m_handles, k + 1, n)[j] = m_handles[k + j]
    BY <1>1, <1>2
  <2> QED BY <2>1, <2>2, LenProperties
<1> HIDE DEF n
<1>4. \A j \in 1..(n - k) : k + j \in 1..n /\ k + j \notin 1..k
  BY <1>1, <1>2
<1>5. \A i \in 1..n : i \in 1..k \/ i - k \in 1..(n - k)
  BY <1>1, <1>2
<1>6. \A i \in 1..k : i \in 1..n
  BY <1>1, <1>2
<1>7. HandlesDistinct'
  <2> SUFFICES ASSUME NEW i \in 1..(n - k), NEW j \in 1..(n - k),
                      m_handles'[i] = m_handles'[j]
               PROVE  i = j
    BY <1>3 DEF HandlesDistinct
  <2>1. k + i = k + j
    BY <1>1, <1>3, <1>4 DEF HandlesDistinct
  <2> QED BY <1>1, <1>2, <2>1
<1>8. \A x : x \in Pending <=> \E i \in 1..n : m_handles[i] = x
  BY <1>1 DEF Pending
<1>9. \A x : x \in Added(num) <=> \E i \in 1..k : m_handles[i] = x
  BY <1>2 DEF Added
<1>10. \A x : x \in Pending' <=> \E j \in 1..(n - k) : m_handles[k + j] = x
  BY <1>3 DEF Pending
<1>11. \A x : x \in Pending' => x \in Pending /\ x \notin Added(num)
  BY <1>1, <1>4, <1>6, <1>8, <1>9, <1>10 DEF HandlesDistinct
<1>12. ASSUME NEW x \in Pending, x \notin Added(num) PROVE x \in Pending'
  <2>1. PICK i \in 1..n : m_handles[i] = x
    BY <1>8, <1>12
  <2>2. i - k \in 1..(n - k) /\ k + (i - k) = i
    BY <1>1, <1>2, <1>5, <1>9, <1>12, <2>1
  <2> QED BY <1>10, <2>1, <2>2
<1>13. Added(num) \subseteq Pending
  BY <1>6, <1>8, <1>9
<1> QED BY <1>7, <1>11, <1>12, <1>13

-----------------------------------------------------------------------------
(* The inductive invariant.  QueueConsistent holds the containers together *)
(* and is what keeps Misuse disabled; OneSignal and TargetSettled need to  *)
(* know of every transfer where it is, which is what OnePlace says.        *)

\* TargetVerified, and of a short copy what the code makes of it as well: it is reported
\* complete like any other.
TargetSettled ==
  \A t \in Transfer :
    /\ target[t] \in Crc => request[t].expected \in {0, target[t]}
    /\ target[t] # NotSaved <=> Completed(t)

LEMMA SettledIsVerified == TargetSettled => TargetVerified
BY CrcAssumption DEF TargetSettled, Completed, TargetVerified, NotSaved

IInv ==
  /\ TypeOK
  /\ NoUndefined
  /\ QueueConsistent
  /\ OneSignal
  /\ TargetSettled
  /\ TempFilesClosed

\* What is asked of the application, all of it about the constants.
Client == CleanUrls /\ DisciplinedHandlers /\ KeepIO = FALSE

LEMMA NestSplit == CallsNest <=> FramesDistinct /\ AbortAllOutermost /\ AbortedCleanedUp
BY DEF CallsNest, FramesDistinct, AbortAllOutermost, AbortedCleanedUp

\* A step that leaves the map and the DataStructs alone.
LEMMA FilesKept ==
  ASSUME FilesExact, UNCHANGED <<m_files, heap, request>>
  PROVE  /\ FilesExact' /\ Live' = Live
         /\ \A u : IsFirst(Key(u)) => IsFirst(Key(u))'
BY DEF FilesExact, Live, Keys, Key, IsFirst

\* A step that deletes one DataStruct together with its entry.
LEMMA FilesForget ==
  ASSUME TypeOK, FilesExact, NEW u \in Live,
         m_files' = [m_files EXCEPT ![Key(u)] = None],
         heap' = [heap EXCEPT ![u] = "deleted"],
         UNCHANGED request
  PROVE  /\ FilesExact' /\ Live' = Live \ {u}
         /\ \A t \in Live \ {u} : IsFirst(Key(t)) => IsFirst(Key(t))'
<1>1. u \in Transfer /\ Key(u) \in Str /\ m_files[Key(u)] = u
  <2>1. u \in Transfer /\ request[u] \in Request /\ m_files[Key(u)] = u
    BY DEF FilesExact, Live
  <2> QED BY <2>1, RequestAssumption, StrAssumption DEF Key
<1>2. Live' = Live \ {u}
  BY <1>1 DEF Live, TypeOK
<1>3. Keys' = Keys \ {Key(u)} /\ \A k \in Keys' : m_files'[k] = m_files[k]
  BY <1>1 DEF Keys, TypeOK
<1>4. \A t : Key(t)' = Key(t)
  BY DEF Key
<1>5. \A t \in Live : t # u => Key(t) # Key(u)
  BY <1>1 DEF FilesExact
<1>6. \A t \in Live \ {u} : Key(t) \in Str /\ m_files'[Key(t)] = m_files[Key(t)]
  BY <1>1, <1>5, RequestAssumption, StrAssumption DEF FilesExact, Key, TypeOK
<1>7. FilesExact'
  <2>1. \A k \in Keys' : m_files'[k] \in Live' /\ Key(m_files'[k]) = k
    <3> SUFFICES ASSUME NEW k \in Keys' PROVE m_files'[k] \in Live' /\ Key(m_files'[k]) = k
      OBVIOUS
    <3>1. k \in Keys /\ k # Key(u) /\ m_files'[k] = m_files[k]
      BY <1>3
    <3>2. m_files[k] \in Live /\ Key(m_files[k]) = k
      BY <3>1 DEF FilesExact
    <3> QED BY <1>2, <3>1, <3>2, <1>5, <1>1
  <2>2. \A t \in Live' : request'[t] \in Request /\ m_files'[Key(t)'] = t
    BY <1>2, <1>4, <1>6 DEF FilesExact
  <2> QED BY <1>3, <1>4, <2>1, <2>2 DEF FilesExact, Key
<1>8. \A t \in Live \ {u} : IsFirst(Key(t)) => IsFirst(Key(t))'
  <2> SUFFICES ASSUME NEW t \in Live \ {u}, IsFirst(Key(t)) PROVE IsFirst(Key(t))'
    OBVIOUS
  <2>1. Key(t) \in Keys' /\ \A j \in Keys' : Key(t) <= j
    BY <1>3, <1>5 DEF IsFirst
  <2> QED BY <1>4, <2>1 DEF IsFirst
<1> QED BY <1>2, <1>7, <1>8

\* What an abort does to the containers and to the history of its transfer.
LEMMA AbortEffect ==
  ASSUME IInv, NEW t \in Live, t \notin Signalling, AbortTransfer(t)
  PROVE  /\ HandlesDistinct'
         /\ Pending' \cup multi' = (Pending \cup multi) \ {t}
         /\ Pending' \cap multi' = {}
         /\ easy' = easy \ {t}
         /\ fp' \subseteq multi'
         /\ t \in Transfer
         /\ signals[t] = <<>>
         /\ signals' = [signals EXCEPT ![t] = <<"aborted">>]
<1>1. /\ t \in Pending \cup multi /\ t \in easy /\ t \in Transfer
      /\ m_handles \in Seq(Transfer) /\ HandlesDistinct
      /\ Pending \cap multi = {} /\ fp \subseteq multi
  BY DEF IInv, TypeOK, QueueConsistent, OnePlace, HandlesDistinct, TempFilesClosed, Live
<1>2. DropHandle(t) /\ easy' = easy \ {t} /\ fp' = fp \ {t}
  BY <1>1 DEF AbortTransfer, CloseTemp
<1>3. signals[t] = <<>>
  BY <1>1 DEF IInv, OneSignal
<1>4. signals' = [signals EXCEPT ![t] = <<"aborted">>]
  BY <1>1, <1>3 DEF AbortTransfer, Emit, IInv, TypeOK
<1>5. /\ HandlesDistinct'
      /\ \/ t \in Pending /\ Pending' = Pending \ {t} /\ multi' = multi
         \/ t \notin Pending /\ Pending' = Pending /\ multi' = multi \ {t}
  BY <1>1, <1>2, DropHandleEffect
<1> QED BY <1>1, <1>2, <1>3, <1>4, <1>5

\* None of the undefined cases can be reached.
LEMMA NoMisuse == ASSUME IInv PROVE ~Misuse
<1>1. FilesExact /\ OnePlace /\ stack \in Seq(Frame) /\ TypeOK
  BY DEF IInv, QueueConsistent, TypeOK
<1>2. InHandler => Head(stack).t \in Live /\ Filed(Head(stack).t)
  <2> SUFFICES ASSUME InHandler PROVE Head(stack).t \in Live /\ Filed(Head(stack).t)
    OBVIOUS
  <2>1. Head(stack) = stack[1] /\ 1 \in DOMAIN stack
    BY <1>1, PopElements, LenProperties DEF InHandler, Idle
  <2>2. Head(stack).t \in Signalling
    BY <2>1 DEF Signalling, InHandler
  <2>3. Head(stack).t \in Live
    BY <1>1, <2>2 DEF OnePlace
  <2>4. m_files[Key(Head(stack).t)] # None
    BY <1>1, <2>3, NoneAssumption DEF FilesExact, Live
  <2> QED BY <2>3, <2>4 DEF Filed, Live
<1>3. ~EraseWithoutEntry
  BY <1>2 DEF EraseWithoutEntry
<1>4. ~EraseFirstWithoutEntry
  <2> SUFFICES ASSUME At("abortAll", "signal") PROVE heap[Head(stack).t] = "live" /\ Keys # {}
    BY DEF EraseFirstWithoutEntry
  <2>1. Head(stack).t \in Live
    BY <1>2 DEF At, InHandler
  <2>2. Key(Head(stack).t) \in Keys
    BY <1>1, <2>1, NoneAssumption, RequestAssumption, StrAssumption
    DEF FilesExact, Live, Keys, Key
  <2> QED BY <2>1, <2>2 DEF Live
<1>5. \A k \in Keys : heap[m_files[k]] = "live"
  BY <1>1 DEF FilesExact, Live
<1>6. ~AddCleanedUpHandle
  <2> SUFFICES ASSUME At("poll", "loop") PROVE Added(Head(stack).num) \subseteq easy
    BY DEF AddCleanedUpHandle
  <2> DEFINE num == Head(stack).num
  <2>1. num \in Nat
    BY <1>1, TopFrame
  <2>2. Refill(num) \in 0..Len(m_handles) /\ Len(m_handles) \in Nat
        /\ m_handles \in Seq(Transfer)
    BY <1>1, <2>1, RefillBounds DEF TypeOK
  <2>3. \A i \in 1..Refill(num) : i \in DOMAIN m_handles
    BY <2>2, LenProperties
  <2>4. Added(num) \subseteq Pending
    BY <2>3 DEF Added, Pending
  <2> QED BY <1>1, <2>4 DEF OnePlace
<1> QED BY <1>3, <1>4, <1>5, <1>6 DEF Misuse, Undefined, AbortDeleted, FreeDeleted

-----------------------------------------------------------------------------
(* The invariant is kept: the calls that begin and end none of the others. *)

\* A step that changes neither the containers nor the calls in progress.
LEMMA KeptBySame ==
  ASSUME IInv, TypeOK',
         UNCHANGED <<m_files, m_handles, heap, request, easy, multi, fp, target,
                     signals, stack, undefined>>
  PROVE  IInv'
<1>1. FilesExact'
  BY FilesKept DEF IInv, QueueConsistent
<1>2. OnePlace' /\ CallsNest'
  BY DEF IInv, QueueConsistent, OnePlace, CallsNest, Live, Pending, Signalling, IsFirst,
         Keys, Key
<1>3. OneSignal' /\ TargetSettled' /\ TempFilesClosed' /\ NoUndefined'
  BY DEF IInv, OneSignal, TargetSettled, Completed, TempFilesClosed, NoUndefined, Pending
<1> QED BY <1>1, <1>2, <1>3 DEF IInv, QueueConsistent

LEMMA KeptByShutdown ==
  ASSUME IInv, Client, TypeOK', IOShutdown
  PROVE  IInv'
<1> USE DEF callVars, fileVars
<1>1. FilesExact /\ OnePlace /\ fp \subseteq multi /\ stack = <<>>
  BY DEF IInv, QueueConsistent, IOShutdown, Idle, TempFilesClosed
<1>2. Signalling = {}
  BY <1>1, EmptySeq DEF Signalling
<1>3. \A t \in Live : t \in {m_files[k] : k \in Keys}
  <2> SUFFICES ASSUME NEW t \in Live PROVE Key(t) \in Keys /\ m_files[Key(t)] = t
    OBVIOUS
  <2> QED BY <1>1, NoneAssumption, RequestAssumption, StrAssumption
          DEF FilesExact, Live, Keys, Key
<1>4. Live' = {} /\ easy' = {} /\ fp' = {}
  BY <1>1, <1>3 DEF IOShutdown, Live, OnePlace, IInv, TypeOK
<1>5. Keys' = {} /\ multi' = {} /\ m_handles' = <<>> /\ stack' = <<>>
  BY <1>1 DEF IOShutdown, Keys, Client
<1>6. Pending' = {} /\ Signalling' = {}
  BY <1>5, EmptySeq DEF Pending, Signalling
<1>7. FilesExact'
  BY <1>4, <1>5 DEF FilesExact
<1>8. OnePlace'
  BY <1>4, <1>5, <1>6, EmptySeq DEF OnePlace
<1>9. CallsNest'
  BY <1>5, EmptySeq DEF CallsNest
<1>10. OneSignal'
  BY <1>5, <1>6 DEF IOShutdown, IInv, OneSignal, TypeOK
<1>11. TargetSettled' /\ TempFilesClosed' /\ NoUndefined'
  BY <1>4 DEF IOShutdown, IInv, TargetSettled, Completed, TempFilesClosed, NoUndefined
<1> QED BY <1>7, <1>8, <1>9, <1>10, <1>11 DEF IInv, QueueConsistent

LEMMA KeptByQueueFile ==
  ASSUME IInv, Client, TypeOK', NEW r \in Request, QueueFile(r)
  PROVE  IInv'
<1> USE DEF callVars, fileVars
<1>1. PICK t \in Transfer :
        /\ heap[t] = "fresh"
        /\ heap' = [heap EXCEPT ![t] = "live"]
        /\ request' = [request EXCEPT ![t] = r]
        /\ easy' = easy \cup {t}
        /\ m_files' = [m_files EXCEPT ![encodeURL[r.url]] = t]
        /\ m_handles' = Append(m_handles, t)
  BY DEF QueueFile
<1>2. FilesExact /\ OnePlace /\ CallsNest /\ TypeOK
  BY DEF IInv, QueueConsistent
<1>3. r.url \in Str /\ encodeURL[r.url] = r.url /\ m_files[r.url] = None
  BY RequestAssumption DEF Client, CleanUrls, QueueFile, Refused
<1>4. Live' = Live \cup {t} /\ t \notin Live
  BY <1>1, <1>2 DEF Live, TypeOK
<1>5. Signalling' = Signalling
  BY DEF QueueFile, Signalling
<1>6. \A u \in Transfer : u # t => Key(u)' = Key(u)
  BY <1>1, <1>2 DEF Key, TypeOK
<1>7. Key(t)' = r.url
  BY <1>1, <1>2, <1>3 DEF Key, TypeOK
<1>8. FilesExact'
  <2>1. Keys' = Keys \cup {r.url} /\ m_files'[r.url] = t
        /\ \A k \in Keys : k # r.url /\ m_files'[k] = m_files[k]
    BY <1>1, <1>2, <1>3, NoneAssumption DEF Keys, TypeOK
  <2>2. ASSUME NEW k \in Keys PROVE m_files'[k] \in Live' /\ encodeURL[request'[m_files'[k]].url] = k
    <3>1. m_files[k] \in Live /\ m_files[k] # t /\ Key(m_files[k]) = k
      BY <1>2, <1>4 DEF FilesExact
    <3>2. request'[m_files[k]] = request[m_files[k]]
      BY <1>1, <1>2, <3>1 DEF TypeOK, Live
    <3> QED BY <1>4, <2>1, <3>1, <3>2 DEF Key
  <2>3. m_files'[r.url] \in Live' /\ encodeURL[request'[m_files'[r.url]].url] = r.url
    BY <1>4, <1>7, <2>1 DEF Key
  <2>4. ASSUME NEW u \in Live PROVE request'[u] \in Request /\ m_files'[Key(u)'] = u
    <3>1. u \in Transfer /\ u # t /\ request[u] \in Request /\ m_files[Key(u)] = u
      BY <1>2, <1>4 DEF FilesExact, Live
    <3>2. request'[u] = request[u] /\ Key(u)' = Key(u)
      BY <1>1, <1>2, <1>6, <3>1 DEF TypeOK
    <3>3. Key(u) \in Str /\ Key(u) # r.url
      BY <1>3, <3>1, NoneAssumption, RequestAssumption, StrAssumption DEF Key
    <3> QED BY <1>1, <1>2, <1>3, <3>1, <3>2, <3>3 DEF TypeOK
  <2>5. request'[t] \in Request /\ m_files'[Key(t)'] = t
    BY <1>1, <1>2, <1>7, <2>1 DEF TypeOK
  <2> QED BY <1>4, <2>1, <2>2, <2>3, <2>4, <2>5 DEF FilesExact, Key
<1>9. HandlesDistinct /\ m_handles \in Seq(Transfer) /\ t \notin Pending
  BY <1>2, <1>4 DEF OnePlace, HandlesDistinct, TypeOK
<1>10. HandlesDistinct' /\ Pending' = Pending \cup {t} /\ multi' = multi
  BY <1>1, <1>9, AppendEffect DEF QueueFile
<1>11. OnePlace'
  <2>1. /\ Live' = Pending' \cup multi' \cup Signalling'
        /\ Pending' \cap multi' = {}
        /\ (Pending' \cup multi') \cap Signalling' = {}
        /\ Pending' \cup multi' \subseteq easy'
        /\ easy' \subseteq Live'
    BY <1>1, <1>2, <1>4, <1>5, <1>10 DEF OnePlace
  <2> QED BY <1>10, <2>1 DEF OnePlace, HandlesDistinct
<1>12. CallsNest'
  <2>1. ~Aborting
    BY DEF QueueFile, CanCall, Client, DisciplinedHandlers, Idle, Aborting
  <2>2. FramesDistinct' /\ AbortAllOutermost'
    BY <1>2, <2>1 DEF QueueFile, CallsNest, FramesDistinct, AbortAllOutermost, Aborting
  <2>3. t \notin Signalling
    BY <1>2, <1>4 DEF OnePlace
  <2>4. AbortedCleanedUp'
    BY <1>1, <1>2, <2>3 DEF QueueFile, CallsNest, AbortedCleanedUp, Signalling
  <2> QED BY <2>2, <2>4 DEF CallsNest, FramesDistinct, AbortAllOutermost, AbortedCleanedUp
<1>13. signals' = signals /\ target' = target /\ fp' = fp /\ undefined' = undefined
  BY DEF QueueFile
<1>14. OneSignal'
  BY <1>1, <1>2, <1>10, <1>13 DEF IInv, OneSignal, TypeOK
<1>15. TargetSettled'
  <2>1. signals[t] = <<>>
    BY <1>1 DEF IInv, OneSignal
  <2>2. target[t] = NotSaved
    BY <2>1 DEF IInv, TargetSettled, Completed
  <2>3. target[t] \notin Crc
    BY <2>2, CrcAssumption DEF NotSaved
  <2>4. \A u \in Transfer : u # t => request'[u] = request[u]
    BY <1>1, <1>2 DEF TypeOK
  <2> QED BY <1>13, <2>2, <2>3, <2>4 DEF IInv, TargetSettled, Completed
<1>16. TempFilesClosed' /\ NoUndefined'
  BY <1>10, <1>13 DEF IInv, TempFilesClosed, NoUndefined
<1> QED BY <1>8, <1>11, <1>12, <1>14, <1>15, <1>16 DEF IInv, QueueConsistent

-----------------------------------------------------------------------------
(* The invariant is kept: calls that begin, loop and end.                  *)

\* The parts of the invariant that hold of the calls in progress.
LEMMA InvStack ==
  ASSUME IInv
  PROVE  /\ TypeOK /\ stack \in Seq(Frame) /\ FilesExact /\ OnePlace
         /\ FramesDistinct /\ AbortAllOutermost /\ AbortedCleanedUp /\ HandlesDistinct
         /\ fp \subseteq multi
BY NestSplit DEF IInv, QueueConsistent, TypeOK, OnePlace, HandlesDistinct, TempFilesClosed

\* A transfer whose handler is running: its frame is the top one.
LEMMA TopSignal ==
  ASSUME IInv, NEW op, At(op, "signal")
  PROVE  /\ stack # <<>> /\ Head(stack).t \in Signalling /\ Head(stack).t \in Live
         /\ Head(stack) = stack[1] /\ 1 \in DOMAIN stack
<1>1. stack # <<>> /\ Head(stack) = stack[1] /\ 1 \in DOMAIN stack
  BY InvStack, TopFrame
<1>2. Head(stack).t \in Signalling
  BY <1>1 DEF Signalling, At
<1> QED BY <1>1, <1>2, InvStack DEF OnePlace

LEMMA KeptByPoll ==
  ASSUME IInv, TypeOK', NEW finished \in SUBSET Running, Poll(finished)
  PROVE  IInv'
<1> USE DEF ioVars, heapVars, fileVars
<1> DEFINE f == Loop("poll", Cardinality(Running \ finished))
<1>1. f \in Frame
  <2>1. Running \ finished \subseteq Transfer
    BY DEF Running, IInv, TypeOK
  <2> QED BY <2>1, TransferAssumption, FS_Subset, FS_CardinalityType, FrameTypes
<1>2. f.at = "loop" /\ f.op = "poll"
  BY DEF Loop
<1>3. Push(f)
  BY DEF Poll
<1> HIDE DEF f
<1>4. Signalling' = Signalling
  BY <1>1, <1>2, <1>3, SignallingPush, InvStack
<1>5. FramesDistinct' /\ AbortAllOutermost'
  BY <1>1, <1>2, <1>3, NestPush, InvStack DEF Poll
<1>6. FilesExact' /\ Live' = Live
  BY InvStack, FilesKept DEF Poll
<1>7. Pending' = Pending /\ multi' = multi /\ easy' = easy /\ m_handles' = m_handles
  BY DEF Poll, Pending
<1>8. OnePlace'
  BY <1>4, <1>6, <1>7, InvStack DEF OnePlace
<1>9. CallsNest'
  <2>1. AbortedCleanedUp'
    BY <1>1, <1>2, <1>3, <1>7, CleanedUpPush, InvStack DEF NoneReopened
  <2> QED BY <1>5, <2>1 DEF CallsNest, FramesDistinct, AbortAllOutermost, AbortedCleanedUp
<1>10. TempFilesClosed'
  BY <1>7, InvStack DEF Poll, Running, TempFilesClosed
<1>11. OneSignal' /\ TargetSettled' /\ NoUndefined'
  BY <1>7 DEF Poll, IInv, OneSignal, TargetSettled, Completed, NoUndefined
<1> QED BY <1>6, <1>8, <1>9, <1>10, <1>11 DEF IInv, QueueConsistent

LEMMA KeptByAbortAll ==
  ASSUME IInv, Client, TypeOK', AbortAll
  PROVE  IInv'
<1> USE DEF ioVars, heapVars, curlVars, fileVars
<1> DEFINE f == Loop("abortAll", 0)
<1>1. f \in Frame /\ f.at = "loop" /\ Push(f)
  BY FrameTypes DEF AbortAll, Loop
<1>2. stack = <<>>
  BY DEF AbortAll, CanNest, CanCall, Client, DisciplinedHandlers, Idle
<1> HIDE DEF f
<1>3. Signalling' = Signalling
  BY <1>1, SignallingPush, InvStack
<1>4. FramesDistinct' /\ AbortAllOutermost'
  BY <1>1, <1>2, NestPush, InvStack DEF AbortAll
<1>5. FilesExact' /\ Live' = Live
  BY InvStack, FilesKept DEF AbortAll
<1>6. OnePlace'
  BY <1>3, <1>5, InvStack DEF AbortAll, OnePlace, Pending
<1>7. CallsNest'
  <2>1. AbortedCleanedUp'
    BY <1>1, CleanedUpPush, InvStack DEF NoneReopened, AbortAll
  <2> QED BY <1>4, <2>1 DEF CallsNest, FramesDistinct, AbortAllOutermost, AbortedCleanedUp
<1>8. OneSignal' /\ TargetSettled' /\ TempFilesClosed' /\ NoUndefined'
  BY DEF AbortAll, IInv, OneSignal, TargetSettled, Completed, TempFilesClosed, NoUndefined,
         Pending
<1> QED BY <1>5, <1>6, <1>7, <1>8 DEF IInv, QueueConsistent

\* A transfer that gets its one signal and is handled in a frame of its own.
LEMMA OneSignalOfAbort ==
  ASSUME IInv, NEW t \in Live, t \notin Signalling, AbortTransfer(t),
         UNCHANGED <<heap, request, target>>
  PROVE  OneSignal' /\ TargetSettled'
<1>1. /\ t \in Transfer /\ signals[t] = <<>>
      /\ signals' = [signals EXCEPT ![t] = <<"aborted">>]
      /\ Pending' \cup multi' = (Pending \cup multi) \ {t}
  BY AbortEffect
<1>2. OneSignal'
  BY <1>1 DEF IInv, OneSignal, TypeOK, Live
<1>3. TargetSettled'
  <2>1. Head(<<"aborted">>) # "complete"
    OBVIOUS
  <2> QED BY <1>1, <2>1 DEF IInv, TargetSettled, Completed, TypeOK
<1> QED BY <1>2, <1>3

LEMMA KeptByAbortDownload ==
  ASSUME IInv, Client, TypeOK', NEW filename \in Str, AbortDownload(filename)
  PROVE  IInv'
<1> USE DEF heapVars, fileVars
<1>1. PICK t \in Live :
        /\ t \in Transfer /\ AbortTransfer(t) /\ CanNest(AbortOp(t))
        /\ Push(Signal("abortDownload", t, 0))
  BY NoneAssumption DEF AbortDownload, IInv, TypeOK, Live
<1> DEFINE f == Signal("abortDownload", t, 0)
<1>2. t \notin Signalling
  <2> SUFFICES ASSUME t \in Signalling PROVE FALSE
    OBVIOUS
  <2>1. Idle
    BY <1>1 DEF CanNest, CanCall, AbortOp, Client, DisciplinedHandlers
  <2>2. Signalling = {}
    BY <2>1, EmptySeq DEF Idle, Signalling
  <2> QED BY <2>2
<1>3. Push(f) /\ f \in Frame /\ f.at = "signal" /\ f.op = "abortDownload" /\ f.t = t
  BY <1>1, FrameTypes DEF Signal
<1> HIDE DEF f
<1>4. Signalling' = Signalling \cup {t}
  BY <1>1, <1>3, SignallingPush, InvStack
<1>5. FramesDistinct' /\ AbortAllOutermost'
  BY <1>1, <1>2, <1>3, NestPush, InvStack DEF AbortDownload
<1>6. FilesExact' /\ Live' = Live
  BY InvStack, FilesKept DEF AbortDownload
<1>7. /\ HandlesDistinct'
      /\ Pending' \cup multi' = (Pending \cup multi) \ {t}
      /\ Pending' \cap multi' = {}
      /\ easy' = easy \ {t}
      /\ fp' \subseteq multi'
  BY <1>1, <1>2, AbortEffect
<1>8. OnePlace'
  <2>1. /\ Live' = Pending' \cup multi' \cup Signalling'
        /\ (Pending' \cup multi') \cap Signalling' = {}
        /\ Pending' \cup multi' \subseteq easy'
        /\ easy' \subseteq Live'
    BY <1>1, <1>4, <1>6, <1>7, InvStack DEF OnePlace
  <2> QED BY <1>7, <2>1 DEF OnePlace, HandlesDistinct
<1>9. CallsNest'
  <2>1. AbortedCleanedUp'
    BY <1>3, <1>7, CleanedUpPush, InvStack DEF NoneReopened
  <2> QED BY <1>5, <2>1 DEF CallsNest, FramesDistinct, AbortAllOutermost, AbortedCleanedUp
<1>10. OneSignal' /\ TargetSettled'
  BY <1>1, <1>2, OneSignalOfAbort DEF AbortDownload
<1>11. TempFilesClosed' /\ NoUndefined'
  BY <1>7 DEF AbortDownload, IInv, TempFilesClosed, NoUndefined
<1> QED BY <1>6, <1>8, <1>9, <1>10, <1>11 DEF IInv, QueueConsistent

LEMMA KeptByAbortAllNext ==
  ASSUME IInv, TypeOK', AbortAllNext
  PROVE  IInv'
<1> USE DEF heapVars, fileVars
<1>1. PICK first \in Keys :
        /\ IsFirst(first)
        /\ heap[m_files[first]] = "live"
        /\ AbortTransfer(m_files[first])
        /\ stack' = <<Signal("abortAll", m_files[first], 0)>> \o Tail(stack)
  BY DEF AbortAllNext
<1>2. PICK t \in Live :
        /\ t = m_files[first] /\ t \in Transfer /\ AbortTransfer(t) /\ Key(t) = first
  BY <1>1, InvStack DEF FilesExact, Live
<1> DEFINE f == Signal("abortAll", t, 0)
<1>3. /\ stack # <<>> /\ Head(stack) = stack[1] /\ 1 \in DOMAIN stack /\ Len(stack) \in Nat
      /\ Head(stack).op = "abortAll" /\ Head(stack).at = "loop"
  BY InvStack, TopFrame DEF AbortAllNext, At
<1>4. Len(stack) = 1
  BY <1>3, InvStack DEF AbortAllOutermost
<1>5. Signalling = {}
  <2>1. \A i \in DOMAIN stack : i = 1
    BY <1>4, InvStack, LenProperties
  <2> QED BY <1>3, <2>1 DEF Signalling
<1>6. f \in Frame /\ f.at = "signal" /\ f.op = "abortAll" /\ f.t = t
  BY <1>2, FrameTypes DEF Signal
<1>7. FilesExact' /\ Live' = Live /\ IsFirst(Key(t))'
  <2>1. IsFirst(Key(t))
    BY <1>1, <1>2
  <2>2. UNCHANGED <<m_files, heap, request>>
    BY DEF AbortAllNext
  <2> QED BY <2>1, <2>2, InvStack, FilesKept
<1>8. stack' = <<f>> \o Tail(stack)
  BY <1>1, <1>2
<1> HIDE DEF f
<1>9. Signalling' = Signalling \cup {t}
  BY <1>3, <1>6, <1>8, SignallingTop, InvStack
<1>10. FramesDistinct' /\ AbortAllOutermost'
  <2>1. 2..Len(stack) = {}
    BY <1>4
  <2>2. IsFirst(Key(f.t))'
    BY <1>6, <1>7
  <2> QED BY <1>2, <1>3, <1>5, <1>6, <1>8, <2>1, <2>2, NestTop, InvStack
<1>11. /\ HandlesDistinct'
       /\ Pending' \cup multi' = (Pending \cup multi) \ {t}
       /\ Pending' \cap multi' = {}
       /\ easy' = easy \ {t}
       /\ fp' \subseteq multi'
  BY <1>2, <1>5, AbortEffect
<1>12. OnePlace'
  <2>1. /\ Live' = Pending' \cup multi' \cup Signalling'
        /\ (Pending' \cup multi') \cap Signalling' = {}
        /\ Pending' \cup multi' \subseteq easy'
        /\ easy' \subseteq Live'
    BY <1>2, <1>5, <1>7, <1>9, <1>11, InvStack DEF OnePlace
  <2> QED BY <1>11, <2>1 DEF OnePlace, HandlesDistinct
<1>13. CallsNest'
  <2>1. AbortedCleanedUp'
    BY <1>3, <1>6, <1>8, <1>11, CleanedUpTop, InvStack DEF NoneReopened
  <2> QED BY <1>10, <2>1 DEF CallsNest, FramesDistinct, AbortAllOutermost, AbortedCleanedUp
<1>14. OneSignal' /\ TargetSettled'
  BY <1>2, <1>5, OneSignalOfAbort DEF AbortAllNext
<1>15. TempFilesClosed' /\ NoUndefined'
  BY <1>11 DEF AbortAllNext, IInv, TempFilesClosed, NoUndefined
<1> QED BY <1>7, <1>12, <1>13, <1>14, <1>15 DEF IInv, QueueConsistent

\* The end of a round of poll, and the end of abortDownload and of a round of
\* abortAll: a transfer whose handler has returned is forgotten.
LEMMA ForgottenContainers ==
  ASSUME IInv, TypeOK', NEW u \in Live, u \in Signalling,
         m_files' = [m_files EXCEPT ![Key(u)] = None],
         heap' = [heap EXCEPT ![u] = "deleted"],
         easy' = easy \/ easy' = easy \ {u},
         easy' \subseteq Live',
         Signalling' = Signalling \ {u},
         UNCHANGED <<m_handles, request, multi, fp, target, signals, undefined>>
  PROVE  /\ FilesExact' /\ OnePlace' /\ OneSignal' /\ TargetSettled'
         /\ TempFilesClosed' /\ NoUndefined'
<1>1. FilesExact' /\ Live' = Live \ {u}
  BY InvStack, FilesForget
<1>2. Pending' = Pending
  BY DEF Pending
<1>3. OnePlace'
  <2>1. /\ Live' = Pending' \cup multi' \cup Signalling'
        /\ Pending' \cap multi' = {}
        /\ (Pending' \cup multi') \cap Signalling' = {}
        /\ Pending' \cup multi' \subseteq easy'
    BY <1>1, <1>2, InvStack DEF OnePlace
  <2> QED BY <2>1, InvStack DEF OnePlace
<1>4. OneSignal'
  BY <1>2 DEF IInv, OneSignal, TypeOK, Live
<1>5. TargetSettled' /\ TempFilesClosed' /\ NoUndefined'
  BY DEF IInv, TargetSettled, Completed, TempFilesClosed, NoUndefined
<1> QED BY <1>1, <1>3, <1>4, <1>5

\* Forgetting the transfer of the top frame leaves the DataStruct of an abortAll
\* below it the first of m_files.
LEMMA OthersStayFirst ==
  ASSUME IInv, NEW op, At(op, "signal"), NEW u \in Live, u = Head(stack).t,
         m_files' = [m_files EXCEPT ![Key(u)] = None],
         heap' = [heap EXCEPT ![u] = "deleted"],
         UNCHANGED request
  PROVE  \A i \in 2..Len(stack), v \in Transfer :
           stack[i].op = "abortAll" /\ stack[i].at = "signal" /\ stack[i].t = v =>
             IsFirst(Key(v))'
<1> SUFFICES ASSUME NEW i \in 2..Len(stack), NEW v \in Transfer,
                    stack[i].op = "abortAll", stack[i].at = "signal", stack[i].t = v
             PROVE  IsFirst(Key(v))'
  OBVIOUS
<1>1. i \in DOMAIN stack /\ i # 1
  BY InvStack, LenProperties
<1>2. stack[1].at = "signal" /\ stack[1].t = u /\ 1 \in DOMAIN stack
  BY TopSignal DEF At
<1>3. v # u
  BY <1>1, <1>2, InvStack DEF FramesDistinct
<1>4. v \in Live
  BY <1>1, InvStack DEF OnePlace, Signalling
<1>5. IsFirst(Key(v))
  BY <1>1, InvStack DEF AbortAllOutermost
<1> QED BY <1>3, <1>4, <1>5, FilesForget, InvStack

LEMMA KeptByPollForget ==
  ASSUME IInv, TypeOK', PollForget
  PROVE  IInv'
<1> USE DEF fileVars
<1>1. PICK u \in Live :
        /\ u = Head(stack).t /\ u \in Signalling
        /\ m_files' = [m_files EXCEPT ![Key(u)] = None]
        /\ easy' = easy \ {u}
        /\ heap' = [heap EXCEPT ![u] = "deleted"]
        /\ stack' = <<Loop("poll", Head(stack).num)>> \o Tail(stack)
  BY TopSignal DEF PollForget
<1>2. stack # <<>> /\ Head(stack).at = "signal" /\ Head(stack).op = "poll"
      /\ Head(stack).num \in Nat
  BY InvStack, TopFrame DEF PollForget, At
<1>3. PICK f \in Frame : /\ f = Loop("poll", Head(stack).num)
                         /\ f.at = "loop" /\ f.op = "poll"
  BY <1>2, FrameTypes DEF Loop
<1>4. Signalling' = Signalling \ {u}
  BY <1>1, <1>2, <1>3, SignallingTop, InvStack
<1>5. Live' = Live \ {u}
  BY <1>1, FilesForget, InvStack DEF PollForget
<1>6. easy' \subseteq Live'
  BY <1>1, <1>5, InvStack DEF OnePlace
<1>7. /\ FilesExact' /\ OnePlace' /\ OneSignal' /\ TargetSettled'
      /\ TempFilesClosed' /\ NoUndefined'
  BY <1>1, <1>4, <1>6, ForgottenContainers DEF PollForget
<1>8. FramesDistinct' /\ AbortAllOutermost'
  <2>1. \A i \in 2..Len(stack), v \in Transfer :
          stack[i].op = "abortAll" /\ stack[i].at = "signal" /\ stack[i].t = v =>
            IsFirst(Key(v))'
    BY <1>1, OthersStayFirst DEF PollForget
  <2> QED BY <1>1, <1>2, <1>3, <2>1, NestTop, InvStack
<1>9. CallsNest'
  <2>1. AbortedCleanedUp'
    BY <1>1, <1>2, <1>3, CleanedUpTop, InvStack DEF NoneReopened
  <2> QED BY <1>8, <2>1 DEF CallsNest, FramesDistinct, AbortAllOutermost, AbortedCleanedUp
<1> QED BY <1>7, <1>9 DEF IInv, QueueConsistent

LEMMA KeptByAbortDownloadReturn ==
  ASSUME IInv, TypeOK', AbortDownloadReturn
  PROVE  IInv'
<1> USE DEF fileVars, curlVars
<1>1. PICK u \in Live :
        /\ u = Head(stack).t /\ u \in Signalling
        /\ m_files' = [m_files EXCEPT ![Key(u)] = None]
        /\ heap' = [heap EXCEPT ![u] = "deleted"]
        /\ stack' = Tail(stack)
  BY TopSignal DEF AbortDownloadReturn
<1>2. stack # <<>> /\ Head(stack).at = "signal"
  BY InvStack, TopFrame DEF AbortDownloadReturn, At
<1>3. Signalling' = Signalling \ {u}
  BY <1>1, <1>2, SignallingPop, InvStack
<1>4. Live' = Live \ {u}
  BY <1>1, FilesForget, InvStack DEF AbortDownloadReturn
<1>5. easy' \subseteq Live'
  <2>1. u \notin easy
    BY <1>1, <1>2, TopSignal, InvStack DEF AbortDownloadReturn, At, AbortedCleanedUp
  <2> QED BY <1>4, <2>1, InvStack DEF AbortDownloadReturn, OnePlace
<1>6. /\ FilesExact' /\ OnePlace' /\ OneSignal' /\ TargetSettled'
      /\ TempFilesClosed' /\ NoUndefined'
  BY <1>1, <1>3, <1>5, ForgottenContainers DEF AbortDownloadReturn
<1>7. FramesDistinct' /\ AbortAllOutermost'
  <2>1. \A i \in 2..Len(stack), v \in Transfer :
          stack[i].op = "abortAll" /\ stack[i].at = "signal" /\ stack[i].t = v =>
            IsFirst(Key(v))'
    BY <1>1, OthersStayFirst DEF AbortDownloadReturn
  <2> QED BY <1>1, <1>2, <2>1, NestPop, InvStack
<1>8. CallsNest'
  <2>1. AbortedCleanedUp'
    BY <1>1, <1>2, CleanedUpPop, InvStack DEF NoneReopened, AbortDownloadReturn
  <2> QED BY <1>7, <2>1 DEF CallsNest, FramesDistinct, AbortAllOutermost, AbortedCleanedUp
<1> QED BY <1>6, <1>8 DEF IInv, QueueConsistent

LEMMA KeptByAbortAllForget ==
  ASSUME IInv, TypeOK', AbortAllForget
  PROVE  IInv'
<1> USE DEF fileVars, curlVars
<1>1. PICK u \in Live : u = Head(stack).t /\ u \in Signalling
  BY TopSignal DEF AbortAllForget
<1>2. /\ stack # <<>> /\ Head(stack) = stack[1] /\ 1 \in DOMAIN stack /\ Len(stack) \in Nat
      /\ Head(stack).op = "abortAll" /\ Head(stack).at = "signal"
  BY InvStack, TopFrame DEF AbortAllForget, At
<1>3. Len(stack) = 1 /\ IsFirst(Key(u))
  BY <1>1, <1>2, InvStack DEF AbortAllOutermost
<1>4. Key(u) \in Str /\ Str \subseteq Nat
  BY <1>1, InvStack, RequestAssumption, StrAssumption DEF FilesExact, Key
<1>5. /\ m_files' = [m_files EXCEPT ![Key(u)] = None]
      /\ heap' = [heap EXCEPT ![u] = "deleted"]
      /\ stack' = <<Loop("abortAll", 0)>> \o Tail(stack)
  <2>1. PICK first \in Keys : IsFirst(first) /\ m_files' = [m_files EXCEPT ![first] = None]
    BY DEF AbortAllForget
  <2>2. first = Key(u)
    <3>1. first <= Key(u) /\ Key(u) <= first /\ first \in Nat /\ Key(u) \in Nat
      BY <1>3, <1>4, <2>1 DEF IsFirst, Keys
    <3> QED BY <3>1
  <2> QED BY <1>1, <2>1, <2>2 DEF AbortAllForget
<1>6. PICK f \in Frame : f = Loop("abortAll", 0) /\ f.at = "loop" /\ f.op = "abortAll"
  <2>1. Loop("abortAll", 0) \in Frame
    BY FrameTypes
  <2> QED BY <2>1 DEF Loop
<1>7. Signalling' = Signalling \ {u}
  BY <1>1, <1>2, <1>5, <1>6, SignallingTop, InvStack
<1>8. Live' = Live \ {u}
  BY <1>5, FilesForget, InvStack DEF AbortAllForget
<1>9. easy' \subseteq Live'
  <2>1. u \notin easy
    BY <1>1, <1>2, InvStack DEF AbortedCleanedUp
  <2> QED BY <1>8, <2>1, InvStack DEF AbortAllForget, OnePlace
<1>10. /\ FilesExact' /\ OnePlace' /\ OneSignal' /\ TargetSettled'
       /\ TempFilesClosed' /\ NoUndefined'
  BY <1>1, <1>5, <1>7, <1>9, ForgottenContainers DEF AbortAllForget
<1>11. FramesDistinct' /\ AbortAllOutermost'
  <2>1. 2..Len(stack) = {}
    BY <1>3
  <2> QED BY <1>2, <1>5, <1>6, <2>1, NestTop, InvStack
<1>12. CallsNest'
  <2>1. AbortedCleanedUp'
    BY <1>2, <1>5, <1>6, CleanedUpTop, InvStack DEF NoneReopened, AbortAllForget
  <2> QED BY <1>11, <2>1 DEF CallsNest, FramesDistinct, AbortAllOutermost, AbortedCleanedUp
<1> QED BY <1>10, <1>12 DEF IInv, QueueConsistent

LEMMA KeptByAbortAllReturn ==
  ASSUME IInv, TypeOK', AbortAllReturn
  PROVE  IInv'
<1> USE DEF ioVars, heapVars, curlVars, fileVars
<1>1. stack # <<>> /\ Head(stack).at = "loop" /\ stack' = Tail(stack)
  BY InvStack, TopFrame DEF AbortAllReturn, At
<1>2. FilesExact' /\ Live' = Live
  BY InvStack, FilesKept DEF AbortAllReturn
<1>3. Signalling' = Signalling
  BY <1>1, SignallingPop, InvStack
<1>4. OnePlace'
  BY <1>2, <1>3, InvStack DEF AbortAllReturn, OnePlace, Pending
<1>5. FramesDistinct' /\ AbortAllOutermost'
  <2>1. \A i \in 2..Len(stack), v \in Transfer :
          stack[i].op = "abortAll" /\ stack[i].at = "signal" /\ stack[i].t = v =>
            IsFirst(Key(v))'
    <3> SUFFICES ASSUME NEW i \in 2..Len(stack), NEW v \in Transfer,
                        stack[i].op = "abortAll", stack[i].at = "signal", stack[i].t = v
                 PROVE  IsFirst(Key(v))'
      OBVIOUS
    <3>1. i \in DOMAIN stack
      BY InvStack, LenProperties
    <3>2. IsFirst(Key(v))
      BY <3>1, InvStack DEF AbortAllOutermost
    <3> QED BY <3>2, InvStack, FilesKept DEF AbortAllReturn
  <2> QED BY <1>1, <2>1, NestPop, InvStack
<1>6. CallsNest'
  <2>1. AbortedCleanedUp'
    BY <1>1, CleanedUpPop, InvStack DEF NoneReopened, AbortAllReturn
  <2> QED BY <1>5, <2>1 DEF CallsNest, FramesDistinct, AbortAllOutermost, AbortedCleanedUp
<1>7. OneSignal' /\ TargetSettled' /\ TempFilesClosed' /\ NoUndefined'
  BY DEF AbortAllReturn, IInv, OneSignal, TargetSettled, Completed, TempFilesClosed, NoUndefined,
         Pending
<1> QED BY <1>2, <1>4, <1>6, <1>7 DEF IInv, QueueConsistent

LEMMA KeptByPollReturn ==
  ASSUME IInv, TypeOK', PollReturn
  PROVE  IInv'
<1> USE DEF heapVars, fileVars
<1>1. PICK num \in Nat :
        /\ num = Head(stack).num
        /\ Added(num) \subseteq easy
        /\ multi' = multi \cup Added(num)
        /\ m_handles' = SubSeq(m_handles, Refill(num) + 1, Len(m_handles))
  BY InvStack, TopFrame DEF PollReturn
<1>2. stack # <<>> /\ Head(stack).at = "loop" /\ stack' = Tail(stack)
  BY InvStack, TopFrame DEF PollReturn, At
<1>3. FilesExact' /\ Live' = Live
  BY InvStack, FilesKept DEF PollReturn
<1>4. Signalling' = Signalling
  BY <1>2, SignallingPop, InvStack
<1>5. HandlesDistinct' /\ Pending' = Pending \ Added(num) /\ Added(num) \subseteq Pending
  BY <1>1, InvStack, RefillEffect
<1>6. OnePlace'
  <2>1. /\ Live' = Pending' \cup multi' \cup Signalling'
        /\ Pending' \cap multi' = {}
        /\ (Pending' \cup multi') \cap Signalling' = {}
        /\ Pending' \cup multi' \subseteq easy'
        /\ easy' \subseteq Live'
    BY <1>1, <1>3, <1>4, <1>5, InvStack DEF OnePlace, PollReturn
  <2> QED BY <1>5, <2>1 DEF OnePlace, HandlesDistinct
<1>7. FramesDistinct' /\ AbortAllOutermost'
  <2>1. \A i \in 2..Len(stack), v \in Transfer :
          stack[i].op = "abortAll" /\ stack[i].at = "signal" /\ stack[i].t = v =>
            IsFirst(Key(v))'
    <3> SUFFICES ASSUME NEW i \in 2..Len(stack), NEW v \in Transfer,
                        stack[i].op = "abortAll", stack[i].at = "signal", stack[i].t = v
                 PROVE  IsFirst(Key(v))'
      OBVIOUS
    <3>1. i \in DOMAIN stack
      BY InvStack, LenProperties
    <3>2. IsFirst(Key(v))
      BY <3>1, InvStack DEF AbortAllOutermost
    <3> QED BY <3>2, InvStack, FilesKept DEF PollReturn
  <2> QED BY <1>2, <2>1, NestPop, InvStack
<1>8. CallsNest'
  <2>1. AbortedCleanedUp'
    BY <1>2, CleanedUpPop, InvStack DEF NoneReopened, PollReturn
  <2> QED BY <1>7, <2>1 DEF CallsNest, FramesDistinct, AbortAllOutermost, AbortedCleanedUp
<1>9. OneSignal'
  <2>1. Pending' \cup multi' = Pending \cup multi
    BY <1>1, <1>5
  <2> QED BY <2>1 DEF PollReturn, IInv, OneSignal
<1>10. TargetSettled' /\ TempFilesClosed' /\ NoUndefined'
  BY <1>1 DEF PollReturn, IInv, TargetSettled, Completed, TempFilesClosed, NoUndefined
<1> QED BY <1>3, <1>6, <1>8, <1>9, <1>10 DEF IInv, QueueConsistent

LEMMA KeptByPollMessage ==
  ASSUME IInv, TypeOK', NEW t \in Transfer, PollMessage(t)
  PROVE  IInv'
<1>1. /\ t \in multi /\ multi' = multi \ {t} /\ fp' = fp \ {t}
      /\ stack' = <<Signal("poll", t, Head(stack).num)>> \o Tail(stack)
      /\ UNCHANGED <<m_files, m_handles, heap, request, easy, undefined>>
  BY DEF PollMessage, Finished, CloseTemp, ioVars, heapVars
<1>2. stack # <<>> /\ Head(stack).at = "loop" /\ Head(stack).op = "poll"
      /\ Head(stack).num \in Nat
  BY InvStack, TopFrame DEF PollMessage, At
<1>3. PICK f \in Frame : /\ f = Signal("poll", t, Head(stack).num)
                         /\ f.at = "signal" /\ f.op = "poll" /\ f.t = t
  BY <1>2, FrameTypes DEF Signal
<1>4. t \notin Signalling /\ t \notin Pending
  BY <1>1, InvStack DEF OnePlace
<1>5. Signalling' = Signalling \cup {t}
  BY <1>1, <1>2, <1>3, SignallingTop, InvStack
<1>6. FilesExact' /\ Live' = Live
  BY <1>1, InvStack, FilesKept
<1>7. Pending' = Pending
  BY <1>1 DEF Pending
<1>8. OnePlace'
  <2>1. /\ Live' = Pending' \cup multi' \cup Signalling'
        /\ Pending' \cap multi' = {}
        /\ (Pending' \cup multi') \cap Signalling' = {}
        /\ Pending' \cup multi' \subseteq easy'
        /\ easy' \subseteq Live'
    BY <1>1, <1>4, <1>5, <1>6, <1>7, InvStack DEF OnePlace
  <2> QED BY <1>1, <2>1, InvStack DEF OnePlace
<1>9. FramesDistinct' /\ AbortAllOutermost'
  <2>1. \A i \in 2..Len(stack), v \in Transfer :
          stack[i].op = "abortAll" /\ stack[i].at = "signal" /\ stack[i].t = v =>
            IsFirst(Key(v))'
    <3> SUFFICES ASSUME NEW i \in 2..Len(stack), NEW v \in Transfer,
                        stack[i].op = "abortAll", stack[i].at = "signal", stack[i].t = v
                 PROVE  IsFirst(Key(v))'
      OBVIOUS
    <3>1. i \in DOMAIN stack
      BY InvStack, LenProperties
    <3>2. IsFirst(Key(v))
      BY <3>1, InvStack DEF AbortAllOutermost
    <3> QED BY <1>1, <3>2, InvStack, FilesKept
  <2> QED BY <1>1, <1>2, <1>3, <1>4, <2>1, NestTop, InvStack
<1>10. CallsNest'
  <2>1. AbortedCleanedUp'
    BY <1>1, <1>2, <1>3, CleanedUpTop, InvStack DEF NoneReopened
  <2> QED BY <1>9, <2>1 DEF CallsNest, FramesDistinct, AbortAllOutermost, AbortedCleanedUp
<1>11. signals[t] = <<>> /\ target[t] = NotSaved
  BY <1>1 DEF IInv, OneSignal, TargetSettled, Completed
<1>12. PICK outcome \in {"complete", "failed"} :
         /\ signals' = [signals EXCEPT ![t] = <<outcome>>]
         /\ \/ outcome = "complete" /\ Verified(t) /\ CopyFile(t)
            \/ outcome = "failed" /\ UNCHANGED target
  BY <1>11 DEF PollMessage, Emit, fileVars, IInv, TypeOK
<1>13. OneSignal'
  <2>1. heap[t] = "live"
    BY <1>1, InvStack DEF OnePlace, Live
  <2>2. Len(signals'[t]) <= 1
    <3>1. signals'[t] = <<outcome>>
      BY <1>12 DEF IInv, TypeOK
    <3>2. Len(<<outcome>>) <= 1
      OBVIOUS
    <3> QED BY <3>1, <3>2, Zenon
  <2>3. \A u \in Transfer : u # t => signals'[u] = signals[u]
    BY <1>12 DEF IInv, TypeOK
  <2>4. t \notin Pending' \cup multi' /\ heap'[t] = "live"
        /\ Pending' \cup multi' \subseteq Pending \cup multi /\ heap' = heap
    BY <1>1, <1>4, <1>7, <2>1
  <2>5. ASSUME NEW u \in Transfer
        PROVE  /\ Len(signals'[u]) <= 1
               /\ heap'[u] = "fresh" \/ u \in Pending' \cup multi' => signals'[u] = <<>>
    <3>1. CASE u = t
      <4>1. ~(heap'[t] = "fresh") /\ t \notin Pending' \cup multi'
        BY <2>4
      <4> QED BY <2>2, <3>1, <4>1, Zenon
    <3>2. CASE u # t
      BY <2>3, <2>4, <3>2 DEF IInv, OneSignal
    <3> QED BY <3>1, <3>2
  <2> QED BY <2>5 DEF OneSignal
<1>14. TargetSettled'
  <2>1. ASSUME NEW u \in Transfer, u # t
        PROVE  target'[u] = target[u] /\ signals'[u] = signals[u]
    BY <1>12, <2>1 DEF CopyFile, IInv, TypeOK
  <2>2. ASSUME target'[t] \in Crc PROVE request[t].expected \in {0, target'[t]}
    BY <1>11, <1>12, <2>2, CrcAssumption
    DEF CopyFile, Verified, IInv, TypeOK, NotSaved, Truncated
  <2>3. target'[t] # NotSaved <=> outcome = "complete"
    BY <1>11, <1>12, CrcAssumption DEF CopyFile, Verified, IInv, TypeOK, NotSaved, Truncated
  <2>4. signals'[t] = <<outcome>>
    BY <1>12 DEF IInv, TypeOK
  <2>5. Completed(t)' <=> outcome = "complete"
    BY <2>4 DEF Completed
  <2> QED BY <1>1, <2>1, <2>2, <2>3, <2>5 DEF IInv, TargetSettled, Completed
<1>15. TempFilesClosed' /\ NoUndefined'
  BY <1>1 DEF IInv, TempFilesClosed, NoUndefined
<1> QED BY <1>6, <1>8, <1>10, <1>13, <1>14, <1>15 DEF IInv, QueueConsistent

-----------------------------------------------------------------------------
(* The theorems.                                                           *)

LEMMA InvStep == ASSUME Client, IInv, [Next]_vars PROVE IInv'
<1> USE DEF ioVars, heapVars, curlVars, fileVars, callVars
<1>1. TypeOK'
  BY TypeStep DEF IInv
<1>2. ~Misuse
  BY NoMisuse
<1>3. CASE IOInit
  BY <1>1, <1>3, KeptBySame DEF IOInit
<1>4. CASE \E n \in Limits : SetMaxDownloads(n)
  BY <1>1, <1>4, KeptBySame DEF SetMaxDownloads
<1>5. CASE UNCHANGED vars
  BY <1>1, <1>5, KeptBySame DEF vars
<1>6. CASE Steps
  BY <1>1, <1>6, KeptByPollMessage, KeptByPollForget, KeptByPollReturn,
     KeptByAbortDownloadReturn, KeptByAbortAllNext, KeptByAbortAllForget,
     KeptByAbortAllReturn
  DEF Steps
<1>7. CASE IOShutdown
  BY <1>1, <1>7, KeptByShutdown
<1>8. CASE \/ \E r \in Request : QueueFile(r)
           \/ \E finished \in SUBSET Running : Poll(finished)
           \/ \E filename \in Str : AbortDownload(filename)
           \/ AbortAll
  BY <1>1, <1>8, KeptByQueueFile, KeptByPoll, KeptByAbortDownload, KeptByAbortAll
<1> QED BY <1>2, <1>3, <1>4, <1>5, <1>6, <1>7, <1>8 DEF Next, Calls

LEMMA InvInit == Init => IInv
<1> SUFFICES ASSUME Init PROVE IInv
  OBVIOUS
<1>1. TypeOK
  BY TypeInit
<1>2. Keys = {} /\ Live = {} /\ Pending = {} /\ Signalling = {}
  BY EmptySeq DEF Init, Keys, Live, Pending, Signalling
<1>3. FilesExact
  BY <1>2 DEF FilesExact
<1>4. OnePlace
  BY <1>2, EmptySeq DEF Init, OnePlace
<1>5. CallsNest
  BY EmptySeq DEF Init, CallsNest
<1>6. OneSignal
  BY EmptySeq DEF Init, OneSignal
<1>7. TargetSettled
  BY CrcAssumption DEF Init, TargetSettled, Completed, NotSaved
<1> QED BY <1>1, <1>3, <1>4, <1>5, <1>6, <1>7
        DEF Init, IInv, QueueConsistent, TempFilesClosed, NoUndefined

LEMMA QueueInv ==
  ASSUME Client
  PROVE  Spec => []IInv
<1>1. Init => IInv
  BY InvInit
<1>2. IInv /\ [Next]_vars => IInv'
  BY InvStep
<1> QED BY <1>1, <1>2, PTL DEF Spec

\* For an application with urls that encode to themselves and disciplined
\* handlers, the queue never uses a deleted DataStruct or a cleaned up handle and never
\* erases an entry that is not there.
THEOREM NeverUndefined ==
  ASSUME Client
  PROVE  Spec => []NoUndefined
<1>1. IInv => NoUndefined
  BY DEF IInv
<1> QED BY <1>1, QueueInv, PTL

\* For such an application m_files, m_handles, curl's handles and the calls in progress
\* agree, between calls and inside every callback.
THEOREM ContainersAgree ==
  ASSUME Client
  PROVE  Spec => []QueueConsistent
<1>1. IInv => QueueConsistent
  BY DEF IInv
<1> QED BY <1>1, QueueInv, PTL

\* For such an application each transfer is signalled at most once, and not while it
\* waits or is with curl.
THEOREM SignalledOnce ==
  ASSUME Client
  PROVE  Spec => []OneSignal
<1>1. IInv => OneSignal
  BY DEF IInv
<1> QED BY <1>1, QueueInv, PTL

\* For such an application a tmpfile is open only while curl can write to it.
THEOREM NoTempFileLeft ==
  ASSUME Client
  PROVE  Spec => []TempFilesClosed
<1>1. IInv => TempFilesClosed
  BY DEF IInv
<1> QED BY <1>1, QueueInv, PTL

====
