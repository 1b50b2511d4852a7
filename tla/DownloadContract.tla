--------------------------- MODULE DownloadContract ---------------------------
(***************************************************************************)
(* What the download queue promises an application, as the comments of     *)
(* WFUT.h describe updateChannel, poll, the two signals and the two abort  *)
(* calls: every file queued ends in exactly one outcome, and poll returns  *)
(* 0 only when no file is left.  Nothing is said here of handles, of the   *)
(* connection limit or of the calls inside which the outcomes come about.  *)
(***************************************************************************)
CONSTANT Transfer

VARIABLES
  outcome,  \* what has become of each transfer
  done      \* the last poll of the application returned 0

vars == <<outcome, done>>

Outcomes == {"none", "pending", "complete", "failed", "aborted", "dropped"}

TypeOK == outcome \in [Transfer -> Outcomes] /\ done \in BOOLEAN

Pending == {t \in Transfer : outcome[t] = "pending"}

Init == outcome = [t \in Transfer |-> "none"] /\ done = FALSE

Queue(t) ==
  /\ outcome[t] = "none"
  /\ outcome' = [outcome EXCEPT ![t] = "pending"]
  /\ UNCHANGED done

Settle(t) ==
  /\ outcome[t] = "pending"
  /\ \E end \in {"complete", "failed", "aborted"} :
       outcome' = [outcome EXCEPT ![t] = end]
  /\ UNCHANGED done

\* A shutdown drops what is pending, without a signal.
Shutdown ==
  /\ outcome' = [t \in Transfer |-> IF t \in Pending THEN "dropped" ELSE outcome[t]]
  /\ UNCHANGED done

StartPoll == done' = FALSE /\ UNCHANGED outcome

PollReturnsZero == Pending = {} /\ done' = TRUE /\ UNCHANGED outcome

Next ==
  \/ \E t \in Transfer : Queue(t) \/ Settle(t)
  \/ Shutdown
  \/ StartPoll
  \/ PollReturnsZero

Spec == Init /\ [][Next]_vars

Fairness == \A t \in Transfer : WF_vars(Settle(t))

FairSpec == Spec /\ Fairness
====
