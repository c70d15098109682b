----------------------------- MODULE JobOutcome -----------------------------
(***************************************************************************)
(* What printRaw promises its callers, with no frames, listeners or        *)
(* writes: a call settles once; it is fulfilled only after the printer     *)
(* acknowledged the end of that job; and losing the channel rejects every  *)
(* call that is still waiting, in one step.                                *)
(***************************************************************************)
CONSTANT Jobs

VARIABLES
  up,       \* the channel exists, though it may be on its way down
  acked,    \* the jobs whose end the printer acknowledged
  outcome   \* what each call came to

vars == <<up, acked, outcome>>

(* A call that never started is refused; one that did may fail.            *)
Refusals == {"notOpen", "emptyImage"}
Failures == {"timeout", "closed", "writeFailed", "fault"}
Settled == {"resolved"} \cup Refusals \cup Failures
Outcomes == {"idle", "running"} \cup Settled

Init ==
  /\ up = FALSE
  /\ acked = {}
  /\ outcome = [j \in Jobs |-> "idle"]

Open ==
  /\ ~up
  /\ up' = TRUE
  /\ UNCHANGED <<acked, outcome>>

Close ==
  /\ up
  /\ up' = FALSE
  /\ outcome' = [j \in Jobs |-> IF outcome[j] = "running" THEN "closed" ELSE outcome[j]]
  /\ UNCHANGED acked

Call(j) ==
  /\ outcome[j] = "idle"
  /\ \/ up /\ outcome' = [outcome EXCEPT ![j] = "running"]
     \/ \E why \in Refusals : outcome' = [outcome EXCEPT ![j] = why]
  /\ UNCHANGED <<up, acked>>

Acknowledge(j) ==
  /\ outcome[j] = "running"
  /\ acked' = acked \cup {j}
  /\ UNCHANGED <<up, outcome>>

(* JOB_COMPLETE acknowledges and resolves at once, FINISHED only           *)
(* acknowledges: the write of END_JOB resolves.                            *)
Resolve(j) ==
  /\ outcome[j] = "running"
  /\ acked' \in {acked, acked \cup {j}}
  /\ j \in acked'
  /\ outcome' = [outcome EXCEPT ![j] = "resolved"]
  /\ UNCHANGED up

Fail(j) ==
  /\ outcome[j] = "running"
  /\ \E why \in Failures : outcome' = [outcome EXCEPT ![j] = why]
  /\ UNCHANGED <<up, acked>>

Next ==
  \/ Open
  \/ Close
  \/ \E j \in Jobs : Call(j) \/ Acknowledge(j) \/ Resolve(j) \/ Fail(j)

Spec == Init /\ [][Next]_vars
=============================================================================
