------------------------- MODULE PayloadJobLifecycle -------------------------
(***************************************************************************)
(* What one run of a pipeline promises to the payload service and to the   *)
(* subscribers of its events, whatever the pipeline is: it starts, it may  *)
(* fail at any point until it has resolved, it resolves at most once, it   *)
(* resolves with a payload only if nothing failed, and exactly then one    *)
(* terminal event is published, the one that matches the result.  A run    *)
(* that is dropped publishes nothing more.                                 *)
(***************************************************************************)
EXTENDS Sequences

VARIABLES
  phase,     \* "starting", "running", "finishing", "resolved" or "dropped"
  failed,    \* something has failed: a hook, a step, or building the payload
  result,    \* "none", "ok" or "err"
  events     \* the events published so far

vars == <<phase, failed, result, events>>

Init ==
  /\ phase = "starting"
  /\ failed = FALSE
  /\ result = "none"
  /\ events = <<"PayloadJobStarted">>

\* All hooks succeeded: the steps may run, or there are none and the run ends.
Start ==
  /\ phase = "starting"
  /\ \/ phase' = "running" /\ UNCHANGED failed
     \/ phase' = "finishing" /\ failed' \in BOOLEAN
  /\ UNCHANGED <<result, events>>

FailToStart ==
  /\ phase = "starting"
  /\ phase' = "finishing"
  /\ failed' = TRUE
  /\ UNCHANGED <<result, events>>

Finish ==
  /\ phase = "running"
  /\ phase' = "finishing"
  /\ failed' \in BOOLEAN
  /\ UNCHANGED <<result, events>>

Resolve ==
  /\ phase = "finishing"
  /\ phase' = "resolved"
  /\ failed' \in {failed, TRUE}
  /\ result' = IF failed' THEN "err" ELSE "ok"
  /\ events' = Append(events, IF failed' THEN "PayloadJobFailed" ELSE "PayloadJobCompleted")

Drop ==
  /\ phase \in {"starting", "running", "finishing"}
  /\ phase' = "dropped"
  /\ UNCHANGED <<failed, result, events>>

Next == Start \/ FailToStart \/ Finish \/ Resolve \/ Drop

Spec == Init /\ [][Next]_vars
=============================================================================
