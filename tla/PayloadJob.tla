----------------------------- MODULE PayloadJob -----------------------------
(***************************************************************************)
(* Payload jobs (pipelines/job.rs) inside the payload builder service of   *)
(* the node (external), which PipelineServiceBuilder (service.rs) starts   *)
(* when the steps of the pipeline are set up.  A job holds a copy of a     *)
(* shared future around its executor; a request for the payload gets       *)
(* another copy and takes the job out of the service.  Whoever holds a     *)
(* copy polls the one executor, and the executor is dropped with the last  *)
(* copy.                                                                   *)
(*                                                                         *)
(* The run of the pipeline is PipelineExec's: here an executor is between  *)
(* the steps or inside a StepInstance (step/instance.rs), with a hook or a *)
(* step, until it resolves, with any result.  The instances belong to the  *)
(* pipeline, all jobs share them.                                          *)
(***************************************************************************)
EXTENDS Integers, Sequences, FiniteSetsExt

CONSTANTS
  Jobs,       \* payload ids
  Requests,   \* requests for a payload, each made at most once
  NumSteps    \* step instances of the pipeline, in the order of iter_steps

ASSUME StepsAreNat == NumSteps \in Nat

Steps == 1..NumSteps
NoInstance == 0

VARIABLES
  builder,    \* PipelineServiceBuilder: steps set up, the one in setup(), how it ended
  service,    \* jobs that the service holds and polls
  expired,    \* jobs whose deadline has elapsed
  cached,     \* state of each job's own future: "Future", or its ready result
  executor,   \* the executor of each job
  request     \* each request: the job it asks for and the state of its future

vars == <<builder, service, expired, cached, executor, request>>

NotStarted == [phase |-> "absent", result |-> "none", step |-> NoInstance]

Started == [NotStarted EXCEPT !.phase = "running"]

NotMade == [job |-> "none", state |-> "not made"]

Init ==
  /\ builder = [done |-> 0, inside |-> NoInstance, spawned |-> FALSE, failed |-> FALSE]
  /\ service = {}
  /\ expired = {}
  /\ cached = [j \in Jobs |-> "Future"]
  /\ executor = [j \in Jobs |-> NotStarted]
  /\ request = [r \in Requests |-> NotMade]

Alive(e) == e.phase = "running"

\* StepInstance: executor e is inside a hook or the step of some instance, which it
\* holds a reference to until that returns, or it is between them.
inside_step(e) == {[e EXCEPT !.step = s] : s \in Steps \cup {NoInstance}}

resolved(e, result) == [e EXCEPT !.phase = "resolved", !.step = NoInstance, !.result = result]

\* The executors that e can be after a poll: only a live one gets on.
after_poll(e) ==
  inside_step(e) \cup {resolved(e, result) : result \in IF Alive(e) THEN {"ok", "err"} ELSE {}}

\* Someone holds a copy of the future of job j: the service or a request.
held(srv, req, j) ==
  j \in srv \/ \E r \in Requests : req[r] = [job |-> j, state |-> "Future"]

\* Mutant: the executor goes with the job, whoever else holds a copy.
release_job(srv, req, j, e) ==
  IF j \notin srv /\ Alive(e)
  THEN [e EXCEPT !.phase = "dropped", !.step = NoInstance] ELSE e

\* Mutant: the executor is never dropped.
release_nothing(srv, req, j, e) == e

\* What becomes of executor e of job j when the copies are as given: an executor
\* that nobody holds is dropped.
release(srv, req, j, e) ==
  IF ~held(srv, req, j) /\ Alive(e)
  THEN [e EXCEPT !.phase = "dropped", !.step = NoInstance] ELSE e

(***************************************************************************)
(* spawn_payload_builder_service                                           *)
(***************************************************************************)

\* Each step is given its metrics, which must not have been given before, and set up,
\* through a mutable reference made from a shared one.
BeginSetup ==
  /\ ~builder.failed
  /\ builder.inside = NoInstance
  /\ builder.done < NumSteps
  /\ builder' = [builder EXCEPT !.inside = builder.done + 1]
  /\ UNCHANGED <<service, expired, cached, executor, request>>

\* An error ends it all.
EndSetup ==
  /\ builder.inside # NoInstance
  /\ \E ok \in BOOLEAN :
       builder' = IF ok THEN [builder EXCEPT !.inside = NoInstance, !.done = @ + 1]
                  ELSE [builder EXCEPT !.inside = NoInstance, !.failed = TRUE]
  /\ UNCHANGED <<service, expired, cached, executor, request>>

\* Mutant: the service does not wait for the setup of the last step.
SpawnServiceEarly ==
  /\ ~builder.spawned /\ ~builder.failed
  /\ Max({builder.inside, builder.done}) = NumSteps
  /\ builder' = [builder EXCEPT !.spawned = TRUE]
  /\ UNCHANGED <<service, expired, cached, executor, request>>

SpawnService ==
  /\ ~builder.spawned /\ ~builder.failed
  /\ builder.done = NumSteps
  /\ builder' = [builder EXCEPT !.spawned = TRUE]
  /\ UNCHANGED <<service, expired, cached, executor, request>>

(***************************************************************************)
(* Jobs and requests                                                       *)
(***************************************************************************)

\* new_payload_job, when the parent header is known and the state can be read;
\* otherwise there is no job.
NewPayloadJob(j) ==
  /\ builder.spawned /\ ~builder.failed
  /\ executor[j].phase = "absent"
  /\ service' = service \cup {j}
  /\ executor' = [executor EXCEPT ![j] = Started]
  /\ UNCHANGED <<builder, expired, cached, request>>

\* The deadline of the node's configuration elapses.
Expire(j) ==
  /\ j \in service
  /\ j \notin expired
  /\ expired' = expired \cup {j}
  /\ UNCHANGED <<builder, service, cached, executor, request>>

\* Mutant: the deadline ends only a job whose pipeline has come to its end.
PollExpiredResolved(j) ==
  /\ j \in service
  /\ j \in expired
  /\ ~ Alive(executor[j])
  /\ service' = service \ {j}
  /\ UNCHANGED <<builder, expired, cached, executor, request>>

\* PayloadJob::poll, the deadline first.  The service drops a job whose future is
\* ready.
PollExpired(j) ==
  /\ j \in service
  /\ j \in expired
  /\ service' = service \ {j}
  /\ executor' = [executor EXCEPT ![j] = release(service', request, j, @)]
  /\ UNCHANGED <<builder, expired, cached, request>>

\* PayloadJob::poll before the deadline: polls the executor.  An error ends the
\* job, a payload is kept until it is asked for.
PollJob(j) ==
  /\ j \in service
  /\ j \notin expired
  /\ cached[j] = "Future"
  /\ \E e \in after_poll(executor[j]) :
       /\ cached' = [cached EXCEPT ![j] = IF e.phase = "resolved" THEN e.result ELSE @]
       /\ service' = IF e.result = "err" THEN service \ {j} ELSE service
       /\ executor' = [executor EXCEPT ![j] = release(service', request, j, e)]
  /\ UNCHANGED <<builder, expired, request>>

\* resolve_kind(Earliest): the request gets a clone of the job's future and the
\* service lets go of the job.
ResolveKind(r, j) ==
  /\ request[r].state = "not made"
  /\ j \in service
  /\ request' = [request EXCEPT ![r] = [job |-> j, state |-> cached[j]]]
  /\ service' = service \ {j}
  /\ executor' = [executor EXCEPT ![j] = release(service', request', j, @)]
  /\ UNCHANGED <<builder, expired, cached>>

\* best_payload and resolve_kind(WaitForPending) are unimplemented!(): asked of any job,
\* they end the task of the service (external), and with it all jobs it holds.
Unimplemented ==
  /\ service # {}
  /\ builder' = [builder EXCEPT !.failed = TRUE]
  /\ service' = {}
  /\ executor' = [j \in Jobs |-> release(service', request, j, executor[j])]
  /\ UNCHANGED <<expired, cached, request>>

\* ExecutorFuture::poll by the one who made the request.
PollRequest(r) ==
  LET j == request[r].job IN
  /\ request[r].state = "Future"
  /\ \E e \in after_poll(executor[j]) :
       /\ request' = [request EXCEPT ![r].state = IF e.phase = "resolved" THEN e.result ELSE @]
       /\ executor' = [executor EXCEPT ![j] = release(service, request', j, e)]
  /\ UNCHANGED <<builder, service, expired, cached>>

\* The one who made the request gives up.
DropRequest(r) ==
  LET j == request[r].job IN
  /\ request[r].state = "Future"
  /\ request' = [request EXCEPT ![r].state = "dropped"]
  /\ executor' = [executor EXCEPT ![j] = release(service, request', j, @)]
  /\ UNCHANGED <<builder, service, expired, cached>>

Next ==
  \/ BeginSetup \/ EndSetup \/ SpawnService \/ Unimplemented
  \/ \E j \in Jobs : NewPayloadJob(j) \/ Expire(j) \/ PollExpired(j) \/ PollJob(j)
  \/ \E r \in Requests : \/ \E j \in Jobs : ResolveKind(r, j)
                         \/ PollRequest(r)
                         \/ DropRequest(r)

Spec == Init /\ [][Next]_vars

\* A poll that resolves the executor of job j.
Progress(j) == executor'[j].phase = "resolved"

\* The service polls its jobs, timers fire, requests are polled; and an executor
\* that is polled again and again resolves (PipelineExec: Resolves).
FairSpec ==
  /\ Spec
  /\ \A j \in Jobs : WF_vars(Expire(j)) /\ WF_vars(PollExpired(j))
  /\ \A r \in Requests : WF_vars(PollRequest(r) /\ Progress(request[r].job))

(***************************************************************************)
(* Properties                                                              *)
(***************************************************************************)

\* An executor works exactly as long as someone can still ask it for its result:
\* the deadline of a job never takes the executor away from a request, and no
\* executor works on when nobody waits for it.
ExecutorLivesWhileHeld ==
  \A j \in Jobs :
    executor[j].phase # "absent" =>
      /\ Alive(executor[j]) => held(service, request, j)
      /\ executor[j].phase = "dropped" => ~held(service, request, j)

\* "`Step::setup` is called only once per pipeline [...] and is guaranteed to be the only
\* one calling the setup function" (instance.rs): a job is inside a step, with a hook or
\* its step function, only when its setup is over, so that no reference is shared with
\* the mutable one.
StepsAreSetUpFirst == \A j \in Jobs : executor[j].step <= builder.done

\* "This job will automatically terminate after a deadline even `resolve_kind` is
\* not called" (job.rs:37).
JobsLeaveTheService == \A j \in Jobs : j \in service ~> j \notin service

\* A request that is not given up is answered, whatever becomes of the deadline.
RequestsAreAnswered ==
  \A r \in Requests : request[r].state = "Future" ~> request[r].state \in {"ok", "err", "dropped"}
=============================================================================
