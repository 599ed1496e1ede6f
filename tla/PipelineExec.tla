---------------------------- MODULE PipelineExec ----------------------------
(***************************************************************************)
(* PipelineExecutor (pipelines/exec/mod.rs): one run of a pipeline for one *)
(* payload job.  The executor is a future that is polled; its cursor says  *)
(* where it is: Initializing (the before_job hooks), BeforeStep,           *)
(* StepInProgress, Finalizing (the after_job hooks).  "Done" is a resolved *)
(* executor, "Dropped" one that was dropped before it resolved.  What a    *)
(* step or a hook returns is up to the step: a choice.                     *)
(***************************************************************************)
EXTENDS Scope

VARIABLES
  cursor,   \* the state of the executor
  path,     \* the step of BeforeStep and StepInProgress, else NoStep
  before,   \* number of before_job hooks that have been called
  after,    \* number of after_job hooks that have been called
  output,   \* what finalize() was called with: "none", "ok" or "err"
  result,   \* what the future resolved with: "none", "ok" or "err"
  events    \* the system events published on the events bus

execVars == <<cursor, path, before, after, output, result, events>>

vars == <<pipeline, scopeVars, execVars>>

steps == iter_steps(pipeline)

\* PipelineExecutor::run
Init ==
  /\ pipeline \in Pipelines
  /\ rooted_at
  /\ cursor = "Initializing"
  /\ path = NoStep
  /\ before = 0
  /\ after = 0
  /\ output = "none"
  /\ result = "none"
  /\ events = <<"PayloadJobStarted">>

\* The cursor that runs the after_job hooks with `out` and then resolves.
finalize(out) ==
  /\ cursor' = "Finalizing"
  /\ path' = NoStep
  /\ output' = out
  /\ UNCHANGED <<before, after, result, events>>

\* The executor is still initializing: the next hook runs.
BeforeJobOk ==
  /\ cursor = "Initializing"
  /\ before < Len(steps)
  /\ before' = before + 1
  /\ renewed' = {}
  /\ UNCHANGED <<pipeline, current, active, limits, panicked>>
  /\ UNCHANGED <<cursor, path, after, output, result, events>>

\* A hook failed: no step runs, every after_job hook does.
BeforeJobErr ==
  /\ cursor = "Initializing"
  /\ before < Len(steps)
  /\ cursor' = "Finalizing"
  /\ before' = before + 1
  /\ output' = "err"
  /\ renewed' = {}
  /\ UNCHANGED <<pipeline, current, active, limits, panicked>>
  /\ UNCHANGED <<path, after, result, events>>

\* first_step in a pipeline without steps: the empty payload is built.
FirstStepEmpty ==
  /\ cursor = "Initializing"
  /\ before = Len(steps)
  /\ entrypoint(pipeline)[<< >>] = NoStep
  /\ \E built \in {"ok", "err"} : finalize(built)
  /\ renewed' = {}
  /\ UNCHANGED <<pipeline, current, active, limits, panicked>>

\* first_step: enters the root scope, and only the root scope.
FirstStep ==
  /\ cursor = "Initializing"
  /\ before = Len(steps)
  /\ entrypoint(pipeline)[<< >>] # NoStep
  /\ enter_root
  /\ cursor' = "BeforeStep"
  /\ path' = entrypoint(pipeline)[<< >>]
  /\ UNCHANGED <<pipeline, before, after, output, result, events>>

\* execute_step: from here on the step's own future is polled.
ExecuteStep ==
  /\ cursor = "BeforeStep"
  /\ cursor' = "StepInProgress"
  /\ renewed' = {}
  /\ UNCHANGED <<pipeline, current, active, limits, panicked>>
  /\ UNCHANGED <<path, before, after, output, result, events>>

\* advance_cursor to the step `next`, or to the end of the pipeline.
advance_cursor(next) ==
  \/ /\ next # NoStep
     /\ switch_context(next)
     /\ cursor' = "BeforeStep"
     /\ path' = next
     /\ UNCHANGED <<pipeline, before, after, output, result, events>>
  \/ /\ next = NoStep
     /\ \E built \in {"ok", "err"} : finalize(built)
     /\ renewed' = {}
     /\ UNCHANGED <<pipeline, current, active, limits, panicked>>

StepOk ==
  /\ cursor = "StepInProgress"
  /\ advance_cursor(next_ok(pipeline, path))

\* Mutant: a break is taken for an Ok.
StepBreakAsOk ==
  /\ cursor = "StepInProgress"
  /\ advance_cursor(next_ok(pipeline, path))

StepBreak ==
  /\ cursor = "StepInProgress"
  /\ advance_cursor(next_break(pipeline, path))

StepFail ==
  /\ cursor = "StepInProgress"
  /\ finalize("err")
  /\ renewed' = {}
  /\ UNCHANGED <<pipeline, current, active, limits, panicked>>

\* The hooks share the output.  (A step that keeps a copy of it makes the executor panic
\* once the last hook is done, "unexpected > 1 strong reference count".  No step of the
\* repository does, and here none keeps it.)
AfterJobOk ==
  /\ cursor = "Finalizing"
  /\ after < Len(steps)
  /\ after' = after + 1
  /\ renewed' = {}
  /\ UNCHANGED <<pipeline, current, active, limits, panicked>>
  /\ UNCHANGED <<cursor, path, before, output, result, events>>

\* Mutant: the completion event is published for a failed run too.
resolve_as_completed(res) ==
  /\ cursor' = "Done"
  /\ path' = NoStep
  /\ result' = res
  /\ events' = Append(events, "PayloadJobCompleted")
  /\ leave_root

\* The executor future resolves: the terminal event is published and the
\* shared future drops the executor, and with it its scopes.
resolve(res) ==
  /\ cursor' = "Done"
  /\ path' = NoStep
  /\ result' = res
  /\ events' = Append(events, IF res = "ok" THEN "PayloadJobCompleted" ELSE "PayloadJobFailed")
  /\ leave_root

\* The first failing hook ends the run; the hooks after it are not called.
AfterJobErr ==
  /\ cursor = "Finalizing"
  /\ after < Len(steps)
  /\ after' = after + 1
  /\ resolve("err")
  /\ UNCHANGED <<pipeline, before, output>>

FinalizeDone ==
  /\ cursor = "Finalizing"
  /\ after = Len(steps)
  /\ resolve(output)
  /\ UNCHANGED <<pipeline, before, after, output>>

\* The payload service drops the job, and with it the last copy of the future.
Drop ==
  /\ cursor \in {"Initializing", "BeforeStep", "StepInProgress", "Finalizing"}
  /\ cursor' = "Dropped"
  /\ path' = NoStep
  /\ leave_root
  /\ UNCHANGED <<pipeline, before, after, output, result, events>>

Poll ==
  \/ BeforeJobOk \/ BeforeJobErr \/ FirstStepEmpty \/ FirstStep \/ ExecuteStep
  \/ StepOk \/ StepBreak \/ StepFail
  \/ AfterJobOk \/ AfterJobErr \/ FinalizeDone

Next == Poll \/ Drop

Spec == Init /\ [][Next]_vars

\* A step of a loop at this depth of the pipeline breaks out of it.
BreakLoop(depth) ==
  /\ Len(path) = depth
  /\ behavior(pipeline, path) = "Loop"
  /\ StepBreak

LoopDepths ==
  UNION {{Len(p) : p \in {q \in StepPaths(t) : behavior(t, q) = "Loop"}} : t \in Pipelines}

\* The runtime keeps polling: every poll wakes its own task, and the futures of
\* steps and hooks resolve.  A loop that runs again and again is broken some
\* time: that is what ends a loop, and up to its steps.
FairSpec ==
  /\ Spec
  /\ WF_vars(Poll)
  /\ \A depth \in LoopDepths : SF_vars(BreakLoop(depth))

(***************************************************************************)
(* Properties                                                              *)
(***************************************************************************)

\* Types of the executor's cursor, hooks and scopes: the hooks done never exceed the
\* steps, and the cursor is at a step of the pipeline.
TypeOK ==
  /\ pipeline \in Pipelines
  /\ current \in DOMAIN pipeline
  /\ active \in SUBSET DOMAIN pipeline
  /\ limits \in [DOMAIN pipeline -> LimitsSet]
  /\ renewed \in SUBSET DOMAIN pipeline
  /\ panicked \in BOOLEAN
  /\ cursor \in {"Initializing", "BeforeStep", "StepInProgress", "Finalizing", "Done", "Dropped"}
  /\ path \in StepPaths(pipeline) \cup {NoStep}
  /\ before \in 0..Len(steps)
  /\ after \in 0..Len(steps)
  /\ output \in {"none", "ok", "err"}
  /\ result \in {"none", "ok", "err"}
  /\ events \in Seq({"PayloadJobStarted", "PayloadJobCompleted", "PayloadJobFailed"})

\* No assertion of Scope::enter or Scope::leave ever fails: whatever the steps
\* return, a scope is entered only when inactive and left only when active.
NoScopePanic == panicked = FALSE

\* "When a scope is active, then all its parent scopes are active as well"
\* (scope.rs:169): the active scopes are the current one and all around it.
ActiveScopesAreAChain ==
  active # {} => active = {s \in DOMAIN pipeline : is_ancestor_of(s, current)}

\* A scope never allows more gas or blobs than the scope around it, and a deadline
\* it has is no longer than the one around it, as long as both are active: clamp
\* is applied on every entry, and while a scope is renewed no scope nested in it
\* is active.  (A nested scope without a deadline escapes the one around it:
\* Option::min takes None for the smallest.)
NestedLimitsWithinEnclosing ==
  \A s \in active \ {<< >>} :
    LET outer == limits[scope_of(s)] IN
    /\ limits[s].gas_limit <= outer.gas_limit
    /\ outer.max_blob_count # NoLimit => /\ limits[s].max_blob_count # NoLimit
                                        /\ limits[s].max_blob_count <= outer.max_blob_count
    /\ limits[s].deadline # NoLimit => /\ outer.deadline # NoLimit
                                      /\ limits[s].deadline <= outer.deadline

\* The root scope is entered by the first step.
RunsInRootScope == cursor \in {"BeforeStep", "StepInProgress"} => << >> \in active

\* Every scope is left when the run is over, resolved or dropped.
ScopesLeftAtTheEnd == cursor \in {"Done", "Dropped"} => active = {}

\* What these invariants need to be inductive: the scopes are entered by the first
\* step, a running step is a step of the pipeline, and an output is decided before
\* the after_job hooks run and a result only when the run resolves.
IndInv ==
  /\ TypeOK
  /\ NoScopePanic
  /\ ActiveScopesAreAChain
  /\ NestedLimitsWithinEnclosing
  /\ RunsInRootScope
  /\ ScopesLeftAtTheEnd
  /\ cursor = "Initializing" => active = {} /\ current = << >>
  /\ cursor \in {"BeforeStep", "StepInProgress"} => path # NoStep
  /\ cursor \in {"Initializing", "BeforeStep", "StepInProgress"} => output = "none"
  /\ cursor = "Finalizing" => output # "none"
  /\ cursor # "Done" => result = "none"

\* "All steps in a pipeline run within the scopes of the pipelines that contain it"
\* (scope.rs:167): wherever loops, breaks and epilogues lead from a step, the active
\* scopes are then those of the pipelines that contain the next step, and no others.
\* (The first step of a run has no step before it, and only the root scope, however
\* deep it is nested.)
StepsRunInTheirScope ==
  [][cursor = "StepInProgress" /\ cursor' = "BeforeStep" =>
       active' = {s \in DOMAIN pipeline : is_ancestor_of(s, scope_of(path'))}]_vars

\* When control moves from a step into pipelines it was not in, the limits of
\* all of them are created anew ("called every time their scope is entered",
\* pipelines/limits.rs:14), within the limits then in force around them.
EnteredScopesAreRenewed ==
  [][cursor = "StepInProgress" /\ cursor' = "BeforeStep" =>
       \A s \in DOMAIN pipeline :
         is_ancestor_of(s, scope_of(path')) /\ ~is_ancestor_of(s, current) =>
           /\ s \in renewed' /\ s \in active'
           /\ limits'[s] \in scope_limits(pipeline[s].limits, limits'[scope_of(s)])]_vars

Lifecycle == INSTANCE PayloadJobLifecycle WITH
  phase <- CASE cursor = "Initializing" -> "starting"
             [] cursor \in {"BeforeStep", "StepInProgress"} -> "running"
             [] cursor = "Finalizing" -> "finishing"
             [] cursor = "Done" -> "resolved"
             [] cursor = "Dropped" -> "dropped",
  failed <- output = "err" \/ result = "err",
  result <- result,
  events <- events

\* A run keeps the promises of PayloadJobLifecycle.
ImplementsLifecycle == Lifecycle!Spec

\* A run that is not dropped resolves, however its loops are nested, provided that each
\* of them is broken some time.
Resolves == <>(cursor \in {"Done", "Dropped"})
=============================================================================
