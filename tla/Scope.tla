-------------------------------- MODULE Scope --------------------------------
(***************************************************************************)
(* Execution scopes (pipelines/exec/scope.rs).  Every pipeline of the tree *)
(* has a scope with its own limits; the executor enters and leaves scopes  *)
(* as it moves from step to step.  An assertion of the code that would     *)
(* fail sets `panicked`.                                                   *)
(***************************************************************************)
EXTENDS Navi, Limits

CONSTANTS
  Pipelines,        \* the pipelines a job may be started with
  LimitsSet,        \* the limits that can arise from them
  PlatformLimits    \* what P::DefaultLimits creates for a block

VARIABLES
  pipeline,   \* Arc<Pipeline>: fixed for a job
  current,    \* RootScope::current
  active,     \* the scopes whose entered_at is Some
  limits,     \* Scope::limits of every scope
  renewed,    \* history: the scopes entered by the last step of the executor
  panicked    \* an assertion of scope.rs has failed

scopeVars == <<current, active, limits, renewed, panicked>>

ASSUME PipelinesWellFormed == \A t \in Pipelines : WellFormed(t)

\* The limits that arise are limits, and the factories stay among them.
ASSUME LimitsClosed ==
  /\ LimitsSet \subseteq Limits
  /\ PlatformLimits \in LimitsSet
  /\ \A t \in Pipelines : \A s \in DOMAIN t : \A enclosing \in LimitsSet :
       /\ create(t[s].limits, enclosing) # {}
       /\ create(t[s].limits, enclosing) \subseteq Limits
       /\ scope_limits(t[s].limits, enclosing) \subseteq LimitsSet

\* The limits that enclose scope s: those of the pipeline that holds it.
enclosing_limits(lim, s) == IF s = << >> THEN PlatformLimits ELSE lim[scope_of(s)]

\* RootScope::new: the limits of all scopes, from the root down.
rooted_at ==
  /\ current = << >>
  /\ active = {}
  /\ limits \in [DOMAIN pipeline -> LimitsSet]
  /\ \A s \in DOMAIN pipeline :
       limits[s] \in scope_limits(pipeline[s].limits, enclosing_limits(limits, s))
  /\ renewed = {}
  /\ panicked = FALSE

\* Scope::leave deactivates the scope and the active scopes nested in it.
left_with(s) ==
  {d \in active : /\ is_ancestor_of(s, d)
                  /\ \A k \in Len(s)..Len(d) : SubSeq(d, 1, k) \in active}

\* RootScope::enter: the root's limits are created anew, inside themselves.
enter_root ==
  /\ panicked' = (<< >> \in active)
  /\ \E l \in scope_limits(pipeline[<< >>].limits, limits[<< >>]) :
       limits' = [limits EXCEPT ![<< >>] = l]
  /\ active' = active \cup {<< >>}
  /\ renewed' = {<< >>}
  /\ UNCHANGED current

\* RootScope::leave, behind the is_active() of its caller; also what dropping
\* the root scope does.
leave_root ==
  /\ active' = IF << >> \in active THEN active \ left_with(<< >>) ELSE active
  /\ renewed' = {}
  /\ UNCHANGED <<current, limits, panicked>>

\* RootScope::switch_context.  The limits of the entered scopes are created
\* from the top down, each within the scope that was entered before it.
switch_context(next_step) ==
  LET next == scope_of(next_step)
      common == common_ancestor(current, next)
      leaving == between(current, common)
      entering == {between(common, next)[i] : i \in DOMAIN between(common, next)}
      left == UNION {left_with(leaving[i]) : i \in DOMAIN leaving}
      leave_panics == \E i \in DOMAIN leaving :
                        \/ leaving[i] \notin active
                        \/ \E j \in 1..(i - 1) : leaving[i] \in left_with(leaving[j])
      enter_panics == \E s \in entering : s \in active \ left
  IN /\ current' = next
     /\ panicked' = (leave_panics \/ enter_panics)
     /\ active' = (active \ left) \cup entering
     /\ renewed' = entering
     /\ \E new \in [entering -> LimitsSet] :
          /\ limits' = [s \in DOMAIN pipeline |-> IF s \in entering THEN new[s] ELSE limits[s]]
          /\ \A s \in entering :
               new[s] \in scope_limits(pipeline[s].limits, enclosing_limits(limits', s))
=============================================================================
