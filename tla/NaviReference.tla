---------------------------- MODULE NaviReference ----------------------------
(***************************************************************************)
(* The navigator against a reference semantics.  The reference reads the   *)
(* documented meaning of a pipeline (ControlFlow in pipelines/step/mod.rs, *)
(* the builder API in pipelines/mod.rs) as a structured program and runs   *)
(* it with an explicit continuation: the work that is left, as a stack of  *)
(* items to run and marks of pipelines to finish.  It does no arithmetic   *)
(* on paths.  Both walk the same pipeline, for every outcome of every      *)
(* step; between two steps the reference unfolds what is on top of its     *)
(* stack, which the navigator does not take part in.                       *)
(***************************************************************************)
EXTENDS Navi, SequencesExt

CONSTANT Programs   \* the pipelines to walk

\* A nested pipeline without steps is taken for the end of the run by `enter`.
ASSUME NestedHaveSteps ==
  \A t \in Programs : /\ WellFormed(t)
                      /\ \A p \in DOMAIN t \ {<< >>} : ~is_empty(t[p])

VARIABLES
  program,    \* the pipeline being walked
  at,         \* where the navigator is, NoStep at the end
  cont        \* the reference's continuation

walkVars == <<program, at, cont>>

Run(p) == [mark |-> FALSE, path |-> p]

\* Reached when the items of the pipeline at p have all been run.
Mark(p) == [mark |-> TRUE, path |-> p]

Items(t, p) == [i \in DOMAIN t[p].steps |-> Run(Append(p, i))]

RunIf(present, p) == IF present THEN <<Run(p)>> ELSE << >>

RunEpilogue(t, p) == RunIf(t[p].epilogue, Append(p, EPILOGUE_INDEX))

\* A loop without items has nothing to repeat.
Repeats(t, p) ==
  /\ p # << >>
  /\ t[scope_of(p)].steps[leaf(p)] = "Loop"
  /\ t[p].steps # << >>

\* The work on top of the continuation is a step.
IsSettled(t, k) == k # << >> /\ ~Head(k).mark /\ Head(k).path \notin DOMAIN t

\* What the mark or the pipeline on top stands for.
Unfolded(t, k) ==
  LET p == Head(k).path IN
  (IF ~Head(k).mark
   THEN RunIf(t[p].prologue, Append(p, PROLOGUE_INDEX)) \o Items(t, p) \o <<Mark(p)>>
   ELSE IF Repeats(t, p) THEN Items(t, p) \o <<Mark(p)>>
   ELSE RunEpilogue(t, p))
  \o Tail(k)

\* A break drops the rest of the pipeline the step is in, up to its mark; the
\* epilogue comes after the mark, so a break there drops nothing.
Unwind(t, k) ==
  LET p == scope_of(Head(k).path)
      marks == {i \in DOMAIN k : k[i] = Mark(p)}
  IN IF marks = {} THEN Tail(k)
     ELSE RunEpilogue(t, p) \o SubSeq(k, Min(marks) + 1, Len(k))

WalkInit ==
  /\ program \in Programs
  /\ at = entrypoint(program)[<< >>]
  /\ cont = <<Run(<< >>)>>

Unfold ==
  /\ cont # << >>
  /\ ~IsSettled(program, cont)
  /\ cont' = Unfolded(program, cont)
  /\ UNCHANGED <<program, at>>

WalkOk ==
  /\ at # NoStep
  /\ IsSettled(program, cont)
  /\ at' = next_ok(program, at)
  /\ cont' = Tail(cont)
  /\ UNCHANGED program

WalkBreak ==
  /\ at # NoStep
  /\ IsSettled(program, cont)
  /\ at' = next_break(program, at)
  /\ cont' = Unwind(program, cont)
  /\ UNCHANGED program

WalkNext == Unfold \/ WalkOk \/ WalkBreak

WalkSpec == WalkInit /\ [][WalkNext]_walkVars

(***************************************************************************)
(* Properties                                                              *)
(***************************************************************************)

\* The navigator and the structured reading of the pipeline are at the same
\* step whatever the outcomes so far were, and end together: loops restart
\* after the prologue, a break runs the epilogue and continues in the parent.
\* While the reference is about to go into a nested pipeline the navigator
\* already is at a step inside of it.
NavigatorFollowsReference ==
  /\ cont = << >> => at = NoStep
  /\ IsSettled(program, cont) => at = Head(cont).path
  /\ cont # << >> /\ ~Head(cont).mark /\ Head(cont).path # << >>
       => at # NoStep /\ is_ancestor_of(Head(cont).path, at)

\* p comes before q in the order of the pipeline text.
Precedes(p, q) ==
  \E i \in 1..Len(q) :
    /\ \A j \in 1..(i - 1) : j <= Len(p) /\ p[j] = q[j]
    /\ i > Len(p) \/ p[i] < q[i]

\* iter_steps, which drives before_job and after_job, yields every step that
\* navigation can ever reach exactly once, in the order of the pipeline text.
HooksCoverEveryReachableStep ==
  LET steps == iter_steps(program) IN
  /\ ToSet(steps) = StepPaths(program)
  /\ \A i \in 1..(Len(steps) - 1) : Precedes(steps[i], steps[i + 1])
  /\ at # NoStep => at \in ToSet(steps)
=============================================================================
