------------------------------ MODULE Pipeline ------------------------------
(***************************************************************************)
(* The pipeline tree (pipelines/mod.rs) and its step paths                 *)
(* (pipelines/exec/navi.rs, pipelines/iter.rs).                            *)
(*                                                                         *)
(* A pipeline value is a function from the paths of its (nested) pipelines *)
(* to what each of them holds: whether it has a prologue and an epilogue,  *)
(* its items, and the factory of its limits.  The root pipeline has the    *)
(* empty path; the pipeline nested as the i-th item of the pipeline at     *)
(* path p has the path Append(p, i).  An item is a step ("Step") or a      *)
(* nested pipeline with its behaviour ("Once", "Loop").                    *)
(*                                                                         *)
(* The code counts items from 0 and adds STEP0_INDEX to get the path       *)
(* component; TLA+ sequences count from 1, so the two agree.               *)
(***************************************************************************)
EXTENDS Integers, Sequences, FiniteSets

PROLOGUE_INDEX == 0

STEP0_INDEX == PROLOGUE_INDEX + 1

\* usize::MAX in the code: above every index a step can have.
EPILOGUE_INDEX == 1000

\* Option<StepNavigator>::None. The empty path is never the path of a step.
NoStep == << >>

Behavior == {"Once", "Loop"}

\* enum StepOrPipeline
StepOrPipeline == {"Step"} \cup Behavior

(***************************************************************************)
(* Step paths                                                              *)
(***************************************************************************)

leaf(path) == path[Len(path)]

\* remove_leaf with its `unwrap_or(empty)`: the path of the pipeline that
\* holds the step, empty for the items of the root pipeline.
scope_of(path) == SubSeq(path, 1, Len(path) - 1)

is_toplevel(path) == Len(path) = 1

is_prologue(path) == leaf(path) = PROLOGUE_INDEX

is_epilogue(path) == leaf(path) = EPILOGUE_INDEX

replace_leaf(path, new_leaf) == Append(scope_of(path), new_leaf)

increment_leaf(path) == replace_leaf(path, leaf(path) + 1)

is_ancestor_of(path, other) ==
  /\ Len(path) <= Len(other)
  /\ \A i \in 1..Len(path) : path[i] = other[i]

\* The longest path both descend from; empty when they share nothing.
common_ancestor(path, other) ==
  CHOOSE c \in {SubSeq(path, 1, k) : k \in 0..Len(path)} :
    /\ is_ancestor_of(c, other)
    /\ \A k \in 0..Len(path) :
         is_ancestor_of(SubSeq(path, 1, k), other) => k <= Len(c)

\* Mutant: always from the top.
between_from_top(path, other) ==
  LET below(a, d) == [k \in 1..(Len(d) - Len(a)) |-> SubSeq(d, 1, Len(a) + k)]
  IN IF is_ancestor_of(path, other) THEN below(path, other)
     ELSE IF is_ancestor_of(other, path) THEN below(other, path)
     ELSE << >>

\* Mutant: the descendant itself is left out.
between_exclusive(path, other) ==
  IF is_ancestor_of(path, other)
  THEN [k \in 1..(Len(other) - Len(path) - 1) |-> SubSeq(other, 1, Len(path) + k)]
  ELSE [k \in 1..(Len(path) - Len(other)) |-> SubSeq(path, 1, Len(path) + 1 - k)]

\* The paths strictly below the ancestor down to the descendant: from the top
\* when `path` is the ancestor, from the bottom when `other` is.
between(path, other) ==
  IF is_ancestor_of(path, other)
  THEN [k \in 1..(Len(other) - Len(path)) |-> SubSeq(other, 1, Len(path) + k)]
  ELSE IF is_ancestor_of(other, path)
  THEN [k \in 1..(Len(path) - Len(other)) |-> SubSeq(path, 1, Len(path) + 1 - k)]
  ELSE << >>

(***************************************************************************)
(* Building pipelines (the public builder API)                             *)
(***************************************************************************)

\* Pipeline::default(); `none` is the absent limits factory.
default(none) ==
  [p \in {<< >>} |->
     [prologue |-> FALSE, epilogue |-> FALSE, steps |-> << >>, limits |-> none]]

with_prologue(t) == [t EXCEPT ![<< >>].prologue = TRUE]

with_epilogue(t) == [t EXCEPT ![<< >>].epilogue = TRUE]

with_step(t) == [t EXCEPT ![<< >>].steps = Append(@, "Step")]

with_limits(t, factory) == [t EXCEPT ![<< >>].limits = factory]

with_pipeline(t, behavior, nested) ==
  LET ix == Len(t[<< >>].steps) + 1 IN
  [p \in DOMAIN t \cup {<<ix>> \o q : q \in DOMAIN nested} |->
     IF p = << >> THEN [t[<< >>] EXCEPT !.steps = Append(@, behavior)]
     ELSE IF p[1] = ix THEN nested[Tail(p)]
     ELSE t[p]]

is_empty(p) == ~p.prologue /\ ~p.epilogue /\ p.steps = << >>

\* What the builder API can produce.
WellFormed(t) ==
  /\ DOMAIN t \subseteq Seq(Nat)
  /\ IsFiniteSet(DOMAIN t)
  /\ << >> \in DOMAIN t
  /\ \A p \in DOMAIN t :
       /\ t[p].prologue \in BOOLEAN
       /\ t[p].epilogue \in BOOLEAN
       /\ t[p].steps \in Seq(StepOrPipeline)
       /\ Len(t[p].steps) < EPILOGUE_INDEX
       /\ \A i \in DOMAIN t[p].steps :
            t[p].steps[i] \in Behavior <=> Append(p, i) \in DOMAIN t
       /\ p # << >> => /\ scope_of(p) \in DOMAIN t
                       /\ leaf(p) \in DOMAIN t[scope_of(p)].steps

(***************************************************************************)
(* The steps of a pipeline                                                 *)
(***************************************************************************)

\* The paths of all executable steps, prologues and epilogues included.
StepPaths(t) ==
  {Append(p, PROLOGUE_INDEX) : p \in {q \in DOMAIN t : t[q].prologue}}
  \cup {Append(p, EPILOGUE_INDEX) : p \in {q \in DOMAIN t : t[q].epilogue}}
  \cup UNION {{Append(p, i) : i \in {j \in DOMAIN t[p].steps : t[p].steps[j] = "Step"}}
                : p \in DOMAIN t}

Optional(present, path) == IF present THEN <<path>> ELSE << >>

\* StepPathIter::next: what the frame of pipeline f[1] yields from its item f[2] on;
\* a nested pipeline pushes a frame that is drained first.
iter_frame(t) ==
  LET yield[f \in (DOMAIN t) \X (Nat \ {0})] ==
        LET p == f[1]
            i == f[2]
            item == Append(p, i)
        IN IF i > Len(t[p].steps)
           THEN Optional(t[p].epilogue, Append(p, EPILOGUE_INDEX))
           ELSE (IF item \in DOMAIN t
                 THEN Optional(t[item].prologue, Append(item, PROLOGUE_INDEX))
                      \o yield[<<item, 1>>]
                 ELSE <<item>>)
                \o yield[<<p, i + 1>>]
  IN yield

\* Mutant: the frame of the root pipeline does not yield its prologue.
iter_steps_without_prologue(t) == iter_frame(t)[<< << >>, 1>>]

\* The steps that before_job and after_job are called for, in this order.
iter_steps(t) ==
  Optional(t[<< >>].prologue, <<PROLOGUE_INDEX>>) \o iter_frame(t)[<< << >>, 1>>]
=============================================================================
