-------------------------------- MODULE Navi --------------------------------
(***************************************************************************)
(* StepNavigator (pipelines/exec/navi.rs): which step runs after a step,   *)
(* for each of its outcomes.  A navigator is a path into a pipeline t; the *)
(* vector of enclosing pipelines the code carries along is t at the        *)
(* prefixes of the path.                                                   *)
(***************************************************************************)
EXTENDS Pipeline

\* The first executable step of the pipeline at path p.  The recursion is the
\* code's entrypoint -> enter -> entrypoint down the first items.
entrypoint(t) ==
  LET first[p \in DOMAIN t] ==
        IF is_empty(t[p]) THEN NoStep
        ELSE IF t[p].prologue THEN Append(p, PROLOGUE_INDEX)
        ELSE IF t[p].steps = << >> THEN Append(p, EPILOGUE_INDEX)
        ELSE IF Append(p, STEP0_INDEX) \in DOMAIN t
             THEN first[Append(p, STEP0_INDEX)]
             ELSE Append(p, STEP0_INDEX)
  IN first

\* From an item to its first executable step.
enter(t, path) ==
  IF is_prologue(path) \/ is_epilogue(path) THEN path
  ELSE IF leaf(path) \notin DOMAIN t[scope_of(path)].steps THEN NoStep
  ELSE IF path \in DOMAIN t THEN entrypoint(t)[path]
  ELSE path

\* How the pipeline that holds `path` repeats; the root pipeline never does.
behavior(t, path) ==
  IF is_toplevel(path) THEN "Once"
  ELSE LET parent == scope_of(path) IN t[scope_of(parent)].steps[leaf(parent)]

\* `steps().is_empty()` cannot hold for a caller that comes from an item.
enter_step0(t, path) == enter(t, replace_leaf(path, STEP0_INDEX))

\* The step after the pipeline that holds `path` has finished.  The recursion
\* is next_in_parent -> after_loop -> next_in_parent up the ancestors.
next_in_parent(t, path) ==
  LET after[s \in DOMAIN t] ==
        IF s = << >> THEN NoStep
        ELSE IF leaf(s) >= Len(t[scope_of(s)].steps)
        THEN IF behavior(t, s) = "Loop" THEN enter_step0(t, s)
             ELSE IF t[scope_of(s)].epilogue THEN replace_leaf(s, EPILOGUE_INDEX)
             ELSE after[scope_of(s)]
        ELSE enter(t, increment_leaf(s))
  IN after[scope_of(path)]

after_loop(t, path) ==
  IF t[scope_of(path)].epilogue
  THEN replace_leaf(path, EPILOGUE_INDEX)
  ELSE next_in_parent(t, path)

after_prologue(t, path) ==
  IF t[scope_of(path)].steps = << >>
  THEN after_loop(t, path)
  ELSE enter_step0(t, path)

\* The next step when the step at `path` returned ControlFlow::Ok.
next_ok(t, path) ==
  IF is_epilogue(path) THEN next_in_parent(t, path)
  ELSE IF is_prologue(path) THEN after_prologue(t, path)
  ELSE IF leaf(path) < Len(t[scope_of(path)].steps) THEN enter(t, increment_leaf(path))
  ELSE IF behavior(t, path) = "Loop" THEN enter(t, replace_leaf(path, STEP0_INDEX))
  ELSE after_loop(t, path)

\* Mutant: a break skips the epilogue.
next_break_skipping_epilogue(t, path) == next_in_parent(t, path)

\* The next step when the step at `path` returned ControlFlow::Break.
next_break(t, path) ==
  IF is_epilogue(path) THEN next_in_parent(t, path) ELSE after_loop(t, path)
=============================================================================
