------------------------------- MODULE MCNavi -------------------------------
(***************************************************************************)
(* Every pipeline of at most two items per level, two levels deep, and a   *)
(* selection three levels deep, for the walk of NaviReference.             *)
(***************************************************************************)
EXTENDS NaviReference

NoLimits == "none"

\* Root pipeline with the given prologue and epilogue, before its items.
Frame(pro, epi) ==
  LET p == IF pro THEN with_prologue(default(NoLimits)) ELSE default(NoLimits)
  IN IF epi THEN with_epilogue(p) ELSE p

Frames == {Frame(pro, epi) : pro, epi \in BOOLEAN}

WithNested(T, N) == {with_pipeline(t, b, n) : t \in T, b \in Behavior, n \in N}

Grow(T, N) == {with_step(t) : t \in T} \cup WithNested(T, N)

Flat == Frames \cup {with_step(f) : f \in Frames}
        \cup {with_step(with_step(f)) : f \in Frames}

NonEmptyFlat == Flat \ {default(NoLimits)}

TwoLevels == Flat \cup Grow(Frames, NonEmptyFlat) \cup Grow(Grow(Frames, NonEmptyFlat), NonEmptyFlat)

\* Two-level pipelines to nest once more: the innermost one first, last, or both.
Inner == WithNested(Frames, NonEmptyFlat)

Inner2 == Inner \cup {with_step(t) : t \in Inner}
          \cup WithNested({with_step(default(NoLimits))}, NonEmptyFlat)

ThreeLevels == WithNested(Frames, Inner2)
               \cup {with_step(t) : t \in WithNested(Frames, Inner2)}

MCPrograms == TwoLevels \cup ThreeLevels
=============================================================================
