--------------------------- MODULE MCPipelineExec ---------------------------
(***************************************************************************)
(* Pipelines for the executor: the example of scope.rs and small pipelines *)
(* that start, end and loop in nested pipelines, with every kind of limits *)
(* factory.                                                                *)
(***************************************************************************)
EXTENDS PipelineExec

MCIntMax == 16

MCPlatformLimits == default_limits(2, 2, 7, 5)

Tight == [gas_limit |-> 1, max_blob_count |-> NoLimit, max_transactions |-> 2, deadline |-> 1]
NoDeadline == [gas_limit |-> 2, max_blob_count |-> 1, max_transactions |-> NoLimit,
               deadline |-> NoLimit]

Half == Scaled(Fraction(1, 2), Keep, Keep, Fraction(1, 2))
Any == Custom({NoDeadline, MCPlatformLimits})
LessEpilogue == LimitsMinusEpilogue(1)

\* The limits that arise in nested scopes: six rounds reach a closed set.
WithNested(L) ==
  L \cup UNION {scope_limits(f, l) : f \in {Half, Any, LessEpilogue}, l \in L}

MCLimitsSet ==
  WithNested(WithNested(WithNested(WithNested(WithNested(WithNested({MCPlatformLimits}))))))

P == default(NoFactory)
S(t) == with_step(t)
PE(t) == with_prologue(with_epilogue(t))

\* The pipeline drawn at the top of scope.rs.
ScopeExample ==
  LET s2_3 == with_limits(S(S(S(P))), Half)
      s2 == S(with_pipeline(S(S(P)), "Loop", s2_3))
  IN with_limits(S(with_pipeline(S(PE(P)), "Loop", s2)), FixedLimits(Tight))

\* Nested pipelines one level deep, and what may hold them.
Leaves == {with_limits(S(P), f) : f \in {NoFactory, Half, Any}}
          \cup {S(S(PE(P))), with_epilogue(S(P))}

Middles(b) == {with_pipeline(t, b, n) :
                 t \in {P, S(P), with_limits(with_epilogue(P), LessEpilogue)}, n \in Leaves}

\* Every loop has a step of its own: only a step that is directly in a loop can break it.
MCPipelines ==
  {P, PE(P), S(S(P)), ScopeExample,
   with_pipeline(with_pipeline(P, "Loop", S(P)), "Loop", S(P)),
   with_pipeline(P, "Loop", S(with_pipeline(P, "Loop", S(S(PE(P))))))}
  \cup {with_pipeline(P, "Loop", S(m)) : m \in Middles("Once") \cup Middles("Loop")}
  \cup {S(with_pipeline(S(P), "Once", m)) : m \in Middles("Loop")}
  \cup {with_limits(with_pipeline(PE(P), "Loop", S(m)), Any) : m \in Middles("Once")}
=============================================================================
