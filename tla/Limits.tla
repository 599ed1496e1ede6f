------------------------------- MODULE Limits -------------------------------
(***************************************************************************)
(* Payload limits: Limits::clamp (core platform/limits.rs) and the limits  *)
(* factories of pipeline scopes (pipelines/limits.rs).                     *)
(*                                                                         *)
(* gas_limit is a plain number, max_transactions and deadline are Options, *)
(* and max_blob_count stands for the blob parameters, which are there or   *)
(* not together.  Option's derived order puts None below every Some, so    *)
(* None is the number -1 and Option::min is the minimum.                   *)
(***************************************************************************)
EXTENDS Integers

CONSTANT IntMax   \* the largest value of the unsigned integers, where they saturate

ASSUME IntMaxNat == IntMax \in Nat

NoLimit == -1

UInt == 0..IntMax

OptUInt == {NoLimit} \cup UInt

\* struct Limits
Limits ==
  [gas_limit : UInt, max_blob_count : OptUInt, max_transactions : OptUInt, deadline : OptUInt]

\* EthereumDefaultLimits: the deadline is the time left until the timestamp of the block.
default_limits(gas, blobs, timestamp, now) ==
  [gas_limit |-> gas, max_blob_count |-> blobs, max_transactions |-> NoLimit,
   deadline |-> IF timestamp <= now THEN 0 ELSE timestamp - now]

least(a, b) == IF a <= b THEN a ELSE b

\* Blob parameters that one side does not have are those of the other.
clamp_blobs(a, b) == IF a = NoLimit THEN b ELSE IF b = NoLimit THEN a ELSE least(a, b)

\* Mutant: the deadline is not clamped.
clamp_without_deadline(self, other) ==
  [gas_limit        |-> least(self.gas_limit, other.gas_limit),
   max_blob_count   |-> clamp_blobs(self.max_blob_count, other.max_blob_count),
   max_transactions |-> least(self.max_transactions, other.max_transactions),
   deadline         |-> self.deadline]

clamp(self, other) ==
  [gas_limit        |-> least(self.gas_limit, other.gas_limit),
   max_blob_count   |-> clamp_blobs(self.max_blob_count, other.max_blob_count),
   max_transactions |-> least(self.max_transactions, other.max_transactions),
   deadline         |-> least(self.deadline, other.deadline)]

(***************************************************************************)
(* Scaling: op is "Keep" where the code's Option<ScaleOp> is None.         *)
(***************************************************************************)

Keep == [op |-> "Keep", n |-> 0, d |-> 1]

Fraction(n, d) == [op |-> "Fraction", n |-> n, d |-> d]

Minus(x) == [op |-> "Minus", n |-> x, d |-> 1]

Fixed(x) == [op |-> "Fixed", n |-> x, d |-> 1]

Zero == [op |-> "Zero", n |-> 0, d |-> 1]

saturating_mul(a, b) == least(a * b, IntMax)

saturating_sub(a, b) == IF a <= b THEN 0 ELSE a - b

\* ScaleOp<u64>::apply
apply(s, value) ==
  CASE s.op = "Fraction" -> saturating_mul(value, s.n) \div s.d
    [] s.op = "Minus"    -> saturating_sub(value, s.n)
    [] s.op = "Fixed"    -> s.n
    [] s.op = "Zero"     -> 0
    [] s.op = "Keep"     -> value

\* ScaleOp<usize>::apply: a fixed value does not replace an absent limit ...
apply_usize(s, value) ==
  IF value = NoLimit /\ s.op # "Zero" THEN NoLimit ELSE apply(s, value)

\* ... ScaleOp<Duration>::apply: here it does.
apply_duration(s, value) ==
  IF value = NoLimit /\ s.op \notin {"Zero", "Fixed"} THEN NoLimit ELSE apply(s, value)

\* Blob parameters are scaled where they are present.
apply_blobs(s, value) == IF value = NoLimit THEN NoLimit ELSE apply(s, value)

(***************************************************************************)
(* Factories.  A user-defined ScopedLimits may return anything, depending  *)
(* on the payload: it is the set of the limits it may return.              *)
(***************************************************************************)

NoFactory == [kind |-> "none"]

FixedLimits(limits) == [kind |-> "fixed", limits |-> limits]

Scaled(gas, max_blobs, max_txs, deadline) ==
  [kind |-> "scaled", gas |-> gas, max_blobs |-> max_blobs, max_txs |-> max_txs,
   deadline |-> deadline]

\* BuilderEpilogue::limiter: leaves room for the transaction of the epilogue.
LimitsMinusEpilogue(gas_estimate) == Scaled(Minus(gas_estimate), Keep, Keep, Keep)

Custom(outputs) == [kind |-> "custom", outputs |-> outputs]

\* The limits a factory may create inside a scope with limits `enclosing`.
create(factory, enclosing) ==
  CASE factory.kind = "none"   -> {enclosing}
    [] factory.kind = "fixed"  -> {factory.limits}
    [] factory.kind = "scaled" ->
         {[gas_limit        |-> apply(factory.gas, enclosing.gas_limit),
           max_blob_count   |-> apply_blobs(factory.max_blobs, enclosing.max_blob_count),
           max_transactions |-> apply_usize(factory.max_txs, enclosing.max_transactions),
           deadline         |-> apply_duration(factory.deadline, enclosing.deadline)]}
    [] factory.kind = "custom" -> factory.outputs

\* ... and what remains of them in that scope.
scope_limits(factory, enclosing) ==
  {clamp(created, enclosing) : created \in create(factory, enclosing)}
=============================================================================
