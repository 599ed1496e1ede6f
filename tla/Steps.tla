-------------------------------- MODULE Steps --------------------------------
(***************************************************************************)
(* Standard steps on a payload, alone or under a combinator: OrderBy       *)
(* (steps/ordering), OptimismPrologue (steps/optimism.rs), BuilderEpilogue *)
(* (steps/builder.rs), and Chain and Atomic (steps/combinator); OneStep,   *)
(* the pipeline that tests put around a step (test_utils/step.rs); and the *)
(* blocks that a rollup builds from payloads.  The step that removes       *)
(* failures is in Checkpoint.                                              *)
(*                                                                         *)
(* `run` is one combinator at work: the payload it was given, the one it   *)
(* has now, the steps that are left, and what they returned.  AppendOrders *)
(* appears as a step that adds one transaction or breaks.                  *)
(***************************************************************************)
EXTENDS Checkpoint

CONSTANTS
  Tip(_),          \* the tip of a transaction over the base fee, None if it is below
  Sequencer,       \* transactions in the payload attributes of a rollup
  GasLimits,       \* how many of them the limits of the scope have room for: the smaller
                   \* of the two numbers that fit the gas and the data
  Builder,         \* the signer of the epilogue
  Combinators      \* [kind, steps]

StepNames == {"order_by", "prologue", "epilogue", "required_epilogue", "append_orders"}

ASSUME CombinatorsHaveSteps ==
  \A c \in Combinators : /\ c.kind \in {"atomic", "chain", "one_step"}
                         /\ c.steps \in Seq(StepNames)
                         /\ c.kind = "one_step" => Len(c.steps) = 1

ASSUME SendersAreSenders == Sequencer \in Seq(TxSet) /\ Builder \in Signers

VARIABLE run

stepVars == <<vars, run>>

Running == run.pc # "idle"

NoRun == [pc |-> "idle"]

StepsInit == Init /\ run = NoRun

(***************************************************************************)
(* Combinators                                                             *)
(***************************************************************************)

\* The payload of a job is the newest checkpoint; all others are before it.
Start(combinator, gas_limit) ==
  LET payload == Len(checkpoints) IN
  /\ ~Running
  /\ removal.pc = "idle"
  /\ depth(payload) = payload - 1
  /\ run' = [pc |-> "between", kind |-> combinator.kind, steps |-> combinator.steps,
             initial |-> payload, current |-> payload, flows |-> << >>,
             gas_limit |-> gas_limit, work |-> << >>, prefix |-> NoCheckpoint]
  /\ UNCHANGED vars

\* What the combinator itself returns.
returned(flow, payload) ==
  [run EXCEPT !.pc = flow, !.current = payload, !.work = << >>, !.prefix = NoCheckpoint]

\* Mutant: what the steps before have done stays.
atomic_keeping_work(flow, payload) ==
  IF flow = "ok" THEN [returned("between", payload) EXCEPT !.flows = Append(@, flow)]
  ELSE [returned("ok", run.current) EXCEPT !.flows = Append(@, flow)]

\* Atomic::step after one of its steps.
atomic(flow, payload) ==
  IF flow = "ok" THEN [returned("between", payload) EXCEPT !.flows = Append(@, flow)]
  ELSE [returned("ok", run.initial) EXCEPT !.flows = Append(@, flow)]

\* Chain::step after one of its steps.
chain(flow, payload) ==
  IF flow = "ok" THEN [returned("between", payload) EXCEPT !.flows = Append(@, flow)]
  ELSE [returned(flow, payload) EXCEPT !.flows = Append(@, flow)]

\* OneStep: the step is all there is between the one that fills the payload, which has
\* been done when it starts, and those that record its result.
one_step(flow, payload) == [returned("recording", payload) EXCEPT !.flows = Append(@, flow)]

StepReturns(flow, payload) ==
  run' = CASE run.kind = "atomic"   -> atomic(flow, payload)
           [] run.kind = "chain"    -> chain(flow, payload)
           [] run.kind = "one_step" -> one_step(flow, payload)

\* The deadline is looked at before every step and after the last one.
DeadlineReached ==
  /\ run.pc = "between"
  /\ run.kind # "one_step"
  /\ run' = IF run.kind = "atomic" THEN returned("ok", run.initial)
            ELSE returned("break", run.current)
  /\ UNCHANGED vars

Finish ==
  /\ run.pc = "between"
  /\ Len(run.flows) = Len(run.steps)
  /\ run' = returned("ok", run.current)
  /\ UNCHANGED vars

Calls(step) ==
  /\ run.pc = "between"
  /\ Len(run.flows) < Len(run.steps)
  /\ run.steps[Len(run.flows) + 1] = step

(***************************************************************************)
(* OneStep: three channels, read when the block is there                   *)
(***************************************************************************)

\* The step behind runs only after an Ok ...
RecordOk(flow) == IF flow = "ok" THEN {"ok"} ELSE {}

\* Mutant: a failure is not noted when the job ends.
RecordBreakOnly(flow, built) == IF flow # "fail" THEN {"break"} ELSE {}

\* ... the epilogue after a break, too, and its after_job sees whether the job failed, in
\* the step or when the block was built.
RecordBreakAndFail(flow, built) ==
  (IF flow # "fail" THEN {"break"} ELSE {}) \cup
  (IF flow = "fail" \/ built = "err" THEN {"fail"} ELSE {})

\* OneStep::run: with nothing recorded it has no result.
reported(recorded) ==
  CASE "ok" \in recorded   -> "ok"
    [] "ok" \notin recorded /\ "fail" \in recorded -> "fail"
    [] recorded = {"break"} -> "break"
    [] OTHER                -> "none"

EndOneStep ==
  /\ run.pc = "recording"
  /\ \E built \in {"ok", "err"} :
       LET recorded == RecordOk(Head(run.flows)) \cup RecordBreakAndFail(Head(run.flows), built)
       IN run' = [run EXCEPT !.pc = reported(recorded)]
  /\ UNCHANGED vars

(***************************************************************************)
(* OrderBy::step                                                           *)
(***************************************************************************)

\* Of a transaction or of a bundle with its marks; barriers have none.
hash(c) == [kind |-> checkpoints[c].mutation.kind, source |-> checkpoints[c].mutation.source]

nonces(c) == {<<tx.signer, tx.nonce>> : tx \in ToSet(transactions(c))}

\* PriorityFeeScore: transactions that have a tip.
score(c) ==
  FoldLeft(LAMBDA sum, tx : IF Tip(tx) \in Nat THEN sum + Tip(tx) ELSE sum, 0, transactions(c))

\* all_orders: the staged orders by their hash; of two with one hash the last one stays.
all_orders(span) ==
  LET orders == {c \in ToSet(span) : ~is_barrier(c)}
  IN {c \in orders : \A d \in orders : hash(c) = hash(d) => d <= c}

\* Mutant: nonces are not looked at.
ready_any(left, unused) == left

\* Orders none of whose signers has a lower nonce left, that of the order itself included.
ready(left, unused) ==
  {c \in left : \A n \in nonces(c) : ~\E m \in unused : m[1] = n[1] /\ m[2] < n[2]}

\* The highest score; among equals the order of their hashes decides, which is arbitrary.
pop_best(s) ==
  LET candidates == ready(s.left, s.unused)
      best == CHOOSE c \in candidates : \A d \in candidates : score(d) <= score(c)
  IN IF candidates = {} THEN s
     ELSE [left |-> s.left \ {best}, unused |-> s.unused \ nonces(best),
           ordered |-> Append(s.ordered, best)]

\* SortedOrders: pops until nothing is left that is ready.
sorted(span) ==
  LET all == all_orders(span)
      start == [left |-> all, unused |-> UNION {nonces(c) : c \in all}, ordered |-> << >>]
  IN FoldLeft(LAMBDA s, c : pop_best(s), start, span).ordered

\* The first of the staged checkpoints is the barrier, which is never what the first of
\* the sorted orders is: all of them are applied again, on top of the barrier.
OrderBy ==
  /\ Calls("order_by")
  /\ \E staging \in {history_staging(run.current)} : \E ordered \in {sorted(staging)} :
       IF ordered = << >> THEN StepReturns("ok", run.current)
       ELSE run' = [run EXCEPT !.pc = "ordering", !.prefix = Head(staging), !.work = ordered]
  /\ UNCHANGED vars

\* A score that is read from the state of the payload, as CoinbaseProfitScore is, may fail.
ScoreFails ==
  /\ Calls("order_by")
  /\ all_orders(history_staging(run.current)) # {}
  /\ StepReturns("fail", run.current)
  /\ UNCHANGED vars

\* What Checkpoint::apply can make of a checkpoint's order on top of another.
executions(c, on) ==
  LET m == checkpoints[c].mutation IN
  IF m.kind = "transaction" THEN {execute_transaction(m.source, database(on), o) : o \in Outcomes}
  ELSE {execute_bundle(m.source, database(on), o) : o \in BundleOutcomes(m.source)}

ApplyOrdered ==
  /\ run.pc = "ordering"
  /\ run.work # << >>
  /\ \E execution \in executions(Head(run.work), run.prefix) :
       IF execution.error # "none"
       THEN StepReturns("fail", run.current) /\ UNCHANGED checkpoints
       ELSE /\ checkpoints' = apply_with(run.prefix, execution.mutation)
            /\ run' = [run EXCEPT !.prefix = Len(checkpoints'), !.work = Tail(@)]
  /\ UNCHANGED removal

\* The assertion on the length of the payload.
EndOrderBy ==
  /\ run.pc = "ordering"
  /\ run.work = << >>
  /\ IF depth(run.prefix) = depth(run.current) THEN StepReturns("ok", run.prefix)
     ELSE run' = [run EXCEPT !.pc = "panic"]
  /\ UNCHANGED vars

(***************************************************************************)
(* OptimismPrologue::step                                                  *)
(***************************************************************************)

\* Transactions of the sequencer must be the first ones.
Prologue ==
  /\ Calls("prologue")
  /\ IF \E c \in ToSet(history(run.current)) : transactions(c) # << >>
     THEN StepReturns("fail", run.current)
     ELSE run' = [run EXCEPT !.pc = "prologue", !.prefix = run.current, !.work = Sequencer]
  /\ UNCHANGED vars

\* One that cannot be applied, or exceeds the limit of gas or that of data, ends the job.
ApplySequencer ==
  /\ run.pc = "prologue"
  /\ run.work # << >>
  /\ \E execution \in {execute_transaction(Head(run.work), database(run.prefix), o) : o \in Outcomes} :
       IF execution.error # "none" THEN StepReturns("fail", run.current) /\ UNCHANGED checkpoints
       ELSE /\ checkpoints' = apply_with(run.prefix, execution.mutation)
            /\ IF Len(Sequencer) - Len(run.work) + 1 > run.gas_limit
               THEN StepReturns("fail", run.current)
               ELSE run' = [run EXCEPT !.prefix = Len(checkpoints'), !.work = Tail(@)]
  /\ UNCHANGED removal

\* Mutant: no barrier.
EndPrologueOpen ==
  /\ run.pc = "prologue"
  /\ run.work = << >>
  /\ StepReturns("ok", run.prefix)
  /\ UNCHANGED vars

\* Behind them a barrier keeps other steps off.
EndPrologue ==
  /\ run.pc = "prologue"
  /\ run.work = << >>
  /\ IF depth(run.prefix) > 0
     THEN checkpoints' = apply_with(run.prefix, Barrier) /\ StepReturns("ok", Len(checkpoints'))
     ELSE StepReturns("ok", run.prefix) /\ UNCHANGED checkpoints
  /\ UNCHANGED removal

(***************************************************************************)
(* BuilderEpilogue::step, and AppendOrders                                 *)
(***************************************************************************)

\* It has the nonce that its signer has in the payload, and changes nothing else.
builder_tx == Tx(Builder, basic_ref(run.current, Builder), Builder, 0)

\* Without it the job fails if it is required.
Epilogue(required) ==
  /\ Calls(IF required THEN "required_epilogue" ELSE "epilogue")
  /\ \E execution \in {execute_transaction(builder_tx, database(run.current), o) : o \in Outcomes} :
       IF execution.error # "none"
       THEN /\ StepReturns(IF required THEN "fail" ELSE "ok", run.current)
            /\ UNCHANGED checkpoints
       ELSE /\ checkpoints' = apply_with(run.current, execution.mutation)
            /\ StepReturns("ok", Len(checkpoints'))
  /\ UNCHANGED removal

AppendOrder(tx) ==
  /\ Calls("append_orders")
  /\ \E execution \in {execute_transaction(tx, database(run.current), o) : o \in Outcomes} :
       /\ execution.error = "none"
       /\ checkpoints' = apply_with(run.current, execution.mutation)
  /\ StepReturns("ok", Len(checkpoints'))
  /\ UNCHANGED removal

AppendNothing ==
  /\ Calls("append_orders")
  /\ StepReturns("break", run.current)
  /\ UNCHANGED vars

(***************************************************************************)
(* Blocks of a rollup.  Its payload builder is external: it puts the       *)
(* transactions of the sequencer first and executes them and those it is   *)
(* given, one after the other, leaving out what has a wrong nonce.  What   *)
(* it leaves out for its own limits of gas and data is not modelled.       *)
(***************************************************************************)

payload_transactions(c) ==
  LET h == history(c) IN FlattenSeq([i \in DOMAIN h |-> transactions(h[i])])

NoBlock == [nonces |-> [a \in Addresses |-> Base[a].info], txs |-> << >>]

\* The transactions of the sequencer are not given to the builder, which adds them: as
\* many as are at their place in the payload are left out at its beginning.
extract_external_txs(c) ==
  LET txs == payload_transactions(c)
      prefix_len == Cardinality({i \in DOMAIN Sequencer \cap DOMAIN txs : txs[i] = Sequencer[i]})
  IN SubSeq(txs, prefix_len + 1, Len(txs))

include(b, tx) == [b EXCEPT !.nonces[tx.signer] = tx.nonce + 1, !.txs = Append(@, tx)]

optimism_step(b, tx) == IF tx.nonce = b.nonces[tx.signer] THEN include(b, tx) ELSE b

build_optimism(c) == FoldLeft(optimism_step, NoBlock, Sequencer \o extract_external_txs(c)).txs

StepsNext ==
  \/ ~Running /\ Next /\ UNCHANGED run
  \/ \E c \in Combinators, limit \in GasLimits : Start(c, limit)
  \/ DeadlineReached \/ Finish \/ EndOneStep
  \/ OrderBy \/ ScoreFails \/ ApplyOrdered \/ EndOrderBy
  \/ Prologue \/ ApplySequencer \/ EndPrologue
  \/ \E required \in BOOLEAN : Epilogue(required)
  \/ AppendNothing
  \/ \E tx \in Transactions : AppendOrder(tx)

\* The removal runs to its end without waiting for anything.
StepsSpec ==
  /\ StepsInit
  /\ [][StepsNext]_stepVars
  /\ WF_stepVars((Reapply \/ EndRemoval) /\ UNCHANGED run)

(***************************************************************************)
(* Properties                                                              *)
(***************************************************************************)

\* Two orders that have one hash: a bundle of which nothing was left, twice.
repeats(span) == \E c, d \in ToSet(span) : c # d /\ ~is_barrier(c) /\ ~is_barrier(d) /\ hash(c) = hash(d)

\* A bundle that has two transactions of one signer.
sends_twice(c) == Cardinality({n[1] : n \in nonces(c)}) # Len(transactions(c))

\* "During the sorting transactions will preserve their sender/nonce dependencies", and
\* the assertion that the length does not change: all staged orders are applied again,
\* each when no better one could be, and the assertion does not fail, unless an order is
\* there twice, a bundle has two transactions of one signer, or one has been sent with an
\* optional transaction twice (see PayloadsAreValid).
OrderingKeepsOrders ==
  run.pc \in {"ordering", "panic"} =>
    LET staging == history_staging(run.current)
        ordered == sorted(staging)
        after(i) == {ordered[k] : k \in i..Len(ordered)}
        waits(c, others) == \E d \in others \ {c} : \E n \in nonces(c), m \in nonces(d) :
                              n[1] = m[1] /\ m[2] < n[2]
    IN \/ ~OnceIn(run.current) \/ repeats(staging) \/ \E c \in ToSet(staging) : sends_twice(c)
       \/ /\ run.pc # "panic"
          /\ ToSet(ordered) = {c \in ToSet(staging) : ~is_barrier(c)}
          /\ \A i \in DOMAIN ordered :
               /\ ~waits(ordered[i], after(i))
               /\ \A c \in after(i) : score(c) > score(ordered[i]) => waits(c, after(i))

\* "executes a sequence of steps with atomic (all-or-nothing) semantics": the payload is
\* the one that was given, or all steps have returned Ok.  A chain that returns Ok has
\* had all its steps return Ok, too.
AllOrNothing ==
  run.pc = "ok" =>
    \/ run.kind = "atomic" /\ run.current = run.initial
    \/ run.flows = [i \in DOMAIN run.steps |-> "ok"]

\* The block that is built on a rollup has exactly the transactions of the payload, in its
\* order, which is what the steps have judged, when the payload begins with the prologue:
\* whatever the steps behind it do ("the sequencer expects its transactions to be at the
\* top of the block") as long as Atomic does not take the prologue back, although the
\* builder puts the sequencer's transactions there by itself.  The builder is taken to have
\* room for the payload, and bundles with an optional transaction twice are left out (see
\* PayloadsAreValid): their transactions can be in an order that has no valid block.
BlockIsThePayload ==
  /\ Running /\ run.flows # << >> /\ Head(run.steps) = "prologue" /\ Head(run.flows) = "ok"
  /\ run.kind # "atomic" \/ run.current # run.initial
  /\ OnceIn(run.current)
  => build_optimism(run.current) = payload_transactions(run.current)

\* What a test of one step gets to see is what the step returned, although a break also
\* runs the epilogue and the job goes on after it; but a break is reported as a failure
\* when no block can be built.
OneStepReportsTheStep ==
  Running /\ run.kind = "one_step" /\ run.pc \in {"ok", "break", "fail", "none"} =>
    \/ run.pc = Head(run.flows)
    \/ run.pc = "fail" /\ Head(run.flows) = "break"

(***************************************************************************)
(* What an assertion says                                                  *)
(***************************************************************************)

\* "payload length should not change after priority fee ordering": the assertion at the
\* end of OrderBy::step does not fail.  It does when the staged orders contain a bundle
\* with two transactions of one signer: the lower of its own nonces keeps it waiting.
OrderingNeverPanics == run.pc # "panic"
=============================================================================
