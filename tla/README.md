# rblib in TLA+

TLA+ models of the parts of rblib that decide what a payload builder does: which
step of a pipeline runs next, under which limits, what a payload job promises to
the node, which orders the pools offer to it, what becomes of them when they are
executed, on which state, and which block comes out. TLC checks them on small
instances; the safety of the navigator and the executor, of payload jobs, the order pools,
the host node, the state cache, AppendOrders, checkpoints and the standard steps is
proved with TLAPS for every value of their constants.

## The system

A *pipeline* is a tree of *steps*. For each payload the node asks for, the
payload service makes a *job*; the job drives an *executor*, a future that runs
`before_job` of every step, then the steps as the *navigator* orders them, then
`after_job` of every step, and resolves with a payload or an error. The pipelines
of the tree are *scopes* with limits that are created when the scope is entered.
Steps extend an immutable chain of *checkpoints*; one of them, `AppendOrders`,
takes transactions and bundles from the *order pool*, which RPC calls fill and a
maintenance loop cleans as the chain moves. Components talk over an *events bus*
of bounded broadcast channels.

| component | state | operations | how it interacts | what makes it correct |
|---|---|---|---|---|
| pipeline tree (`pipelines/mod.rs`, `iter.rs`) | none, immutable | builder API, `iter_steps` | read by all others | the hooks visit each step that can run, once |
| navigator (`exec/navi.rs`) | a path | `entrypoint`, `next_ok`, `next_break` | called after each step | goes where a structured reading of the pipeline goes |
| scopes (`exec/scope.rs`) | current path, per scope: entered or not, limits | `enter`, `leave`, `switch_context`, drop | called by the executor | no assertion fails; active scopes are a chain; limits are nested and renewed |
| limits (`pipelines/limits.rs`, core `platform/limits.rs`) | none | `create`, `apply`, `clamp` | called by scopes | nothing exceeds what encloses it |
| executor (`exec/mod.rs`) | cursor, hooks done, output | `poll`, drop | polled by jobs and requests; publishes events | one result, one terminal event that matches it; scopes left; resolves |
| payload job (`job.rs`, `service.rs`), step instances (`step/instance.rs`) | deadline, shared future, steps set up | `setup`, `poll`, `resolve_kind`, clone | polled by the service, answers requests | the executor lives as long as someone waits; jobs end by their deadline; setup is over before jobs begin |
| order pool (`pool/`) | orders, index by transaction, tip header | `insert`, `remove`, `remove_any_with`, `report_*`, `best_orders_for_block` | RPC threads, maintenance task, event listener, jobs | orders of committed transactions and hopeless bundles are collected |
| host node, native pool (`pool/host.rs`, `native.rs`, `setup.rs`) | boxed pool behind a raw pointer, instances, tip | `attach`, `maintenance_loop`, the methods of the dispatch table, clone, drop | the node, tasks that use the pool | no use after free; the tip follows the chain |
| bundles (core `platform/bundle/`) | transactions, marks, inclusion window | `eligibility_at`, `without_transaction` | asked by pool, RPC and execution | permanent means permanent; marks are obeyed |
| `AppendOrders` (`pool/step.rs`) | attempted orders, counters, one run | `before_job`, `step`, `after_job` | pools, checkpoints, events, other jobs | no transaction twice; limits kept; loops around it end |
| checkpoints, spans, execution (core `payload/`) | tree of mutations | `apply`, `barrier`, state lookups, `between` | steps | lookups give the state of the history; every payload is valid; bundle rules |
| state cache (core `payload/ext/cached_state.rs`, `block.rs`, `service.rs`) | reads of one block, storage caches shared by copies | `on_new_state`, `maybe_pre_cached`, cached reads | node events, jobs | a job reads the state of its parent and no other |
| standard steps (`steps/`) | per run | `step` | checkpoints | revert protection, ordering, atomicity, sequencer transactions first |
| platforms (core `platform/ethereum`, `optimism`) | none | `build_payload`, default limits | executor, builders of reth | the block of a rollup is the payload |
| order pool 2 (`orderpool2/`) | simulation tree; queue by priority | push, results; insert, pop, update | steps, simulations | nobody waits for what is there; dependencies respected; indexes agree |
| test utilities (`test_utils/`) | `LocalNode`: block time; `OneStep`: three channels | `next_block`, `run` | node, pipeline | attributes are accepted; a test sees what the step returned |

What is hard in it: jobs overlap and share step instances; the pool is written by
several threads through maps that are each safe and jointly not; copies of one
future are polled and dropped by different tasks while a deadline runs; channels
lose events; copies of a cache share parts of it; a pool is called and freed through
raw pointers; jumps between nested scopes are guarded by assertions; options and
saturating arithmetic decide limits. `PROJECT.json` lists these hazards at their
lines.

## Modules

| module | models | notes |
|---|---|---|
| `Pipeline` | tree, paths, builder API, `iter_steps` | a pipeline is a function from the paths of its pipelines to records |
| `Navi` | `StepNavigator` | operators on a pipeline and a path; recursion as recursive functions |
| `NaviReference` | a reference semantics | the pipeline as a structured program with a continuation stack; `Navi` moves when a step is on top of the stack, and between two steps the reference unfolds what is |
| `Limits` | `clamp`, `ScaleOp`, factories | a user-defined factory is the set of what it may return |
| `Scope` | `RootScope`, `Scope` | `active` are the scopes with `entered_at`; a failing assertion sets `panicked` |
| `PipelineExec` | `PipelineExecutor` | `cursor` is the code's cursor; one action per outcome of a poll |
| `PayloadJobLifecycle` | abstract specification | what a run promises: start, one end, one matching event |
| `PayloadJob` | setup, jobs, requests, the service | of an executor: whether it is inside a step instance, how it ends, and when it is dropped; that it ends, once, is what `PipelineExec` shows |
| `Bundle` | `FlashbotsBundle` | eligibility and the marks of transactions |
| `Execution` | `Executable` | the outcome of each transaction is a choice, its effect on nonces and storage is not |
| `Checkpoint` | `Checkpoint`, `Span`, `RemoveRevertedTransactions` | a checkpoint is its index in the sequence of all; the step runs from `BeginRemoval` to `EndRemoval` |
| `Steps` | `OrderBy`, `OptimismPrologue`, `BuilderEpilogue`, `Chain`, `Atomic`, `OneStep`, `build_payload` of Optimism | `run` is one combinator at work on a payload of `Checkpoint`; a step is one action or, when it applies several orders, one per order |
| `Payload` | sums over payloads | gas and blob gas of checkpoints and of spans, `None` as the code has it; the transactions of a span as a set, parts of a sequence as increasing functions to its positions (`Selections`) |
| `AppendOrders` | `AppendOrders`, `Run`, its counters | one instance of the step, several jobs; each access to what the jobs share, the attempted orders and the counters, is a step |
| `StateCache` | `JobGenerator`, `BlockContext`, `CachedStateProvider` | storage caches are named by who made them: that is what copies share |
| `OrderPool` | the pool and its four kinds of actors | each call on a concurrent map is a step |
| `HostNode` | `HostNode`, `NativeTransactionPool`, `LocalNode` | a box is an index into `heap`, a call holds it from begin to end |
| `SimTree` | `SimTree` | tasks are taken, results come in any order or never |
| `PrioritizedPool` | `PrioritizedOrderpool`, `AppendOrdersByPriority` | the step works on a copy of the pool |
| `PipelineExecProofs`, `PayloadJobProofs`, `OrderPoolProofs`, `HostNodeProofs`, `StateCacheProofs`, `OrderPool2Proofs`, `AppendOrdersProofs`, `StepsProofs` | | lemmas and theorems |
| `MC*` | | constants of the runs |

`PipelineExec` composes `Scope` (EXTENDS), which composes `Navi` and `Limits`;
`OrderPool` composes `Bundle`; `Checkpoint` composes `Execution`, which composes
`Bundle`; `Steps` extends `Checkpoint`; `AppendOrders` extends `Payload`;
`MCOrderPool2` runs `SimTree` and `PrioritizedPool`, which the code does not connect,
side by side. `PipelineExec` is shown to implement `PayloadJobLifecycle`; `PayloadJob`
takes from it that an executor that is polled goes on until it resolves, once, with any
result (`ImplementsLifecycle`, `Resolves`).
Definitions named *Mutant* are deliberately wrong variants of the definition after
them; each property is known to fail for the variant that `PROJECT.json` pairs it
with, and no specification uses them.

### Abstractions

* The executor does not see payloads: what a step, a hook or `build_payload` returns is a
  choice. Its behaviour does not depend on more. Payloads are what `Checkpoint` is
  about.
* In `Execution` a state has the nonce and one storage slot of each account. A
  transaction is invalid unless its nonce is that of its signer; otherwise it
  succeeds, fails or is invalid for any other reason. It writes to its target or
  destroys it; what has a key (`Signers`) is no contract and is not destroyed. A bundle's
  transactions are named by their hashes: equal records are the same transaction.
  Results and transactions are paired by their position, as `zip` does. `validate_post_execution` accepts all states, as that of
  `FlashbotsBundle` does.
* A transaction or bundle is executed between two steps of nothing else: checkpoints
  do not change, so that the order in which forks are extended is all there is to
  the interleaving of steps.
* `poll` runs through several cursor states in one call; each transition is an
  action. The executor can be dropped between any two of them.
* Time is the number of blocks in `Bundle` and `OrderPool`, and a flag that turns
  in `PayloadJob`. In `Limits` deadlines are durations, compared and not run down.
* `EPILOGUE_INDEX` is `usize::MAX`; the model has 1000, and `WellFormed` keeps the
  number of items below it.
* In `OrderPool`, `calls`, `inserted` and `dropped` record where a call is and what
  has happened. `retain` visits the bundles one at a time, any order:
  finer than the shards of the map. Blocks are events with one or more blocks,
  in a reorg in place of earlier ones.
* `AppendOrders` sees orders with gas, blob gas and signers, and payloads as sequences
  of what was applied; that `apply` is right is what `Checkpoint` and `Execution` are
  for. Every order may fail and lose optional transactions. Of the metrics there are the
  counters of orders; those of transactions and bundles are left out. The step of another
  job can run between any two accesses of a job to the attempted orders and to the
  counters. Two things are finer in the code: clearing the attempted orders goes from
  one shard of the set to the next, and resetting the counters from one atomic to the next.
  `overlapped` records which jobs have been under way at the same time.
* `StateCache` has accounts with an info and slots, and code by its hash. The chain is
  a tree of blocks; a provider of the state of a block always answers.
* `HostNode` groups the 60 methods of the dispatch table by what they return: what
  they do to the pool is that of the pool behind it. Durations are in half seconds,
  so that a fraction can be cut off. A node builds one block at a time: `next_block` takes
  a shared reference, but its callers wait for one block before they ask for the next.
  Chains only grow there (reorgs are in `OrderPool` and `StateCache`), and the stream of
  events does not lag. Platforms have no data, as those of the repository: with data,
  `Drop` of the dispatch table would free the pool as something it is not.
* The builder of the rollup (external) puts the transactions of the sequencer first, executes
  what it is given in order and leaves out what has the wrong nonce. It also leaves out what
  exceeds its own limits on gas and data: it is taken to have room for the payload. The
  builder of Ethereum is not modelled: it drops transactions by their gas limits, and those
  with blobs, since the pool it is given has no sidecars, so that its block is the payload
  only as far as this does not happen.
* The two limits that the rollup prologue compares with, gas and data, are one number: the
  smaller of the room that is left. A score of `OrderBy` may fail, as the one that reads
  balances does.
* No step keeps the output that `after_job` gives it: the executor expects to be its last
  owner and panics otherwise (exec/mod.rs:263).
* In `PrioritizedPool` nonces can always be read. The code swallows the error otherwise, and
  an order is then not inserted.
* `remove` of the order pool takes an order out of its own pool and the host's in one step.
* External, modelled from their use: the payload service of the node (drops a job
  whose future is ready and a job that was resolved), the notifications of the
  canonical chain, the host's transaction pool, the EVM.

## Runs

| run | shows | bounds, and why they are enough |
|---|---|---|
| `Navi` | navigator = reference; hooks = reachable steps | all pipelines of up to two items and two levels with every choice of prologue, epilogue, step and behaviour, and a selection of three levels: every branch of the navigator depends on a leaf, its parent and the parent's neighbour only. No nested pipeline is without steps: `enter` takes it for the end of the run |
| `PipelineExec` | scopes, limits, events, lifecycle, a run resolves | over 60 pipelines of up to three levels, among them the example of `scope.rs`, loops in loops, every loop with a step of its own; factories of each kind, one that returns anything |
| `OrderPool` | collection of committed and hopeless orders, rejected orders | one caller that inserts again and again, a bundle of two transactions that expires with the first block, one of the transactions also alone and in both pools, two blocks of any content, a channel that overflows at one: a race needs a writer and a block, a reorg or an expiry a second block. The maintenance loop, the event listener and the jobs are actors of their own |
| `PayloadJob` | setup first, executor lifetime, jobs end, requests are answered | two jobs, two requests, two steps: copies of one future need one of each, sharing needs two jobs |
| `Checkpoint` | lookups, valid payloads, bundle rules, removal of failures, ordering, atomicity, blocks, `OneStep` | four checkpoints before a removal or a combinator, in every tree; two signers and a contract; dependent transactions; bundles whose transactions are marked as optional, as allowed to fail, as both and as neither, two with an optional transaction twice, of which one has another transaction between; five combinations of steps, chained, atomic and under `OneStep`, with room for the sequencer's transactions and without. A stale lookup needs two writes, a fork three checkpoints, a removal that invalidates what follows a failure and one more after a barrier |
| `AppendOrders` | no duplicates, limits, counters, loops end | two jobs that overlap or follow each other; an order alone, in a bundle and in both pools, a blob transaction; five settings that reach each limit before the others |
| `StateCache` | cached reads are the state of the parent | two jobs, three blocks in every tree, three changes of the chain, a queue that holds one: a stale entry needs a change and a job on either side of it, sharing two jobs |
| `HostNode` | no dangling pool, tip, timestamps | two nodes of either kind, three boxes, one task in a call while others clone and drop, two blocks, block times below and above the minimum |
| `OrderPool2` | wakeups, parents, indexes, readiness | orders of two accounts: rivals for one nonce, chains of three nonces, one that needs both accounts, optional transactions, one of them with the nonce of a required one; four simulations; two payloads. Nonces are at most `MaxNonce`, one more than any order has, in `SimTree`, and `MaxTxNonce` for orders of the prioritized pool |

Deadlock is checked in `AppendOrders`. In the others it is not: a run ends when it has
resolved, and the numbers of jobs, requests and blocks are bounded, so that all
behaviours stop; that they do not stop too early is what `Resolves`,
`JobsLeaveTheService`, `RequestsAreAnswered`, `RemovalEnds` and `TipFollows` say.

Three runs expect a violation. Each states what a comment or an assertion of the code
says and shows where the code does something else; `PROJECT.json` quotes the lines.

* `AppendOrdersBlobs`: `blob_gas_used` of a bundle is `None` when one of its
  transactions has no blobs; such a bundle is included over the blob limit.
  `WithinLimits` is what holds for all other payloads. (The limits on what one run adds
  are a property of their own, `RunWithinLimits`.)
* `OrderByPanics`: a bundle with two transactions of one signer waits for itself, and
  the assertion at the end of `OrderBy` fails. `OrderingKeepsOrders` is what holds for
  all others.
* `EmptyBundle`: a bundle all of whose transactions are optional and discarded becomes an
  empty result and a checkpoint without transactions, although the comment on
  `execute_bundle` says that it is invalid. `BundleRules` is what holds of all bundles. (Two
  such checkpoints have one hash, which makes `OrderBy` panic, too.)

### Other disagreements of code and comments

They are in the models, as the code has them, and the properties above say what holds
in spite of them.

* scope.rs:138: the factory of the root pipeline is applied twice, to the limits of the
  platform and then to its own (limits.rs:10 says to those of the platform).
* core platform/limits.rs:132: `max_transactions` cannot be imposed where the platform
  has none, since `Option::min` prefers `None`. A limit on transactions is also one per
  run of `AppendOrders`, not of the payload (limits.rs:27).
* pool/mod.rs:103: an insert that overlaps with the report of a block leaves an order of
  a committed transaction (pool/mod.rs:92 says that it is removed).
* service.rs:224: jobs are in one step instance at the same time, although
  step/mod.rs:39 says that a step is not called concurrently. The counters that
  `StepInstance` keeps per job are then those of several jobs, and so are the attempted
  orders, which are cleared at the beginning of each job, not at the end (step.rs:43).
* flashbots.rs:118: of a bundle <<a0, a1, a0>> in which a0 is optional, the second a0 is
  invalid and discarded, but `without_transaction` removes the first. The checkpoint has the
  transactions <<a1, a0>>, which cannot be executed (checkpoint.rs:61 says that no such
  checkpoint can be made). The run `Checkpoint` has this bundle. Its executed
  transactions have the right nonces all the same; the rest of `PayloadsAreValid`,
  `OrderingKeepsOrders` and `BlockIsThePayload` are about payloads without such bundles.
* checkpoint.rs:403: lookups find a destroyed account as it was before.
* scope.rs:168: the first step of a run is not in an entered scope; scope.rs:45: a nested
  pipeline that is reached again right after a break is not re-entered.
* report.rs:53: `report_inclusion_attempt` removes nothing.
* step.rs:91: the setting `disable_system_pool` is never read. step.rs:411: the
  counters of included transactions and bundles are given the payload before the order.
* step.rs:152: what `after_job` reports of jobs that overlap is a mixture: each clears the
  attempted orders and the counters of the other. `LoneJobsReportThemselves` is about jobs
  that do not.
* job.rs:95, 122: `best_payload` and `resolve_kind(WaitForPending)` panic, and end the
  service with all its jobs.
* atomic.rs:18 says that a deadline breaks; the code returns `Ok` with the payload it was
  given (atomic.rs:80).
* prioritized_pool/mod.rs:228: `remove_order` returns `None` for an order in the queue,
  which it removes. The pool keeps nonces it has read for an earlier payload, so that
  orders can be ready by nonces of another payload; `ReadyByTheNoncesOfThePayload` is
  about steps that start with the right ones.
* native.rs:806: two methods of the wrapper are not implemented and panic. native.rs:467
  says that the table is the only owner of the pool, but a clone of the table has the
  same pointer; it does no harm only because the pointer is cast to the platform, a type
  without data, so that nothing is ever freed and every box leaks.
* host.rs:156: the tip of an order pool that is attached to a test node is the genesis
  block until the next block.
* block.rs:102: pre-execution changes are applied to a state that the lookups of
  checkpoints do not read.

### Fairness

`PipelineExec` assumes weak fairness of `Poll`: every branch of `poll` that does not
resolve wakes its task, which is not modelled but read off the code. It assumes that the steps of a loop, if they run again and
again, break it some time (strong fairness of `BreakLoop`, for the loops at each
depth): this is not in the code of the executor, it is what a looping step is for.
`PayloadJob` assumes that timers fire
and that the service and the requests poll what they hold, which the runtime does,
and that a polled executor moves on, which is `Resolves`. Nothing is assumed of
polls by the service before the deadline. `Checkpoint` assumes that a removal that
has begun goes on: `step` has no await in it. `AppendOrders` assumes that a job is
polled until it ends and that the iterators of the pools come to their end; nothing is
assumed of the other steps and of the deadline. `HostNode` assumes that the runtime of
the node polls the maintenance loop when it is woken.

## Proofs

The theorems are about the specifications that the runs check. Each proof module has an
inductive invariant (`IndInv`, `IInv`) that holds initially and is kept by every step; the properties follow from it.
Each assumption on constants is evaluated by TLC in the runs of the `MC` module.

### The executor

`PipelineExecProofs` proves, for every set of well-formed pipelines, all factories
and every outcome of hooks and steps:

* `Invariance`: the inductive invariant `IndInv`, which has in it that active scopes
  are a chain (`ActiveScopesAreAChain`) and that none is left at the end
  (`ScopesLeftAtTheEnd`);
* `TypeCorrect`: the types of the executor and its scopes;
* `ScopeSafety`, `LimitsNested`: the invariants of the run `PipelineExec`;
* `StepScopes`: the active scopes are those of the pipelines that contain the step control
  has moved to; `ScopesRenewed`: those that it has moved into have new limits;
* `Refinement`: a run implements `PayloadJobLifecycle`;
* `NavigationCorrect`: the navigator goes where the structured reading of the pipeline goes,
  whatever the steps return;
* `HooksComplete`: `iter_steps` yields every step once, in the order of the pipeline, and
  the navigator reaches no other.

The safety of scopes is not inductive by itself. That no assertion fails in
`switch_context` needs that the active scopes are exactly the ancestors of
`current`; that this is kept needs that `leave` reaches all active scopes nested in
the one it leaves (`LeftWith`), and that the chains of two scopes part at their
common ancestor (`CommonAncestor`, `BetweenUp`, `BetweenDown`); nested limits need
that a scope keeps its limits exactly when the scope around it does
(`SwitchContext`). `IndInv` adds that no scope is active before the first step, and
where output and result are decided, which `Refinement` needs.

What the navigator computes is a matter of recursive functions over paths. Their
recursion equations hold because each call goes down in a rank (how deep a pipeline
is in the tree, which has finitely many paths), and an induction over that rank, written
once for sets of natural numbers, gives that navigation stays among the steps of the
pipeline (`NaviClosed`). For `NavigationCorrect` the invariant `WalkInv` says that the stack
of the reference is `Chained`, each element being what follows the one above it, and that the
navigator is where the top of the stack will lead (`ExpectedOf`). Unfolding the top keeps
where it leads to (`UnfoldAgrees`). A step that returns Ok leads to what comes next
(`OkAgrees`); for a break, the stack is cut at the innermost mark of a loop, and
the lemmas about `Level` show that this is the pipeline that `next_break` leaves
(`BreakAgrees`).

Assumptions:

* `PipelinesWellFormed`: pipelines as the builder API makes them, finite ones;
* `NestedHaveSteps`, for the two theorems about navigation: no nested pipeline is without
  steps, which `enter` takes for the end of the run;
* `LimitsClosed`: factories return limits; `LimitsSet` contains what arises;
* `IntMaxNat`: the largest integer is a natural number.

### Payload jobs

`PayloadJobProofs`, for any number of jobs, requests and steps: `ExecutorLifetime`
and `SetupComesFirst`. `IndInv` says that setup goes from
step to step and that nothing lives before the service is spawned (`SetupInOrder`), that
only live executors are inside a step (`StepsOfTheLiving`), that the future of a job
has one owner at a time who may poll it, and finds the executor alive (`OneOwner`),
and that who is alive is held (`NobodyIsForgotten`). The first
half of `ExecutorLivesWhileHeld` needs `OneOwner`: `release` drops the executor when its
last holder goes, so that the proof must know who the others are. Assumption: `StepsAreNat`.

### The order pool

`OrderPoolProofs`, for any number of callers, orders, blocks and events:
`CommittedOrdersGo`, `IneligibleBundlesGo`, `RejectedIsNotProposed`, and
`IneligibleForever`: what is permanently ineligible at a block is so at all later ones,
which is what `is_permanently_ineligible` promises.

For the first, the index has to be complete: an order is listed for each of its transactions
unless a block had the transaction already, also in the middle of an insert
(`IndexComplete`), and while a block is reported the orders that it commits are still in
the index or already among those to be removed (`Collecting`). For the second, `Judging` says
the same of the bundles that `retain` has yet to visit, and `Judged` that a bundle that
is in the pool, or on its way into it, was accepted by a header that was the tip at that
time; `IneligibleForever` connects the two. Assumption: `PoolConstants` (orders and
transactions are different, bundles are sequences of transactions, the channel has room).

### The host node

`HostNodeProofs`, for any number of nodes, tasks, boxes and blocks: `PointersAreValid`
(`NoDanglingPools`) and `AttributesAlwaysAccepted`. `Pointers`: every box is that of a node,
every handle and every call under way points to a box, and the box of an
owner leads to the pool it stands for; the heap only grows. `Driving`: only nodes that
were launched are driven, and a block under way has a time after the latest block, which needs
that block times are at least a second (`set_block_time`). Assumption: `HostConstants`
(the host and the absence of one are not nodes, times are natural numbers).

### The state cache

`StateCacheProofs`, for any tree of blocks, any number of jobs and any capacity of the
queue: `ReadsAreTheParentState`. The invariant: notifications wait in the order of their
numbers (`Queue`); the storage caches that a user has are its own or of a notification that
is no longer in the queue (`Naming`), so that nobody will write another block's state into
them; who shares a storage cache shares the block (`Sharing`); and what a cache
says, storage caches that the user would make included, is the state at the block of
its user (`Agreement`). Assumption: `CacheConstants` (accounts have the slots there are;
jobs and numbers of notifications, by which storage caches are named, are different).

### Order pool 2

`OrderPool2Proofs`, for any orders, finitely many accounts and results in any order.

`NobodyWaitsForThePast`: `WaitingOrdersAreWoken` is inductive with the types. An order of
the simulation tree counts the nonces it is listed under, and `process_new_nonce` takes it
from one list and one from its count, so that the count is zero exactly when no list has
it. The proof is about cardinalities of sets of nonces, for which `SimConstants` bounds
nonces and accounts.

`ParentsLeadThere` needs `PathInv`: ids of requests and simulations are unique (`IdsOK`), the
simulation that is noted for a nonce leads there with those before it (`SimsLead`),
an order that waits is listed for all it needs (`ListedOK`), and so the parents of each
request, the paths to its nonces one after the other, lead to its order (`PathsOK`). A path
leads to a nonce from whatever the other accounts have, which is why paths can be
put together.

`QueueAgrees` and `ReadyFollowsThePayload` rest on `PrioInv`: what is in the queue is listed and
ready (`Consistent`), in the pool that is kept who waits does so for a later nonce
(`WaitsAhead`), in the copy that a step works on nobody waits for the nonce of its account
(`NobodyOverlooked`), and the nonces of that copy are those of the payload (`Agrees`).
`update_onchain_nonces` breaks this between its loops: `Revalidating` says what holds while the
orders of accounts that moved are judged again, `Waking` while those that waited are inserted. The
loops are folds over sets; one induction over finite sets serves them all. Assumptions:
`SimConstants` and `PrioConstants` (finitely many orders, with known accounts and
bounded nonces).

### AppendOrders

`AppendOrdersProofs`, for any orders, settings, limits and overlapping jobs:
`TransactionsOnce`, `LimitsHold`, `PayloadLimitsHold`, `CountersHold` and `LoneJobsCorrect`. Every step keeps a job, begins or ends
its run, takes something out of its payload or adds what is left of one order (`Moves`,
by `ProceedMoves`, `AttemptMoves` and `ConcludeMoves`). `NoTransactionTwice` needs that a run
knows all transactions of the payload (`RunsKnowTheirPayload`): `RunNew` reads them
and `Include` adds to them, and the other steps change the payload only between two runs.
What `Applied` leaves of an order has each transaction once and not more of them than the order
(`AppliedFacts`), so that the checks of `should_stop` and `should_skip`, made before the
order is executed, bound what is added after it (`GainsKeepsBounded`). `CountersAgree` is
inductive with the types: a job that has counted an order as considered is among the
undecided ones until it has counted what became of it (`CountersStep`).
`LoneJobsReportThemselves` needs who is alone (`LoneInv`): a job that no other overlaps has been
the only one under way since it began, so that the attempted orders and the counters
are its own.
`WithinLimits` is about sums over a payload: adding an order adds its gas and its blobs, what
is left of an order has no more of them than the order, and taking something out makes
no sum larger. Assumption: `AppendConstants` (orders are transactions or bundles whose
transactions use some gas, settings and limits are natural numbers or absent).

### Checkpoints and standard steps

`StepsProofs`, for any transactions, bundles and combinators, in trees of checkpoints of any
size:

* `LookupsCorrect`, `BundlesCorrect`, `NoncesCorrect`: the state that lookups find, the rules of
  bundles, the order of nonces;
* `OrderingCorrect`: `OrderBy` applies every staged order again, in an order that keeps the
  nonces of signers, and its assertion does not fail, for all payloads in which no order is
  staged twice and no bundle sends twice;
* `PayloadsCorrect` and `BlocksCorrect`: payloads are valid and become the block of a rollup.

  None of them assumes anything about the bundles that are sent. Of a payload that has a bundle
  with an optional transaction twice (`OnceIn`, flashbots.rs:118 above) they say that the nonces
  of what was executed are right, and no more: the rest is false of it;
* `FailuresRemoved` and `SealedKept` about `RemoveRevertedTransactions`;
* `CombinatorsCorrect` and `OneStepCorrect`.

`IInv` has three parts. `Sound`: the checkpoints are a tree, and each mutation is what an
execution on its parent gives: its changes lead from the replayed state of the history before
it to the one after it, its results have the nonces that follow, and what is left of a
bundle obeys the rules and belongs to its results. `Control`: what a combinator has
returned follows from the steps that have run. `Kept`: a removal at work has the sealed history
of where it began, no failures in what it has rebuilt, and only orders to come. `BlocksCorrect`
needs `Rollup`, too: a prologue at work has applied the first transactions of the
sequencer, and once it has returned, a barrier behind all of them keeps them at the beginning of
every payload that the later steps make.

`OrderingCorrect` needs `Ordered`: while orders are applied again, the payload that is built
lacks as many orders as are left to apply. That the sorting gives all of them is an
invariant of its fold (`Sorting`): what is left and what has been popped are all orders, the
nonces that are still unused are those of what is left, and each order was in its place when
it was popped (`Placed`). It never gets stuck, since nonces of a signer ascend along a history
(`HistoryAscends`), so that the first order that is left waits for no other (`FirstIsReady`)
unless it sends twice.

The operators are folds and recursive functions. What they give is derived from two
inductions: one over sets of natural numbers, from the least element of a set that is not
empty, and one for all folds, for which a fold over a sequence is described by the sequence of its
values (`Trace`). `Path` and the operators after it have the checkpoints as an argument, so that a
history can be compared before and after a step: it does not change when checkpoints are
added (`Grows`).

Assumptions: `SignersAreAccounts`, `BaseIsState`, `OrdersAreOrders`, `CombinatorsHaveSteps`,
`SendersAreSenders`, all of them types of constants.

### Only model-checked

* Liveness, which the prover does not support under fairness: `Resolves`,
  `JobsLeaveTheService`, `RequestsAreAnswered`, `RemovalEnds`, `JobsEnd`, `TipFollows`.

## Not modelled

The EVM, state providers, the builders and the pools of the host node are external; with the
builder of Ethereum its `build_payload` and `FixedTransactions`, the iterator it is given, are left out.
Metrics, names, logging, serialisation, hashing and macros carry no behaviour that a
property is about. Operations that `CachedStateProvider` and the native pool pass on
unchanged are those of what is behind them. Next-block contexts and the types of the
platforms are plain data. The lag of the canonical state stream is modelled for the
state cache and not for the order pool, where every block is delivered.
Simulations of `orderpool2` have no implementation in the repository.

## Plan

Done: every component with state of its own; proofs of all invariants that the runs check.

Next: the parts of components that are only partly modelled (listed in `PROJECT.json` with
what is left out), each with the properties its hazards call for.
