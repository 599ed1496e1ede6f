---------------------------- MODULE AppendOrders ----------------------------
(***************************************************************************)
(* AppendOrders (pool/step.rs): the step that extends a payload with       *)
(* orders of the pools, inside a loop of steps.  One instance of the step, *)
(* with its set of attempted orders and its counters, serves all payload   *)
(* jobs, which overlap.                                                    *)
(*                                                                         *)
(* What the pools return is external: any orders of the order pool in any  *)
(* order, then any transactions of the host's pool.  So is the EVM: an     *)
(* order can always fail, and a bundle can lose any of its optional        *)
(* transactions.  The other steps of the loop remove any orders since the  *)
(* last barrier.                                                           *)
(***************************************************************************)
EXTENDS Payload, FiniteSets

CONSTANTS
  Jobs,                \* payload jobs
  Orders,              \* hashes of the orders
  OrderOf,             \* kind, transactions and optional transactions of each
  SystemOrders,        \* transactions of the host's pool
  Configs,             \* how the step is built, the limits of its scope, and
                       \* the jobs and orders that there are
  MIN_TRANSACTION_GAS

Optional == Nat \cup {None}

ASSUME AppendConstants ==
  /\ \A o \in Orders :
       /\ OrderOf[o].kind \in {"transaction", "bundle"}
       /\ OrderOf[o].txs \in Seq(ToSet(OrderOf[o].txs))
       /\ \A tx \in ToSet(OrderOf[o].txs) :
            tx.gas \in Nat /\ tx.gas >= MIN_TRANSACTION_GAS /\ tx.blob \in Optional
  /\ \A c \in Configs : /\ c.orders \subseteq Orders
                        /\ c.step.max_new_orders \in Optional
                        /\ c.step.max_new_bundles \in Optional
                        /\ c.step.max_new_transactions \in Optional
                        /\ c.limits.max_transactions \in Optional
                        /\ c.limits.gas_limit \in Nat
                        /\ c.limits.max_blob_gas \in Optional
  /\ SystemOrders \subseteq {o \in Orders : OrderOf[o].kind = "transaction"}
  /\ MIN_TRANSACTION_GAS \in Nat \ {0}

VARIABLES
  config,     \* one of Configs, which never changes
  attempted,  \* shared by all jobs
  per_job,    \* PerJobCounters, shared by all jobs
  metrics,    \* Metrics: the counters
  jobs,       \* where each job is, its payload and the run of the step
  overlapped  \* history: the jobs during which another one was under way

vars == <<config, attempted, per_job, metrics, jobs, overlapped>>

(***************************************************************************)
(* Construction                                                            *)
(***************************************************************************)

from_pool ==
  [max_new_orders |-> None, max_new_bundles |-> None, max_new_transactions |-> None,
   break_on_limit |-> TRUE, enable_system_pool |-> TRUE]

\* Nothing reads the flag: BeginStep takes the host's transactions in any case.
disable_system_pool(step) == [step EXCEPT !.enable_system_pool = FALSE]

with_max_new_orders(step, n) == [step EXCEPT !.max_new_orders = n]

with_max_new_bundles(step, n) == [step EXCEPT !.max_new_bundles = n]

with_max_new_transactions(step, n) == [step EXCEPT !.max_new_transactions = n]

with_ok_on_limit(step) == [step EXCEPT !.break_on_limit = FALSE]

(***************************************************************************)
(* Counters                                                                *)
(***************************************************************************)

\* Orders only: transactions and bundles are counted by the same calls.
PerJobZero == [considered |-> 0, included |-> 0]

MetricsZero == [considered |-> 0, skipped |-> 0, inclusion_failed |-> 0, included |-> 0]

(***************************************************************************)
(* One run of the step                                                     *)
(***************************************************************************)

\* [a, b].flatten().min(): an absent limit does not count.
MinPresent(a, b) == IF a = None THEN b ELSE IF b = None \/ a < b THEN a ELSE b

max_transactions == MinPresent(config.step.max_new_transactions, config.limits.max_transactions)

\* Mutant: only what this run adds is known to be in the payload.
RunNewWithoutHistory(payload) ==
  [txs |-> 0, orders |-> 0, bundles |-> 0, existing_txs |-> {}]

\* Run::new
RunNew(payload) ==
  [txs |-> 0, orders |-> 0, bundles |-> 0, existing_txs |-> transactions(payload)]

NoRun == RunNew(<<BarrierCheckpoint>>)

\* Mutant: the limit is passed by one.
past_limit(count, limit) == limit # None /\ count > limit

at_limit(count, limit) == limit # None /\ count >= limit

\* A run stops at a limit that leaves no room for another order.
should_stop(job) ==
  \/ job.deadline_reached
  \/ at_limit(job.run.orders, config.step.max_new_orders)
  \/ at_limit(job.run.txs, max_transactions)
  \/ at_limit(job.run.bundles, config.step.max_new_bundles)
  \/ config.limits.gas_limit - cumulative_gas_used(job.payload) < MIN_TRANSACTION_GAS

order_blob_gas(order) == total(LAMBDA tx : IF tx.blob = None THEN 0 ELSE tx.blob, order.txs)

\* An order that does not fit, while others may.
should_skip(job, order) ==
  \/ max_transactions # None /\ Len(order.txs) + job.run.txs > max_transactions
  \/ is_bundle(order) /\ at_limit(job.run.bundles, config.step.max_new_bundles)
  \/ ToSet(order.txs) \cap job.run.existing_txs # {}
  \/ /\ config.limits.max_blob_gas # None
     /\ order_blob_gas(order) + cumulative_blob_gas_used(job.payload) > config.limits.max_blob_gas

\* What Checkpoint::apply may leave of an order (external): a bundle loses any of
\* its optional transactions.  A transaction is executed once at most, for its nonce.
Applied(o) ==
  LET order == OrderOf[o]
      left == {f \in Selections(order.txs) :
                 /\ \A i \in DOMAIN order.txs : \/ order.txs[i] \in order.optional
                                                \/ \E k \in DOMAIN f : f[k] = i
                 /\ \A i, k \in DOMAIN f : order.txs[f[i]] = order.txs[f[k]] => i = k}
  IN {[kind |-> order.kind, order |-> o, txs |-> [i \in DOMAIN f |-> order.txs[f[i]]]] : f \in left}

\* `order` is the one that try_include is called with.
Idle == [pc |-> "waiting", deadline_reached |-> FALSE, payload |-> <<BarrierCheckpoint>>,
         run |-> NoRun, source |-> "pool", visited |-> {}, order |-> "none"]

Init ==
  /\ config \in Configs
  /\ attempted = {}
  /\ per_job = PerJobZero
  /\ metrics = MetricsZero
  /\ jobs = [j \in Jobs |-> Idle]
  /\ overlapped = {}

(***************************************************************************)
(* The job hooks                                                           *)
(***************************************************************************)

Running(j) == jobs[j].pc \notin {"waiting", "done"}

\* before_job: the attempted orders are cleared ...
BeforeJob(j) ==
  /\ j \in config.jobs
  /\ jobs[j].pc = "waiting"
  /\ jobs' = [jobs EXCEPT ![j].pc = "reset"]
  /\ attempted' = {}
  /\ overlapped' = overlapped \cup LET others == {k \in Jobs : Running(k)}
                                 IN IF others = {} THEN {} ELSE others \cup {j}
  /\ UNCHANGED <<config, per_job, metrics>>

\* Mutant: the counters of the job before are kept.
ResetNothing(j) ==
  /\ jobs[j].pc = "reset"
  /\ jobs' = [jobs EXCEPT ![j].pc = "between"]
  /\ UNCHANGED <<config, attempted, per_job, metrics, overlapped>>

\* ... and then the counters are reset.
ResetCounters(j) ==
  /\ jobs[j].pc = "reset"
  /\ jobs' = [jobs EXCEPT ![j].pc = "between"]
  /\ per_job' = PerJobZero
  /\ UNCHANGED <<config, attempted, metrics, overlapped>>

\* after_job: the counters go to the histograms, which nothing reads.
AfterJob(j) ==
  /\ jobs[j].pc = "ended"
  /\ jobs' = [jobs EXCEPT ![j].pc = "done"]
  /\ UNCHANGED <<config, attempted, per_job, metrics, overlapped>>

(***************************************************************************)
(* AppendOrders::step                                                      *)
(***************************************************************************)

\* The scope of the step reaches its deadline, if it has one.
DeadlineReached(j) ==
  /\ config.limits.deadline
  /\ Running(j)
  /\ ~jobs[j].deadline_reached
  /\ jobs' = [jobs EXCEPT ![j].deadline_reached = TRUE]
  /\ UNCHANGED <<config, attempted, per_job, metrics, overlapped>>

\* Two iterators are made, over the order pool and over the host's.
BeginStep(j) ==
  /\ jobs[j].pc = "between"
  /\ jobs' = [jobs EXCEPT ![j].pc = "running", ![j].run = RunNew(jobs[j].payload)]
  /\ UNCHANGED <<config, attempted, per_job, metrics, overlapped>>

\* PoolsDemux::next: when the order pool has no more orders, the host's is asked.
OrderPoolExhausted(j) ==
  /\ jobs[j].pc = "running"
  /\ ~should_stop(jobs[j])
  /\ jobs[j].source = "pool"
  /\ jobs' = [jobs EXCEPT ![j].source = "system", ![j].visited = {}]
  /\ UNCHANGED <<config, attempted, per_job, metrics, overlapped>>

\* Mutant: a run that adds nothing lets the loop go on.
EndStepOk(j) ==
  /\ jobs[j].pc = "running"
  /\ should_stop(jobs[j]) \/ jobs[j].source = "system"
  /\ jobs' = [jobs EXCEPT ![j].pc = "after",
                          ![j].run = NoRun, ![j].source = "pool", ![j].visited = {}]
  /\ UNCHANGED <<config, attempted, per_job, metrics, overlapped>>

\* Run::end, at a limit or when both pools are exhausted: a run that has added no
\* transaction breaks the loop, unless the step is told not to.
EndStep(j) ==
  /\ jobs[j].pc = "running"
  /\ should_stop(jobs[j]) \/ jobs[j].source = "system"
  /\ jobs' = [jobs EXCEPT ![j].pc = IF config.step.break_on_limit /\ jobs[j].run.txs = 0
                                    THEN "ended" ELSE "after",
                          ![j].run = NoRun, ![j].source = "pool", ![j].visited = {}]
  /\ UNCHANGED <<config, attempted, per_job, metrics, overlapped>>

\* A pool returns an order, each at most once, and attempted.insert adds it, whatever
\* try_include will make of it, or finds it there: then the next one is asked for.
Attempt(j) ==
  /\ jobs[j].pc = "running"
  /\ ~should_stop(jobs[j])
  /\ \E o \in config.orders \ jobs[j].visited :
       /\ jobs[j].source = "system" => o \in SystemOrders
       /\ \/ /\ o \in attempted
             /\ jobs' = [jobs EXCEPT ![j].visited = @ \cup {o}]
          \/ /\ o \notin attempted
             /\ jobs' = [jobs EXCEPT ![j].visited = @ \cup {o},
                                     ![j].pc = "attempted", ![j].order = o]
       /\ attempted' = attempted \cup {o}
  /\ UNCHANGED <<config, per_job, metrics, overlapped>>

\* try_include counts the order as considered.  (Between the two counters another job
\* can reset the second: it may as well do so before both, as only counts are added to
\* the first.)
Consider(j) ==
  /\ jobs[j].pc = "attempted"
  /\ jobs' = [jobs EXCEPT ![j].pc = "considered"]
  /\ metrics' = [metrics EXCEPT !.considered = @ + 1]
  /\ per_job' = [per_job EXCEPT !.considered = @ + 1]
  /\ UNCHANGED <<config, attempted, overlapped>>

\* The payload is left as it is, and one counter tells why.
LeaveOut(j, counter) ==
  /\ jobs' = [jobs EXCEPT ![j].pc = "running", ![j].order = "none"]
  /\ metrics' = [metrics EXCEPT ![counter] = @ + 1]
  /\ UNCHANGED per_job

Skip(j) == should_skip(jobs[j], OrderOf[jobs[j].order]) /\ LeaveOut(j, "skipped")

\* Its signers cannot be recovered, or it makes no valid checkpoint: a failure event.
Fail(j) ==
  /\ ~should_skip(jobs[j], OrderOf[jobs[j].order])
  /\ LeaveOut(j, "inclusion_failed")

\* Mutant: the gas of the candidate is not looked at.
fits_before(job, candidate) == cumulative_gas_used(job.payload) <= config.limits.gas_limit

fits(job, candidate) ==
  cumulative_gas_used(Append(job.payload, candidate)) <= config.limits.gas_limit

\* Mutant: what does not fit is dropped without a trace.
SkipForGasUncounted(j, candidate) ==
  /\ ~fits(jobs[j], candidate)
  /\ jobs' = [jobs EXCEPT ![j].pc = "running", ![j].order = "none"]
  /\ UNCHANGED <<metrics, per_job>>

\* The order is valid but uses more gas than is left.
SkipForGas(j, candidate) == ~fits(jobs[j], candidate) /\ LeaveOut(j, "skipped")

Extended(job, candidate) ==
  [job EXCEPT !.pc = "running", !.order = "none",
              !.payload = Append(@, candidate),
              !.run.orders = @ + 1,
              !.run.txs = @ + Len(candidate.txs),
              !.run.bundles = @ + IF is_bundle(candidate) THEN 1 ELSE 0,
              !.run.existing_txs = @ \cup ToSet(candidate.txs)]

\* The payload is extended, and an event tells of the success.
Include(j, candidate) ==
  /\ fits(jobs[j], candidate)
  /\ jobs' = [jobs EXCEPT ![j] = Extended(@, candidate)]
  /\ metrics' = [metrics EXCEPT !.included = @ + 1]
  /\ per_job' = [per_job EXCEPT !.included = @ + 1]

\* try_include after it has counted the order: nothing of it is shared but the counters.
Conclude(j) ==
  /\ jobs[j].pc = "considered"
  /\ \/ Skip(j)
     \/ Fail(j)
     \/ /\ ~should_skip(jobs[j], OrderOf[jobs[j].order])
        /\ \E candidate \in Applied(jobs[j].order) :
             SkipForGas(j, candidate) \/ Include(j, candidate)
  /\ UNCHANGED <<config, attempted, overlapped>>

\* The other steps of the loop (external) remove some of the checkpoints.
OtherSteps(j) ==
  /\ jobs[j].pc = "after"
  /\ \E f \in Selections(jobs[j].payload) :
       /\ 1 \in DOMAIN f /\ f[1] = 1
       /\ jobs' = [jobs EXCEPT ![j].pc = "between",
                               ![j].payload = [i \in DOMAIN f |-> @[f[i]]]]
  /\ UNCHANGED <<config, attempted, per_job, metrics, overlapped>>

\* Where a job goes on without a new order.
Proceed(j) ==
  \/ BeforeJob(j) \/ ResetCounters(j) \/ AfterJob(j)
  \/ BeginStep(j) \/ OrderPoolExhausted(j) \/ EndStep(j)
  \/ Consider(j) \/ Conclude(j)
  \/ OtherSteps(j)

AllDone == (\A j \in config.jobs : jobs[j].pc = "done") /\ UNCHANGED vars

Next == (\E j \in Jobs : Proceed(j) \/ Attempt(j) \/ DeadlineReached(j)) \/ AllDone

Spec == Init /\ [][Next]_vars

\* A job is polled until it ends, none of these steps waits for anything, and the
\* iterators of the pools come to an end.
FairSpec == Spec /\ \A j \in Jobs : WF_vars(Proceed(j))

(***************************************************************************)
(* Properties                                                              *)
(***************************************************************************)

\* "avoid infinite loops where some future step of the pipeline removed a previously
\* added transaction from the payload" (step.rs): whatever the other steps remove and
\* the pools return, a loop around the step ends, also when other jobs clear the
\* attempted orders meanwhile.  (A step that returns Ok at its limits leaves that to the
\* loop's own deadline.)
JobsEnd ==
  \A j \in Jobs : config.step.break_on_limit /\ jobs[j].pc # "waiting" ~> jobs[j].pc = "done"

\* No transaction is twice in a payload, although orders share transactions, the
\* payload is changed between two runs, and an order may come from both pools.
NoTransactionTwice ==
  \A j \in Jobs : LET payload == jobs[j].payload
                  IN \A i, k \in DOMAIN payload :
                       \A p \in DOMAIN payload[i].txs, q \in DOMAIN payload[k].txs :
                         payload[i].txs[p] = payload[k].txs[q] => i = k /\ p = q

blobs(payload) == total(order_blob_gas, payload)

mixed(payload) ==
  \E c \in ToSet(payload) : blob_gas_used(c) = None /\ order_blob_gas(c) > 0

within(count, limit) == limit = None \/ count <= limit

\* "append new orders until either the payload limit" (step.rs): a payload stays within
\* the gas of its scope, and within its blob gas if no bundle has transactions with and
\* without blobs.
WithinLimits ==
  \A j \in Jobs :
    /\ cumulative_gas_used(jobs[j].payload) <= config.limits.gas_limit
    /\ \/ mixed(jobs[j].payload)
       \/ within(blobs(jobs[j].payload), config.limits.max_blob_gas)

\* "... or one of the configured limits is reached": what a run adds stays within the
\* limits of the step and of its scope, also when a bundle adds several transactions.
RunWithinLimits ==
  \A j \in Jobs :
    /\ within(jobs[j].run.txs, max_transactions)
    /\ within(jobs[j].run.orders, config.step.max_new_orders)
    /\ within(jobs[j].run.bundles, config.step.max_new_bundles)

\* The jobs that have counted an order as considered and not yet what becomes of it.
Undecided == {j \in Jobs : jobs[j].pc = "considered"}

\* Every order that is considered is skipped, fails or is included, and is counted so:
\* what is missing are the orders that jobs are trying at the moment, however the jobs
\* overlap.
CountersAgree ==
  metrics.considered = metrics.skipped + metrics.inclusion_failed + metrics.included
                         + Cardinality(Undecided)

\* What after_job reports of a job is the job's own, if no other was under way at the same
\* time: one order is considered for each that was attempted, no more are included, and
\* the payload is made of those, also after other steps have removed some.  (Of a job
\* that others overlap nothing of this holds: they clear the attempted orders and the
\* counters, between any two of the job's own accesses to them.)
LoneJobsReportThemselves ==
  \A j \in Jobs \ overlapped :
    Running(j) /\ jobs[j].pc # "reset" =>
      /\ Cardinality(attempted)
           = per_job.considered + IF jobs[j].pc = "attempted" THEN 1 ELSE 0
      /\ per_job.included + (IF jobs[j].pc = "considered" THEN 1 ELSE 0) <= per_job.considered
      /\ Len(jobs[j].payload) <= per_job.included + 1

(***************************************************************************)
(* What comments of the code say and the code does not do.                 *)
(***************************************************************************)

\* "Limits for blob transactions in the block" (core platform/limits.rs).
BlobLimitRespected ==
  \A j \in Jobs : config.limits.max_blob_gas # None =>
                    blobs(jobs[j].payload) <= config.limits.max_blob_gas
=============================================================================
